----------------------------- MODULE Supervisor -----------------------------
(***************************************************************************)
(* The position supervisor: one run per call, with a position as its       *)
(* payload.  A run reads the latest signal, closes a position that the     *)
(* signal contradicts, and otherwise may move its stop behind the entry.   *)
(* Meanwhile the price moves, the EA executes or drops commands, positions *)
(* open and close, and operators insert signals.                           *)
(* Prices are counted in steps of the fee buffer's resolution.             *)
(***************************************************************************)
EXTENDS Integers, FiniteSets

CONSTANTS
    Tickets,   \* positions of the account, each opened at most once
    Plan,      \* per ticket: side, entry, distance (atr * atr_mult), structure_sl
    NoLevel,   \* a structure_sl that is None
    Fee,       \* fee_buffer
    Prices     \* bound: the prices that occur, and the stops set by hand

VARIABLES
    price,
    position,  \* per ticket: where it is in its life, and its stop
    latest,    \* side of the newest row of signals, "none" without row or side
    commands,  \* rows of trading_commands; a copy of a row is the same member
    run,       \* what a run of the supervisor knows
    contrary   \* history: open positions that a newest signal has contradicted

supVars == <<price, position, latest, commands, run, contrary>>

Sides == {"buy", "sell"}

-----------------------------------------------------------------------------
(* The risk rules.                                                         *)

Abs(x) == IF x < 0 THEN -x ELSE x

\* risk_manager.run: the stop is the structure's, or a distance from the entry.
InitialSl(p) ==
    IF p.structure # NoLevel THEN p.structure
    ELSE IF p.side = "buy" THEN p.entry - p.distance ELSE p.entry + p.distance

Profit(side, entry, current) == IF side = "buy" THEN current - entry ELSE entry - current

\* Slip (not the code): the distance walked is compared with the whole risk.
SlipProgressed(side, entry, current, sl) ==
    2 * Profit(side, entry, current) >= Abs(entry - sl)

\* breakeven_trigger_r = 0.8, as a fraction without division.
Progressed(side, entry, current, sl) ==
    5 * Profit(side, entry, current) >= 4 * Abs(entry - sl)

ProtectiveSl(side, entry) == IF side = "buy" THEN entry + Fee ELSE entry - Fee

\* What rule 2 does with a payload: nothing, raise ZeroDivisionError when the
\* stop is at the entry, or publish a MODIFY_SL.
Protection(side, entry, current, sl) ==
    IF Profit(side, entry, current) <= 0 THEN "none"
    ELSE IF sl = entry THEN "raise"
    ELSE IF Progressed(side, entry, current, sl) THEN "modify" ELSE "none"

\* One level lies further from profit than another.
Behind(side, sl, level) == IF side = "buy" THEN sl < level ELSE level < sl

ASSUME SupervisorConstantsOK ==
    /\ Fee \in Nat /\ Fee > 0
    /\ NoLevel \notin Int
    /\ Prices \subseteq Int
    /\ \A t \in Tickets :
          /\ Plan[t].side \in Sides
          /\ Plan[t].entry \in Prices
          /\ Plan[t].distance \in Nat
          /\ Plan[t].structure \in Int \cup {NoLevel}

Side(t) == Plan[t].side
Entry(t) == Plan[t].entry

Opposite(side) == IF side = "buy" THEN "sell" ELSE "buy"
Protective(t) == ProtectiveSl(Side(t), Entry(t))

\* position_ref is the ticket; it is a column of the row and not part of what
\* the poll delivers.
CloseFull(t) == [kind |-> "CLOSE_FULL", ticket |-> t]
ModifySl(t) == [kind |-> "MODIFY_SL", ticket |-> t]

CommandRows == [kind : {"CLOSE_FULL", "MODIFY_SL"}, ticket : Tickets]

IdleRun == [at |-> "idle"]
RunStates ==
    {IdleRun}
    \cup [at : {"signal", "reversal", "protect"}, ticket : Tickets,
          move : {"none", "raise", "modify"}, seen : Sides \cup {"none"}]

SupTypeOK ==
    /\ price \in Prices
    /\ position \in [Tickets -> [state : {"none", "open", "gone"}, sl : Int]]
    /\ latest \in Sides \cup {"none"}
    /\ commands \subseteq CommandRows
    /\ run \in RunStates
    /\ contrary \subseteq Tickets

NoPosition(t) == [state |-> "none", sl |-> InitialSl(Plan[t])]
Gone(t) == [state |-> "gone", sl |-> InitialSl(Plan[t])]

SupInit ==
    /\ price \in Prices
    /\ position = [t \in Tickets |-> NoPosition(t)]
    /\ latest = "none"
    /\ commands = {}
    /\ run = IdleRun
    /\ contrary = {}

-----------------------------------------------------------------------------
(* The market, the terminal and the operators.                             *)

IsOpen(t) == position[t].state = "open"
OpenOnes == {t \in Tickets : IsOpen(t)}

\* Positions end, and what is remembered of them with them.
End(ended) ==
    /\ position' = [t \in Tickets |-> IF t \in ended THEN Gone(t) ELSE position[t]]
    /\ contrary' = contrary \ ended

\* A stop that the price reaches is executed.
PriceMove ==
    \E p \in Prices \ {price} :
        /\ price' = p
        /\ End({t \in OpenOnes : ~ Behind(Side(t), position[t].sl, p)})
        /\ UNCHANGED <<latest, commands, run>>

\* An order is filled at its entry price, if its stop is one the broker takes.
Open(t) ==
    /\ position[t].state = "none"
    /\ price = Entry(t)
    /\ Behind(Side(t), InitialSl(Plan[t]), price)
    /\ position' = [position EXCEPT ![t].state = "open"]
    /\ contrary' = IF latest = Opposite(Side(t)) THEN contrary \cup {t} ELSE contrary
    /\ UNCHANGED <<price, latest, commands, run>>

\* The side of the newest signal, when it has one: a "close" has not.
SignalSides == Sides \cup {"none"}

\* The operators' scripts are what inserts signals.
InsertSignal(side) ==
    /\ latest # side
    /\ latest' = side
    /\ contrary' = contrary \cup {t \in OpenOnes : side = Opposite(Side(t))}
    /\ UNCHANGED <<price, position, commands, run>>

\* The broker takes a stop only on its side of the price.
SetStops(moved, level) ==
    /\ \A t \in moved : Behind(Side(t), level, price)
    /\ position' = [t \in Tickets |->
           IF t \in moved THEN [position[t] EXCEPT !.sl = level] ELSE position[t]]

\* Either way, as the trader likes.
MoveStopByHand(t) ==
    /\ IsOpen(t)
    /\ \E level \in Prices : SetStops({t}, level)
    /\ UNCHANGED <<price, latest, commands, run, contrary>>

\* The EA is told to close and not what: it closes the positions there are, or
\* some of them until an order fails.  A copy of the command may remain.
ExecuteClose ==
    \E c \in commands, closed \in SUBSET OpenOnes :
        /\ c.kind = "CLOSE_FULL"
        /\ End(closed)
        /\ commands' \in {commands, commands \ {c}}
        /\ UNCHANGED <<price, latest, run>>

\* It is told the new stop and not whose.
ExecuteModify ==
    \E c \in commands, moved \in SUBSET OpenOnes :
        /\ c.kind = "MODIFY_SL"
        /\ SetStops(moved, Protective(c.ticket))
        /\ commands' \in {commands, commands \ {c}}
        /\ UNCHANGED <<price, latest, run, contrary>>

\* Expired, refused by the broker, or for a position that is gone.
DropCommand ==
    \E c \in commands :
        /\ commands' = commands \ {c}
        /\ UNCHANGED <<price, position, latest, run, contrary>>

-----------------------------------------------------------------------------
(* One run of the supervisor.                                              *)

\* initial_sl, or the stop there is when the payload has none.
PayloadStops(t) == {InitialSl(Plan[t]), position[t].sl}

\* What rule 2 will say if the run comes to it: the payload is a copy of the
\* position and of the price as they are now, and rule 2 looks at nothing else.
RuleTwo(t, sl) == Protection(Side(t), Entry(t), price, sl)

RunStart(t) ==
    /\ run = IdleRun
    /\ IsOpen(t)
    /\ \E sl \in PayloadStops(t) :
          run' = [at |-> "signal", ticket |-> t, move |-> RuleTwo(t, sl), seen |-> "none"]
    /\ UNCHANGED <<price, position, latest, commands, contrary>>

\* Slip (not the code): the action of the signal is read for its side.
SlipReadSignal ==
    /\ run.at = "signal"
    /\ run' = [run EXCEPT !.at = "reversal", !.seen = "open"]
    /\ UNCHANGED <<price, position, latest, commands, contrary>>

\* _get_latest_ai_signal; any exception counts as no signal.
ReadSignal ==
    /\ run.at = "signal"
    /\ run' = [run EXCEPT !.at = "reversal", !.seen = latest]
    /\ UNCHANGED <<price, position, latest, commands, contrary>>

ReadSignalFails ==
    /\ run.at = "signal"
    /\ run' = [run EXCEPT !.at = "reversal"]
    /\ UNCHANGED <<price, position, latest, commands, contrary>>

\* Slip (not the code): the signal's own direction is taken for a reversal.
SlipIsReversal(side, seen) == seen = side

\* Slip (not the code): only buy positions are looked at.
SlipBuyReversal(side, seen) == side = "buy" /\ seen = "sell"

IsReversal(side, seen) ==
    \/ side = "buy" /\ seen = "sell"
    \/ side = "sell" /\ seen = "buy"

NoReversal ==
    /\ run.at = "reversal"
    /\ ~ IsReversal(Side(run.ticket), run.seen)
    /\ run' = [run EXCEPT !.at = "protect", !.seen = "none"]
    /\ UNCHANGED <<price, position, latest, commands, contrary>>

\* The CLOSE_FULL is committed, and then the result names a variable that only
\* the other branch assigns: the caller gets an UnboundLocalError.
PublishClose ==
    /\ run.at = "reversal"
    /\ IsReversal(Side(run.ticket), run.seen)
    /\ commands' = commands \cup {CloseFull(run.ticket)}
    /\ run' = IdleRun
    /\ UNCHANGED <<price, position, latest, contrary>>

\* An exception counts as no reversal, before the commit or after it.
PublishCloseFails ==
    /\ run.at = "reversal"
    /\ IsReversal(Side(run.ticket), run.seen)
    /\ run' = [run EXCEPT !.at = "protect", !.seen = "none"]
    /\ commands' \in {commands, commands \cup {CloseFull(run.ticket)}}
    /\ UNCHANGED <<price, position, latest, contrary>>

\* Publishing may fail here too; with or without a row, or with the exception
\* of rule 2, the run is over.
Protect ==
    /\ run.at = "protect"
    /\ \/ run.move = "modify" /\ commands' = commands \cup {ModifySl(run.ticket)}
       \/ UNCHANGED commands
    /\ run' = IdleRun
    /\ UNCHANGED <<price, position, latest, contrary>>

Supervise ==
    \/ ReadSignal \/ ReadSignalFails \/ NoReversal \/ PublishClose
    \/ PublishCloseFails \/ Protect

SupNext ==
    \/ PriceMove
    \/ DropCommand
    \/ \E side \in SignalSides : InsertSignal(side)
    \/ ExecuteClose
    \/ ExecuteModify
    \/ \E t \in Tickets : Open(t) \/ MoveStopByHand(t) \/ RunStart(t)
    \/ Supervise

SupSpec == SupInit /\ [][SupNext]_supVars

RunOf(t) == run # IdleRun /\ run.ticket = t

EverythingCloses == ExecuteClose /\ OpenOnes # {} /\ \A t \in OpenOnes : ~ IsOpen(t)'

\* Every position is supervised again and again, runs end, the database does not
\* fail for one position for ever, nor do the orders of an EA told to close.
SupFairness ==
    /\ WF_supVars(Supervise)
    /\ \A t \in Tickets :
          /\ SF_supVars(RunStart(t))
          /\ SF_supVars(RunOf(t) /\ ReadSignal)
          /\ SF_supVars(RunOf(t) /\ PublishClose)
    /\ SF_supVars(EverythingCloses)

-----------------------------------------------------------------------------
(* Properties.                                                             *)

\* While a position is open, a CLOSE_FULL row for it means that the newest signal
\* contradicted it at some moment of its life: no run publishes one for a signal
\* that was read for another position, or before this one was opened.
ClosesAreContradicted ==
    \A t \in Tickets : IsOpen(t) /\ CloseFull(t) \in commands => t \in contrary

\* When rule 2 asks for a move, the new stop is behind the price the payload
\* shows, unless the risk is so small that the trigger lies within the fee
\* buffer: 0.8 of the risk against the buffer, to the boundary.
MovesStayBehindPrice ==
    \A t \in OpenOnes : \A sl \in PayloadStops(t) :
        RuleTwo(t, sl) = "modify" =>
            \/ Behind(Side(t), Protective(t), price)
            \/ 4 * Abs(Entry(t) - sl) <= 5 * Fee

\* A position that goes on being contradicted ends: the close of a later run is
\* the retry of one that failed, expired or was refused.
ContradictedEnd ==
    \A t \in Tickets :
        (IsOpen(t) /\ latest = Opposite(Side(t))) ~> (~ IsOpen(t) \/ latest # Opposite(Side(t)))
=============================================================================
