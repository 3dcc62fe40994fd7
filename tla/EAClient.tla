------------------------------ MODULE EAClient ------------------------------
(***************************************************************************)
(* The released Expert Advisor (clients/mt5_ea/release): one thread that   *)
(* runs OnInit once and then OnTimer again and again, a ledger file that   *)
(* outlives it, and the broker.  Every web request, order and file write   *)
(* is a step of its own: the terminal may die before or after it, a file   *)
(* may fail to open, and the server it talks to (external) serves and      *)
(* withdraws signals meanwhile, repeats them as long as it likes, and      *)
(* forgets sessions.                                                       *)
(***************************************************************************)
EXTENDS Integers, Sequences, FiniteSets

CONSTANTS
    Signals,      \* signal ids
    Closing,      \* the signals whose action is "close"; the others open
    Actionless,   \* those that carry no "action", as the commands of protocol v1.1
    HeaderWidths, \* fields FileReadString finds in the header OnInit writes
    NoSignal,
    MaxMishaps,   \* bound: crashes and files that fail to open together
    MaxRows,      \* bound: rows of one signal in the ledger
    MaxLosses     \* bound: sessions the server forgets

ASSUME EAConstantsOK ==
    /\ Closing \subseteq Signals
    /\ Actionless \subseteq Signals
    /\ HeaderWidths \subseteq 1..4
    /\ NoSignal \notin Signals
    /\ {MaxMishaps, MaxRows, MaxLosses} \subseteq Nat

VARIABLES
    pc,        \* where the thread is
    live,      \* inputs: Inp_AllowTrading and not Inp_ShadowMode
    token,     \* g_SessionToken is not ""
    known,     \* the server has a session for that token
    ledger,    \* GoldAI_processed_signals.csv
    served,    \* external: the signals the server answers with, in order
    current,   \* the signal being processed
    positions, \* open positions of the symbol
    fills,     \* history: per signal, the orders sent for it that were filled
    lapses,    \* history: per signal, the times the ledger failed it
    mishaps,   \* crashes and files that failed to open so far
    losses     \* sessions forgotten so far

eaVars == <<pc, live, token, known, ledger, served, current, positions, fills,
          lapses, mishaps, losses>>
sessionVars == <<token, known, losses>>
brokerVars == <<positions, fills>>
historyVars == <<lapses, mishaps>>

Down == "down"
Quiet == "idle"

\* The file: how its header reads, and the ids of the rows appended to it.
\* "columns" is the header AppendProcessedSignal writes, five fields of which
\* the first is "signal_id"; "line" is the one RestoreLocalState writes, one
\* string in another encoding, which reads as a number of other fields; a
\* file that the append itself created has none and is "bare".
Missing == [header |-> "none", width |-> 0, rows |-> <<>>]
RowWidth == 5

LedgerStates ==
    {Missing}
    \cup [header : {"bare"}, width : {0}, rows : Seq(Signals)]
    \cup [header : {"columns"}, width : {RowWidth}, rows : Seq(Signals)]
    \cup [header : {"line"}, width : HeaderWidths, rows : Seq(Signals)]

EATypeOK ==
    /\ pc \in {Down, "init", Quiet, "auth", "heartbeat", "poll", "execute", "mark", "report"}
    /\ live \in BOOLEAN
    /\ token \in BOOLEAN
    /\ known \in BOOLEAN
    /\ ledger \in LedgerStates
    /\ served \in Seq(Signals)
    /\ current \in Signals \cup {NoSignal}
    /\ positions \in Nat
    /\ fills \in [Signals -> Nat]
    /\ lapses \in [Signals -> Nat]
    /\ mishaps \in Nat
    /\ losses \in Nat

EAInit ==
    /\ pc = Down
    /\ live = FALSE
    /\ token = FALSE
    /\ known = FALSE
    /\ ledger = Missing
    /\ served = <<>>
    /\ current = NoSignal
    /\ positions = 0
    /\ fills = [s \in Signals |-> 0]
    /\ lapses = [s \in Signals |-> 0]
    /\ mishaps = 0
    /\ losses = 0

-----------------------------------------------------------------------------
(* The ledger as IsDuplicateSignal reads it.                               *)

Lines(l) == l.width + RowWidth * Len(l.rows)

\* The field at a position of the file, counted from 1.  Only ids matter.
Field(l, i) ==
    LET j == i - l.width - 1
    IN  IF j >= 0 /\ j % RowWidth = 0 THEN l.rows[1 + j \div RowWidth] ELSE NoSignal

\* Slip (not the code): the header is skipped one field short.
SlipIdPositions(l) ==
    LET first == IF l.header = "columns" THEN RowWidth ELSE 1
    IN  {i \in first..Lines(l) : (i - first) % RowWidth = 0}

\* The positions it takes for ids: the header is skipped if its first field is
\* "signal_id", otherwise reading starts at the beginning of the file; after
\* an id, the four fields of the rest of the row are skipped.
IdPositions(l) ==
    LET first == IF l.header = "columns" THEN RowWidth + 1 ELSE 1
    IN  {i \in first..Lines(l) : (i - first) % RowWidth = 0}

IsDuplicate(l, s) == \E i \in IdPositions(l) : Field(l, i) = s

RowsOf(s) == Cardinality({i \in 1..Len(ledger.rows) : ledger.rows[i] = s})

\* Slip (not the code): a file that is created is not seen to exist.
SlipAppended(l, s) == [l EXCEPT !.rows = Append(@, s)]

\* Opened for reading and writing, the file keeps its rows, and is created if
\* there is none; nothing writes a header then.
Appended(l, s) ==
    [header |-> IF l.header = "none" THEN "bare" ELSE l.header,
     width |-> l.width, rows |-> Append(l.rows, s)]

\* Opened for writing alone, it is emptied and begun anew.
Rewritten(s) == [header |-> "columns", width |-> RowWidth, rows |-> <<s>>]

Written(s) == \E i \in 1..Len(ledger.rows) : ledger.rows[i] = s

-----------------------------------------------------------------------------
(* OnInit.                                                                 *)

\* RestoreLocalState: an existing file is left alone, a missing one created
\* with one string for a header; if that fails nothing is done about it.
RestoreLocalState ==
    /\ pc = Down
    /\ pc' = "init"
    /\ live' \in BOOLEAN
    /\ IF ledger.header # "none"
       THEN ledger' = ledger
       ELSE ledger' \in {ledger} \cup
                        [header : {"line"}, width : HeaderWidths, rows : {<<>>}]
    /\ UNCHANGED <<sessionVars, served, current, brokerVars, historyVars>>

\* Authenticate, from OnInit or from OnTimer: a failure leaves the token empty.
Authenticate ==
    /\ pc \in {"init", "auth"}
    /\ token' = TRUE
    /\ known' = TRUE
    /\ pc' = IF pc = "init" THEN Quiet ELSE "heartbeat"
    /\ UNCHANGED <<live, losses, ledger, served, current, brokerVars, historyVars>>

AuthenticateFails ==
    /\ pc \in {"init", "auth"}
    /\ pc' = Quiet
    /\ UNCHANGED <<live, sessionVars, ledger, served, current, brokerVars, historyVars>>

-----------------------------------------------------------------------------
(* OnTimer.                                                                *)

\* Slip (not the code): authentication is left to OnInit.
SlipOnTimer ==
    /\ pc = Quiet
    /\ token
    /\ pc' = "heartbeat"
    /\ UNCHANGED <<live, sessionVars, ledger, served, current, brokerVars, historyVars>>

OnTimer ==
    /\ pc = Quiet
    /\ pc' = IF token THEN "heartbeat" ELSE "auth"
    /\ UNCHANGED <<live, sessionVars, ledger, served, current, brokerVars, historyVars>>

\* Whatever the answer, a refusal included, only the panel changes.
Heartbeat ==
    /\ pc = "heartbeat"
    /\ pc' = "poll"
    /\ UNCHANGED <<live, sessionVars, ledger, served, current, brokerVars, historyVars>>

\* Lost, or refused because the server does not know the token: OnTimer ends,
\* the token stays.
PollFails ==
    /\ pc = "poll"
    /\ pc' = Quiet
    /\ UNCHANGED <<live, sessionVars, ledger, served, current, brokerVars, historyVars>>

\* ProcessSignals goes on with the signal: trades, or writes that it was skipped.
Process(s) ==
    /\ current' = s
    /\ pc' = IF live THEN "execute" ELSE "mark"

Count(s) == lapses' = [lapses EXCEPT ![s] = @ + 1]

\* ProcessSignals looks at the first signal of the answer and at no other.
\* MaxRows holds back what is written already, never a first execution.
PollSignals ==
    /\ pc = "poll"
    /\ known
    /\ IF served = <<>> \/ IsDuplicate(ledger, Head(served))
            \/ Head(served) \in Actionless
       THEN pc' = Quiet /\ UNCHANGED <<current, lapses>>
       ELSE /\ RowsOf(Head(served)) < MaxRows
            /\ Process(Head(served))
            /\ IF ledger.header = "line" /\ Written(Head(served))
               THEN Count(Head(served)) ELSE UNCHANGED lapses
    /\ UNCHANGED <<live, sessionVars, ledger, served, brokerVars, mishaps>>

\* The ledger is there and cannot be opened: no signal is a duplicate.
PollUnread ==
    /\ pc = "poll"
    /\ known
    /\ ledger.header # "none"
    /\ served # <<>> /\ Head(served) \notin Actionless
    /\ mishaps < MaxMishaps
    /\ mishaps' = mishaps + 1
    /\ Process(Head(served))
    /\ IF Written(Head(served)) THEN Count(Head(served)) ELSE UNCHANGED lapses
    /\ UNCHANGED <<live, sessionVars, ledger, served, brokerVars>>

\* ExecuteTrade: OrderSend fills the order or returns false; a close sends one
\* order per position, from the last, and stops at the first failure.
ExecuteOpen ==
    /\ pc = "execute"
    /\ current \notin Closing
    /\ pc' = "mark"
    /\ \/ /\ fills' = [fills EXCEPT ![current] = @ + 1]
          /\ positions' = positions + 1
       \/ UNCHANGED <<fills, positions>>
    /\ UNCHANGED <<live, sessionVars, ledger, served, current, historyVars>>

ExecuteClose ==
    /\ pc = "execute"
    /\ current \in Closing
    /\ pc' = "mark"
    /\ positions' \in 0..positions
    /\ UNCHANGED <<live, sessionVars, ledger, served, current, fills, historyVars>>

\* Only an execution, not a skipped signal, is reported.
AfterMark ==
    IF live
    THEN pc' = "report" /\ UNCHANGED current
    ELSE pc' = Quiet /\ current' = NoSignal

\* MarkSignalProcessed, whether the order was filled or not.
MarkSignalProcessed ==
    /\ pc = "mark"
    /\ ledger' = Appended(ledger, current)
    /\ AfterMark
    /\ UNCHANGED <<live, sessionVars, served, brokerVars, historyVars>>

\* Only the second FileOpen succeeds: the rows there were are lost.
MarkRewrites ==
    /\ pc = "mark"
    /\ mishaps < MaxMishaps
    /\ mishaps' = mishaps + 1
    /\ ledger' = Rewritten(current)
    /\ lapses' = [s \in Signals |->
                    IF Written(s) /\ s # current THEN lapses[s] + 1 ELSE lapses[s]]
    /\ AfterMark
    /\ UNCHANGED <<live, sessionVars, served, brokerVars>>

\* Neither FileOpen succeeds; the result of the append is not looked at.
MarkFails ==
    /\ pc = "mark"
    /\ mishaps < MaxMishaps
    /\ mishaps' = mishaps + 1
    /\ Count(current)
    /\ AfterMark
    /\ UNCHANGED <<live, sessionVars, ledger, served, brokerVars>>

\* ReportExecution: the answer is not looked at.
ReportExecution ==
    /\ pc = "report"
    /\ pc' = Quiet
    /\ current' = NoSignal
    /\ UNCHANGED <<live, sessionVars, ledger, served, brokerVars, historyVars>>

-----------------------------------------------------------------------------
(* The terminal dies and is started again; the server.                     *)

Crash ==
    /\ pc # Down
    /\ mishaps < MaxMishaps
    /\ mishaps' = mishaps + 1
    /\ pc' = Down
    /\ token' = FALSE
    /\ known' = FALSE
    /\ IF pc = "mark" THEN Count(current) ELSE UNCHANGED lapses
    /\ current' = NoSignal
    /\ UNCHANGED <<live, losses, ledger, served, brokerVars>>

Serve(s) ==
    /\ \A i \in 1..Len(served) : served[i] # s
    /\ served' = Append(served, s)
    /\ UNCHANGED <<live, pc, sessionVars, ledger, current, brokerVars, historyVars>>

Withdraw(i) ==
    /\ served' = SubSeq(served, 1, i - 1) \o SubSeq(served, i + 1, Len(served))
    /\ UNCHANGED <<live, pc, sessionVars, ledger, current, brokerVars, historyVars>>

\* The cleanup deletes the session, or the database is restored.
ForgetSession ==
    /\ known
    /\ losses < MaxLosses
    /\ known' = FALSE
    /\ losses' = losses + 1
    /\ UNCHANGED <<live, pc, token, ledger, served, current, brokerVars, historyVars>>

-----------------------------------------------------------------------------
OnTimerStep ==
    \/ OnTimer
    \/ Heartbeat
    \/ PollFails
    \/ PollSignals
    \/ PollUnread
    \/ ExecuteOpen
    \/ ExecuteClose
    \/ MarkSignalProcessed
    \/ MarkRewrites
    \/ MarkFails
    \/ ReportExecution

Server ==
    \/ \E s \in Signals : Serve(s)
    \/ \E i \in 1..Len(served) : Withdraw(i)
    \/ ForgetSession

EANext ==
    \/ RestoreLocalState
    \/ Authenticate
    \/ AuthenticateFails
    \/ OnTimerStep
    \/ Crash
    \/ Server

EASpec == EAInit /\ [][EANext]_eaVars

\* The terminal is started again, its timer fires, a handler goes on to its next
\* request, and requests sent again and again are answered some time.
EAFairness ==
    /\ WF_eaVars(RestoreLocalState)
    /\ WF_eaVars(AuthenticateFails)
    /\ WF_eaVars(PollFails)
    /\ WF_eaVars(OnTimer \/ Heartbeat \/ ReportExecution)
    /\ WF_eaVars(ExecuteOpen \/ ExecuteClose \/ MarkSignalProcessed)
    /\ SF_eaVars(Authenticate)
    /\ SF_eaVars(PollSignals)

EALiveSpec == EASpec /\ EAFairness

-----------------------------------------------------------------------------
\* A signal is filled at most once, plus once for each time the ledger failed
\* it: an execution was cut off from its line, by a crash between the two or by
\* a file that did not open for writing; a rewritten file lost its lines; or it
\* was processed with a line in the file, which did not open for reading or has
\* the header that OnInit writes.  There is no other way to a second fill.
AtMostOncePerLapse == \A s \in Signals : fills[s] <= 1 + lapses[s]

\* The ledger "contains history of processed signals to prevent duplicates":
\* what is in it is a duplicate.  Not so with the one RestoreLocalState creates.
LedgerPreventsDuplicates ==
    \A s \in Signals : Written(s) => IsDuplicate(ledger, s)

\* The signal first in the answers is processed in the end, if it is not
\* withdrawn, whatever requests fail and however the terminal crashes, as long
\* as the server knows the session.  What happens when it does not is the
\* question of RefusedTokenIsReplaced.
HeadIsProcessed ==
    \A s \in Signals \ Actionless :
        (served # <<>> /\ Head(served) = s)
        ~> (\/ Written(s)
            \/ served = <<>> \/ Head(served) # s
            \/ lapses[s] > 0
            \/ token /\ ~known)

\* "Re-authenticate" is what the API's contract has a client do when its session
\* is refused, "automatic reconnection" and "session token refresh" what the
\* release promises: a token the server does not know is given up.  It is not:
\* only an empty one makes OnTimer authenticate, and no refusal empties it.
RefusedTokenIsReplaced == (token /\ ~known) ~> (known \/ ~token)
=============================================================================
