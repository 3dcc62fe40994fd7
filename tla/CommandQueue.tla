---------------------------- MODULE CommandQueue ----------------------------
(***************************************************************************)
(* The table trading_commands and everything that writes it: the publisher *)
(* (services/command_publisher), the poll and report handlers of the API   *)
(* (services/api_server/routers_client.py), and, as environment, an EA     *)
(* that follows the v1.1 contract.                                         *)
(*                                                                         *)
(* One action is one database transaction.  A handler that commits several *)
(* times is a process: engines run create_open_command (cancel, insert),   *)
(* workers run poll_commands (expire, fetch) and report_execution (check,  *)
(* record, audit).  Between two of its commits any other process may run.  *)
(***************************************************************************)
EXTENDS Integers, Sequences, FiniteSets

CONSTANTS
    Commands,    \* ids of the rows that may ever be inserted (fresh uuids)
    Accounts,    \* (account_login, account_server) pairs
    Engines,     \* processes that run create_open_command
    Workers,     \* request threads of the API server
    NoEngine,    \* opener of a row no engine wrote
    KindOf,      \* command_type of each row
    AccountOf,   \* account of each row
    Ttl,         \* expires_minutes of each kind, in clock ticks
    PollLimit,   \* LIMIT of the poll query
    RunningEAs,  \* the accounts whose EA is up; the others never poll
    FragileEngines,  \* the engines that may die between their two commits
    Refusals,    \* statuses the EA may report for a command it did not fill
    MaxClock,    \* bound: last value of the clock
    MaxReports   \* bound: reports of a command that start a new check

Kinds == {"OPEN", "MODIFY_SL", "CLOSE_FULL", "CLOSE_PARTIAL"}

ActiveStatuses == {"AVAILABLE", "DISPATCHED"}

ReportStatuses == {"EXECUTED", "FAILED", "EXPIRED", "REJECTED", "DUPLICATE",
                   "SHADOW_SKIPPED", "TRADING_DISABLED"}

TerminalStatuses == ReportStatuses \cup {"CANCELLED"}

\* The statuses expire_old_commands still looks for, of the v1 protocol.
ParkedStatuses == {"PENDING", "SENT"}

Statuses == {"ABSENT"} \cup ActiveStatuses \cup ParkedStatuses \cup TerminalStatuses

ASSUME ConstantsOK ==
    /\ NoEngine \notin Engines
    /\ KindOf \in [Commands -> Kinds]
    /\ AccountOf \in [Commands -> Accounts]
    /\ Ttl \in [Kinds -> Nat]
    /\ PollLimit \in Nat
    /\ RunningEAs \subseteq Accounts
    /\ FragileEngines \subseteq Engines
    /\ Refusals \subseteq ReportStatuses \ {"EXECUTED", "EXPIRED", "DUPLICATE"}
    /\ MaxClock \in Nat
    /\ MaxReports \in Nat

VARIABLES
    clock,    \* the server's epoch clock
    status,   \* status column; "ABSENT" before the INSERT
    expires,  \* expires_at_epoch column
    opener,   \* history: the engine whose INSERT wrote an OPEN row
    engine,   \* what each engine is in the middle of
    worker,   \* what each API worker is in the middle of
    inbox,    \* commands in poll responses the EAs have not handled yet
    outbox,   \* reports the EAs ever sent; any may be lost, late or repeated
    reports,  \* trading_execution_reports: per command, in commit order
    audits    \* command_execution_reported audit events per command

vars == <<clock, status, expires, opener, engine, worker, inbox, outbox,
          reports, audits>>
tableVars == <<status, expires, opener>>
eaVars == <<inbox, outbox>>
reportVars == <<reports, audits>>

Idle == [op |-> "idle"]
Messages == [command : Commands, status : ReportStatuses]

EngineStates == {Idle} \cup [op : {"insert"}, account : Accounts, now : Nat]

WorkerStates == {Idle}
                \cup [op : {"fetch"}, account : Accounts, now : Nat]
                \cup [op : {"record", "audit"}, msg : Messages]

TypeOK ==
    /\ clock \in Nat
    /\ status \in [Commands -> Statuses]
    /\ expires \in [Commands -> Nat]
    /\ opener \in [Commands -> Engines \cup {NoEngine}]
    /\ engine \in [Engines -> EngineStates]
    /\ worker \in [Workers -> WorkerStates]
    /\ inbox \subseteq Commands
    /\ outbox \subseteq Messages
    /\ reports \in [Commands -> Seq(ReportStatuses)]
    /\ audits \in [Commands -> Nat]

Init ==
    /\ clock = 0
    /\ status = [c \in Commands |-> "ABSENT"]
    /\ expires = [c \in Commands |-> 0]
    /\ opener = [c \in Commands |-> NoEngine]
    /\ engine = [e \in Engines |-> Idle]
    /\ worker = [w \in Workers |-> Idle]
    /\ inbox = {}
    /\ outbox = {}
    /\ reports = [c \in Commands |-> <<>>]
    /\ audits = [c \in Commands |-> 0]

-----------------------------------------------------------------------------
(* The publisher.                                                          *)

\* Bound: a row is written only if the clock can still pass its expiry.
InTime(kind) == clock + Ttl[kind] < MaxClock

\* Slips of the publisher the runs must notice (not the code): an INSERT that
\* overwrites, one that subtracts the lifetime, a cancel that forgets to look
\* at the status, and one that looks only for rows already dispatched.
SlipUpsert(c, s, now) ==
    /\ status' = [status EXCEPT ![c] = s]
    /\ expires' = [expires EXCEPT ![c] = now + Ttl[KindOf[c]]]

SlipPastExpiry(c, s, now) ==
    /\ status[c] = "ABSENT"
    /\ status' = [status EXCEPT ![c] = s]
    /\ expires' = [expires EXCEPT ![c] = now - Ttl[KindOf[c]]]

SlipCancelAny(a) ==
    {c \in Commands : /\ KindOf[c] = "OPEN"
                      /\ AccountOf[c] = a
                      /\ status[c] # "ABSENT"
                      /\ expires[c] > clock}

SlipCancelDispatched(a) ==
    {c \in Commands : /\ KindOf[c] = "OPEN"
                      /\ AccountOf[c] = a
                      /\ status[c] = "DISPATCHED"
                      /\ expires[c] > clock}

Insert(c, s, now) ==
    /\ status[c] = "ABSENT"
    /\ status' = [status EXCEPT ![c] = s]
    /\ expires' = [expires EXCEPT ![c] = now + Ttl[KindOf[c]]]

\* The rows the UPDATE of _cancel_pending_open matches.
Replaceable(a) ==
    {c \in Commands : /\ KindOf[c] = "OPEN"
                      /\ AccountOf[c] = a
                      /\ status[c] \in ActiveStatuses
                      /\ expires[c] > clock}

\* Slip (not the code): an engine that is done once it has replaced something.
SlipCancelOnly(e, a) ==
    /\ engine[e] = Idle
    /\ InTime("OPEN")
    /\ status' = [c \in Commands |->
                    IF c \in Replaceable(a) THEN "CANCELLED" ELSE status[c]]
    /\ engine' = [engine EXCEPT ![e] =
                    IF Replaceable(a) # {} THEN Idle
                    ELSE [op |-> "insert", account |-> a, now |-> clock]]
    /\ UNCHANGED <<clock, expires, opener, worker, eaVars, reportVars>>

\* create_open_command up to the commit of _cancel_pending_open: the time
\* read first is the one the INSERT will use.
OpenCancel(e, a) ==
    /\ engine[e] = Idle
    /\ InTime("OPEN")
    /\ status' = [c \in Commands |->
                    IF c \in Replaceable(a) THEN "CANCELLED" ELSE status[c]]
    /\ engine' = [engine EXCEPT ![e] =
                    [op |-> "insert", account |-> a, now |-> clock]]
    /\ UNCHANGED <<clock, expires, opener, worker, eaVars, reportVars>>

\* ... and the second commit, the INSERT.
OpenInsert(e, c) ==
    /\ engine[e].op = "insert"
    /\ KindOf[c] = "OPEN"
    /\ AccountOf[c] = engine[e].account
    /\ Insert(c, "AVAILABLE", engine[e].now)
    /\ opener' = [opener EXCEPT ![c] = e]
    /\ engine' = [engine EXCEPT ![e] = Idle]
    /\ UNCHANGED <<clock, worker, eaVars, reportVars>>

\* The process dies, or the INSERT raises, after the cancel was committed.
\* The signal engine swallows the exception and nothing is retried.
OpenAbort(e) ==
    /\ e \in FragileEngines
    /\ engine[e].op = "insert"
    /\ engine' = [engine EXCEPT ![e] = Idle]
    /\ UNCHANGED <<clock, tableVars, worker, eaVars, reportVars>>

CreateModifySl(c) ==
    /\ KindOf[c] = "MODIFY_SL"
    /\ InTime(KindOf[c])
    /\ Insert(c, "AVAILABLE", clock)
    /\ UNCHANGED <<clock, opener, engine, worker, eaVars, reportVars>>

CreateCloseFull(c) ==
    /\ KindOf[c] = "CLOSE_FULL"
    /\ InTime(KindOf[c])
    /\ Insert(c, "AVAILABLE", clock)
    /\ UNCHANGED <<clock, opener, engine, worker, eaVars, reportVars>>

\* Still writes the v1 status, which the poll does not select.
CreateClosePartial(c) ==
    /\ KindOf[c] = "CLOSE_PARTIAL"
    /\ InTime(KindOf[c])
    /\ Insert(c, "PENDING", clock)
    /\ UNCHANGED <<clock, opener, engine, worker, eaVars, reportVars>>

\* A maintenance operation of the publisher; nothing in the code calls it.
ExpireOldCommands ==
    /\ status' = [c \in Commands |->
                    IF status[c] \in ParkedStatuses /\ expires[c] < clock
                    THEN "EXPIRED" ELSE status[c]]
    /\ UNCHANGED <<clock, expires, opener, engine, worker, eaVars, reportVars>>

-----------------------------------------------------------------------------
(* GET /signals/poll.                                                      *)

\* Slip (not the code): a poll that expires the rows of its own account only.
SlipExpireOwn(w, a) ==
    /\ worker[w] = Idle
    /\ status' = [c \in Commands |->
                    IF /\ AccountOf[c] = a
                       /\ status[c] \in ActiveStatuses
                       /\ expires[c] < clock
                    THEN "EXPIRED" ELSE status[c]]
    /\ worker' = [worker EXCEPT ![w] =
                    [op |-> "fetch", account |-> a, now |-> clock]]
    /\ UNCHANGED <<clock, expires, opener, engine, eaVars, reportVars>>

\* First commit: expire, for every account, what is past its time.
PollExpire(w, a) ==
    /\ worker[w] = Idle
    /\ status' = [c \in Commands |->
                    IF status[c] \in ActiveStatuses /\ expires[c] < clock
                    THEN "EXPIRED" ELSE status[c]]
    /\ worker' = [worker EXCEPT ![w] =
                    [op |-> "fetch", account |-> a, now |-> clock]]
    /\ UNCHANGED <<clock, expires, opener, engine, eaVars, reportVars>>

Priority ==
    [k \in Kinds |-> CASE k = "CLOSE_FULL"    -> 10
                       [] k = "CLOSE_PARTIAL" -> 20
                       [] k = "MODIFY_SL"     -> 50
                       [] k = "OPEN"          -> 100]

\* Slip (not the code): ORDER BY created_at_epoch alone.
SlipBefore(c, d) == expires[c] - Ttl[KindOf[c]] < expires[d] - Ttl[KindOf[d]]

\* ORDER BY priority, created_at_epoch; ties come in any order.
Before(c, d) ==
    LET p(x) == Priority[KindOf[x]]
        created(x) == expires[x] - Ttl[KindOf[x]]
    IN  p(c) < p(d) \/ (p(c) = p(d) /\ created(c) < created(d))

Pollable(a, now) ==
    {c \in Commands : /\ AccountOf[c] = a
                      /\ status[c] \in ActiveStatuses
                      /\ expires[c] > now}

\* The results the query may return: the first PollLimit rows in that order.
Pages(a, now) ==
    LET rows == Pollable(a, now)
    IN  {page \in SUBSET rows :
            /\ Cardinality(page) = IF Cardinality(rows) < PollLimit
                                   THEN Cardinality(rows) ELSE PollLimit
            /\ \A c \in page, d \in rows \ page : ~Before(d, c)}

\* Second transaction, with the time read before the first.  A row keeps its
\* status when it is served and is served again by every later poll.
PollFetch(w) ==
    /\ worker[w].op = "fetch"
    /\ \E page \in Pages(worker[w].account, worker[w].now) :
          inbox' = inbox \cup page
    /\ worker' = [worker EXCEPT ![w] = Idle]
    /\ UNCHANGED <<clock, tableVars, engine, outbox, reportVars>>

-----------------------------------------------------------------------------
(* POST /execution/report.                                                 *)

\* Reads up to the idempotency check.  A report of the current status is
\* answered without a write.
ReportCheck(w, m) ==
    /\ worker[w] = Idle
    /\ status[m.command] \notin {"ABSENT", m.status}
    /\ Len(reports[m.command]) < MaxReports
    /\ worker' = [worker EXCEPT ![w] = [op |-> "record", msg |-> m]]
    /\ UNCHANGED <<clock, tableVars, engine, eaVars, reportVars>>

\* Slip (not the code): the status is written, the report row is not.
SlipNoReportRow(w) ==
    LET m == worker[w].msg
    IN  /\ worker[w].op = "record"
        /\ status' = [status EXCEPT ![m.command] = m.status]
        /\ worker' = [worker EXCEPT ![w] = [op |-> "audit", msg |-> m]]
        /\ UNCHANGED <<clock, expires, opener, engine, eaVars, reportVars>>

\* First commit: the report row and the status, whatever it is by now.
ReportRecord(w) ==
    LET m == worker[w].msg
    IN  /\ worker[w].op = "record"
        /\ reports' = [reports EXCEPT ![m.command] = Append(@, m.status)]
        /\ status' = [status EXCEPT ![m.command] = m.status]
        /\ worker' = [worker EXCEPT ![w] = [op |-> "audit", msg |-> m]]
        /\ UNCHANGED <<clock, expires, opener, engine, eaVars, audits>>

\* Second commit: the audit event.
ReportAudit(w) ==
    /\ worker[w].op = "audit"
    /\ audits' = [audits EXCEPT ![worker[w].msg.command] = @ + 1]
    /\ worker' = [worker EXCEPT ![w] = Idle]
    /\ UNCHANGED <<clock, tableVars, engine, eaVars, reports>>

\* The request dies between two commits: what is committed stays.
WorkerAbort(w) ==
    /\ worker[w] # Idle
    /\ worker' = [worker EXCEPT ![w] = Idle]
    /\ UNCHANGED <<clock, tableVars, engine, eaVars, reportVars>>

-----------------------------------------------------------------------------
(* The EA of the v1.1 contract (external) and time.                        *)

Filled == {c \in Commands : [command |-> c, status |-> "EXECUTED"] \in outbox}
Handled == {m.command : m \in outbox}

Send(c, s) ==
    /\ c \in inbox
    /\ inbox' = inbox \ {c}
    /\ outbox' = outbox \cup {[command |-> c, status |-> s]}
    /\ UNCHANGED <<clock, tableVars, engine, worker, reportVars>>

EAFill(c) == c \notin Handled /\ clock < expires[c] /\ Send(c, "EXECUTED")

EARefuse(c, s) == c \notin Handled /\ clock < expires[c] /\ Send(c, s)

EATooLate(c) == c \notin Handled /\ clock >= expires[c] /\ Send(c, "EXPIRED")

\* A command served again after it was handled.
EARepeat(c) == c \in Handled /\ Send(c, "DUPLICATE")

Tick ==
    /\ clock < MaxClock
    /\ clock' = clock + 1
    /\ UNCHANGED <<tableVars, engine, worker, eaVars, reportVars>>

-----------------------------------------------------------------------------
EngineStep(e) ==
    \/ \E a \in Accounts : OpenCancel(e, a)
    \/ \E c \in Commands : OpenInsert(e, c)
    \/ OpenAbort(e)

Publish(c) == CreateModifySl(c) \/ CreateCloseFull(c) \/ CreateClosePartial(c)

WorkerStep(w) ==
    \/ \E a \in RunningEAs : PollExpire(w, a)
    \/ PollFetch(w)
    \/ \E m \in outbox : ReportCheck(w, m)
    \/ ReportRecord(w)
    \/ ReportAudit(w)
    \/ WorkerAbort(w)

EAStep(c) ==
    \/ EAFill(c)
    \/ \E s \in Refusals : EARefuse(c, s)
    \/ EATooLate(c)
    \/ EARepeat(c)

Next ==
    \/ \E e \in Engines : EngineStep(e)
    \/ \E c \in Commands : Publish(c)
    \/ ExpireOldCommands
    \/ \E w \in Workers : WorkerStep(w)
    \/ \E c \in Commands : EAStep(c)
    \/ Tick

Spec == Init /\ [][Next]_vars

\* The clock runs, a request that was taken up is finished unless it dies, and
\* the EA of each account of RunningEAs polls on its timer: the server's
\* thread pool takes requests in order, so such a poll is not passed over for
\* ever.  The EAs' other steps, the publishers and the maintenance operation
\* happen or not.
Fairness ==
    /\ WF_vars(Tick)
    /\ \A w \in Workers : WF_vars(PollFetch(w) \/ ReportRecord(w) \/ ReportAudit(w))
    /\ \A a \in RunningEAs : SF_vars(\E w \in Workers : PollExpire(w, a))

LiveSpec == Spec /\ Fairness

-----------------------------------------------------------------------------
(* Safety.                                                                 *)

LastReport(c) == reports[c][Len(reports[c])]

\* The row agrees with its history: once reports exist for a command, its
\* status is that of the last report committed.  No cancel, no expiry and no
\* other publisher operation, however interleaved with the reports' check and
\* commit, overwrites what an EA reported.
LastReportWins ==
    \A c \in Commands : reports[c] # <<>> => status[c] = LastReport(c)

LiveOpens(a) ==
    {c \in Commands : /\ KindOf[c] = "OPEN"
                      /\ AccountOf[c] = a
                      /\ status[c] \in ActiveStatuses
                      /\ expires[c] > clock}

\* An engine never has two OPENs of one account in the queue, nor one there
\* while it is between cancelling the old and inserting the new: whatever the
\* number of engines, it bounds the number of live OPENs.
OneOpenPerEngine ==
    \A a \in Accounts :
        /\ \A c, d \in LiveOpens(a) : opener[c] = opener[d] => c = d
        /\ \A e \in Engines, c \in LiveOpens(a) :
              (engine[e].op = "insert" /\ engine[e].account = a) => opener[c] # e

\* The replacement rule of the docstrings of _cancel_pending_open and
\* poll_commands: a new OPEN of an account cancels the old one, so at most one
\* can be served.  The code keeps it when engines take turns, not otherwise.
OneLiveOpen ==
    \A a \in Accounts : \A c, d \in LiveOpens(a) : c = d

\* "old OPEN -> cancelled, new OPEN enqueued": a cancelled OPEN has a successor
\* in the table or an engine about to insert it (unless engines are fragile).
CancelledHasSuccessor ==
    \A c \in Commands :
        status[c] = "CANCELLED" =>
            \/ \E e \in Engines : /\ engine[e].op = "insert"
                                  /\ engine[e].account = AccountOf[c]
            \/ \E d \in Commands \ {c} : /\ KindOf[d] = "OPEN"
                                         /\ AccountOf[d] = AccountOf[c]
                                         /\ status[d] # "ABSENT"
                                         /\ expires[d] >= expires[c]

\* "Idempotent: same command_id + same status returns 200": a report is never
\* recorded right after one with the same status.  Two threads that take up the
\* same report both find the old status and both record it.
RepeatsIgnored ==
    \A c \in Commands :
        \A i \in 1..(Len(reports[c]) - 1) : reports[c][i] # reports[c][i + 1]

\* Every audit event of a report stands for a report row of its own: the audit
\* is behind the reports, by what is being written and what died in between,
\* and never ahead of them.
AuditBehindReports ==
    \A c \in Commands :
        audits[c] + Cardinality({w \in Workers : /\ worker[w].op = "audit"
                                                 /\ worker[w].msg.command = c})
            <= Len(reports[c])

-----------------------------------------------------------------------------
(* Steps.                                                                  *)

\* A terminal command never becomes active (or parked) again, although a
\* report may replace one terminal status by another.
TerminalIsFinal ==
    [][\A c \in Commands :
          status[c] \in TerminalStatuses => status'[c] \in TerminalStatuses]_vars

\* "Terminal state commands NOT returned": a poll never delivers a command
\* that is closed, even one that was closed between the poll's two
\* transactions; only a response already on its way still carries it.
ClosedNotServed ==
    [][\A c \in Commands :
          status[c] \in TerminalStatuses /\ c \in inbox' => c \in inbox]_vars

\* A small LIMIT never holds back what is urgent: when a poll delivers a command
\* new to the EA, every live command of that account with a better priority is
\* with the EA too.
UrgentServedFirst ==
    [][\A c \in inbox' \ inbox, d \in Commands :
          (/\ AccountOf[d] = AccountOf[c]
           /\ status[d] \in ActiveStatuses
           /\ expires[d] > clock
           /\ Priority[KindOf[d]] < Priority[KindOf[c]])
          => d \in inbox']_vars

-----------------------------------------------------------------------------
(* Liveness and the abstract specification.                                *)

\* Every command a poll may serve is closed in the end, by a report, by its
\* replacement or by its expiry; it is enough that some EA polls, not
\* necessarily the one the command is for.
ActiveEventuallyClosed ==
    \A c \in Commands :
        status[c] \in ActiveStatuses ~> status[c] \in TerminalStatuses

\* "Commands auto-expire after expires_at" for the commands still written in
\* status PENDING.  The code does not do this: no caller of the operation that
\* would expire them exists.
ParkedEventuallyClosed ==
    \A c \in Commands :
        status[c] \in ParkedStatuses ~> status[c] \in TerminalStatuses

\* The table implements the abstract life of a command.
PhaseOf(s) ==
    CASE s = "ABSENT" -> "absent"
      [] s \in ActiveStatuses -> "queued"
      [] s \in ParkedStatuses -> "parked"
      [] OTHER -> "closed"

Lifecycle == INSTANCE CommandLifecycle
                WITH phase <- [c \in Commands |-> PhaseOf(status[c])]

\* Refinement, with the abstract specification's fairness.
ImplementsLifecycle == Lifecycle!FairSpec
=============================================================================
