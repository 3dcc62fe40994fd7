------------------------------ MODULE Retention ------------------------------
(***************************************************************************)
(* The weekly cleanup (infra/scripts/weekly_cleanup.py) against the        *)
(* handlers that close commands and file reports while it runs.            *)
(*                                                                         *)
(* The job computes one cutoff and commits three deletes: commands closed  *)
(* before the cutoff, reports older than the cutoff of commands that are   *)
(* in the table and closed, and sessions that ran out.  What matters here  *)
(* are the times in the two tables: executed_at of a command, which not    *)
(* every way of closing it sets, and created_at of a report.               *)
(***************************************************************************)
EXTENDS Integers, FiniteSets

CONSTANTS
    Commands,   \* ids of the rows that may ever be inserted
    Workers,    \* request threads that take up reports
    Life,       \* time from the INSERT of a command to its expiry
    Retain,     \* age at which the job deletes ("7 days")
    Never,      \* executed_at is NULL
    MaxClock    \* bound: last value of the clock

\* One status per way a report may change a row; the code has four more that
\* behave like EXECUTED.
ReportStatuses == {"EXECUTED", "EXPIRED", "DUPLICATE"}

TerminalStatuses == ReportStatuses \cup {"CANCELLED"}

\* "ABSENT" before the INSERT, "DELETED" after the DELETE of the job.
Statuses == {"ABSENT", "AVAILABLE", "DELETED"} \cup TerminalStatuses

ASSUME RetentionConstantsOK ==
    /\ Life \in Nat
    /\ Retain \in Nat
    /\ MaxClock \in Nat
    /\ Never \notin Nat

VARIABLES
    clock,
    status,      \* status column of each row
    due,         \* expires_at_epoch
    executedAt,  \* executed_at, or Never
    filed,       \* trading_execution_reports: command and created_at
    worker,      \* the report each worker has checked and not yet recorded
    job          \* where the cleanup is, and its cutoff

retVars == <<clock, status, due, executedAt, filed, worker, job>>

Idle == [step |-> "idle"]

WorkerStates == {Idle} \cup [step : {"record"}, command : Commands, status : ReportStatuses]
JobStates == {Idle} \cup [step : {"reports", "sessions"}, cutoff : Int]

RetTypeOK ==
    /\ clock \in Nat
    /\ status \in [Commands -> Statuses]
    /\ due \in [Commands -> Nat]
    /\ executedAt \in [Commands -> Nat \cup {Never}]
    /\ filed \subseteq [command : Commands, at : Nat]
    /\ worker \in [Workers -> WorkerStates]
    /\ job \in JobStates

RetInit ==
    /\ clock = 0
    /\ status = [c \in Commands |-> "ABSENT"]
    /\ due = [c \in Commands |-> 0]
    /\ executedAt = [c \in Commands |-> Never]
    /\ filed = {}
    /\ worker = [w \in Workers |-> Idle]
    /\ job = Idle

-----------------------------------------------------------------------------
(* The life of a row, as far as the times go (details in CommandQueue).     *)

\* Bound: what is written now can still grow older than Retain.
InTime(life) == clock + life + Retain < MaxClock

\* Slip (not the code): the lifetime is subtracted.
SlipPastDue(c) ==
    /\ InTime(Life)
    /\ status[c] = "ABSENT"
    /\ status' = [status EXCEPT ![c] = "AVAILABLE"]
    /\ due' = [due EXCEPT ![c] = clock - Life]
    /\ UNCHANGED <<clock, executedAt, filed, worker, job>>

Create(c) ==
    /\ InTime(Life)
    /\ status[c] = "ABSENT"
    /\ status' = [status EXCEPT ![c] = "AVAILABLE"]
    /\ due' = [due EXCEPT ![c] = clock + Life]
    /\ UNCHANGED <<clock, executedAt, filed, worker, job>>

\* A newer OPEN replaces this one.
Replace(c) ==
    /\ status[c] = "AVAILABLE"
    /\ due[c] > clock
    /\ status' = [status EXCEPT ![c] = "CANCELLED"]
    /\ executedAt' = [executedAt EXCEPT ![c] = clock]
    /\ UNCHANGED <<clock, due, filed, worker, job>>

\* The UPDATE of a poll.  It does not set executed_at.
PollExpire ==
    /\ status' = [c \in Commands |->
                    IF status[c] = "AVAILABLE" /\ due[c] < clock
                    THEN "EXPIRED" ELSE status[c]]
    /\ UNCHANGED <<clock, due, executedAt, filed, worker, job>>

\* A report comes in, on time or late, and passes the idempotency check.
ReportCheck(w, c, s) ==
    /\ worker[w] = Idle
    /\ status[c] \notin {"ABSENT", "DELETED", s}
    /\ worker' = [worker EXCEPT ![w] = [step |-> "record", command |-> c, status |-> s]]
    /\ UNCHANGED <<clock, status, due, executedAt, filed, job>>

\* Slips (not the code): a report that keeps the first executed_at, and one
\* that inserts the row again when the UPDATE finds none.
SlipFirstTime(w) ==
    LET m == worker[w]
    IN  /\ m.step = "record"
        /\ InTime(0)
        /\ status[m.command] # "DELETED"
        /\ filed' = filed \cup {[command |-> m.command, at |-> clock]}
        /\ status' = [status EXCEPT ![m.command] = m.status]
        /\ executedAt' = [executedAt EXCEPT ![m.command] = IF @ = Never THEN clock ELSE @]
        /\ worker' = [worker EXCEPT ![w] = Idle]
        /\ UNCHANGED <<clock, due, job>>

SlipMerge(w) ==
    LET m == worker[w]
    IN  /\ m.step = "record"
        /\ InTime(0)
        /\ filed' = filed \cup {[command |-> m.command, at |-> clock]}
        /\ status' = [status EXCEPT ![m.command] = m.status]
        /\ executedAt' = [executedAt EXCEPT ![m.command] = clock]
        /\ worker' = [worker EXCEPT ![w] = Idle]
        /\ UNCHANGED <<clock, due, job>>

\* Report row, status and executed_at in one commit.  If the job has deleted
\* the row since the check, the UPDATE matches nothing, the ORM raises and
\* the transaction, report row included, is rolled back: see WorkerAbort.
ReportRecord(w) ==
    LET m == worker[w]
    IN  /\ m.step = "record"
        /\ InTime(0)
        /\ status[m.command] # "DELETED"
        /\ filed' = filed \cup {[command |-> m.command, at |-> clock]}
        /\ status' = [status EXCEPT ![m.command] = m.status]
        /\ executedAt' = [executedAt EXCEPT ![m.command] = clock]
        /\ worker' = [worker EXCEPT ![w] = Idle]
        /\ UNCHANGED <<clock, due, job>>

\* The request dies or is rolled back between the check and the commit.
WorkerAbort(w) ==
    /\ worker[w] # Idle
    /\ worker' = [worker EXCEPT ![w] = Idle]
    /\ UNCHANGED <<clock, status, due, executedAt, filed, job>>

-----------------------------------------------------------------------------
(* The job.                                                                *)

\* Slip (not the code): a list of statuses with one missing.
SlipOld(c, cutoff) ==
    /\ status[c] \in TerminalStatuses \ {"CANCELLED"}
    /\ executedAt[c] # Never
    /\ executedAt[c] < cutoff

Old(c, cutoff) ==
    /\ status[c] \in TerminalStatuses
    /\ executedAt[c] # Never
    /\ executedAt[c] < cutoff

\* The cutoff is computed, the first DELETE runs and commits.
CleanCommands ==
    LET cutoff == clock - Retain
    IN  /\ job = Idle
        /\ status' = [c \in Commands |-> IF Old(c, cutoff) THEN "DELETED" ELSE status[c]]
        /\ job' = [step |-> "reports", cutoff |-> cutoff]
        /\ UNCHANGED <<clock, due, executedAt, filed, worker>>

\* The subquery sees the commands as they are after the first commit.
OldReports(cutoff) ==
    {r \in filed : /\ r.at < cutoff
                   /\ status[r.command] \in TerminalStatuses}

\* Slip (not the code): the second DELETE has a cutoff of its own.
SlipOwnCutoff ==
    /\ job.step = "reports"
    /\ filed' = filed \ OldReports(clock - Retain)
    /\ job' = [job EXCEPT !.step = "sessions"]
    /\ UNCHANGED <<clock, status, due, executedAt, worker>>

CleanReports ==
    /\ job.step = "reports"
    /\ filed' = filed \ OldReports(job.cutoff)
    /\ job' = [job EXCEPT !.step = "sessions"]
    /\ UNCHANGED <<clock, status, due, executedAt, worker>>

\* The third DELETE is about another table (module Sessions).
CleanSessions ==
    /\ job.step = "sessions"
    /\ job' = Idle
    /\ UNCHANGED <<clock, status, due, executedAt, filed, worker>>

\* An error or a kill between two commits: the rest of the run is lost.
JobAbort ==
    /\ job # Idle
    /\ job' = Idle
    /\ UNCHANGED <<clock, status, due, executedAt, filed, worker>>

Tick ==
    /\ clock < MaxClock
    /\ clock' = clock + 1
    /\ UNCHANGED <<status, due, executedAt, filed, worker, job>>

-----------------------------------------------------------------------------
WorkerStep(w) ==
    \/ \E c \in Commands, s \in ReportStatuses : ReportCheck(w, c, s)
    \/ ReportRecord(w)
    \/ WorkerAbort(w)

RetNext ==
    \/ \E c \in Commands : Create(c) \/ Replace(c)
    \/ PollExpire
    \/ \E w \in Workers : WorkerStep(w)
    \/ CleanCommands
    \/ CleanReports
    \/ CleanSessions
    \/ JobAbort
    \/ Tick

RetSpec == RetInit /\ [][RetNext]_retVars

\* The clock runs, some EA polls for ever, and cron starts the job for ever.  A
\* run may die between its deletes, but not every run dies in the same place.
RetFairness ==
    /\ WF_retVars(Tick)
    /\ WF_retVars(PollExpire)
    /\ SF_retVars(CleanCommands)
    /\ SF_retVars(CleanReports)
    /\ WF_retVars(CleanSessions \/ JobAbort)

RetLiveSpec == RetSpec /\ RetFairness

-----------------------------------------------------------------------------
\* A report outlives its command only if it is past the retention period
\* itself: the command is not deleted under a recent report, and no report
\* that raced with the deletion is filed after it.
OrphansAreOld ==
    \A r \in filed : status[r.command] = "DELETED" => r.at < clock - Retain

\* A command that an EA closed keeps, as long as it is in the table, the
\* report that closed it, also between the job's deletes and after a run that
\* died: the job takes only reports that a later one has superseded.
ClosingReportKept ==
    \A c \in Commands :
        (status[c] \in ReportStatuses /\ executedAt[c] # Never) =>
            \E r \in filed : r.command = c /\ r.at = executedAt[c]

\* A deleted command is gone for good, and a closed one does not become active
\* again, whatever the report handlers had read before.
DeletedIsFinal ==
    [][\A c \in Commands :
          /\ status[c] = "DELETED" => status'[c] = "DELETED"
          /\ status[c] \in TerminalStatuses
             => status'[c] \in TerminalStatuses \cup {"DELETED"}]_retVars

\* What a report or a replacement closed is deleted in the end, even if runs of
\* the job keep dying.
DatedEventuallyDeleted ==
    \A c \in Commands :
        (status[c] \in TerminalStatuses /\ executedAt[c] # Never) ~> status[c] = "DELETED"

\* "Terminal state commands older than 7 days" are cleaned up.  Not so: a
\* command that a poll expired has no executed_at and stays.
ClosedEventuallyDeleted ==
    \A c \in Commands : status[c] \in TerminalStatuses ~> status[c] = "DELETED"
=============================================================================
