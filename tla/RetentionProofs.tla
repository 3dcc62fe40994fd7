--------------------------- MODULE RetentionProofs ---------------------------
(***************************************************************************)
(* What the cleanup keeps, for any number of commands and threads, any     *)
(* retention period and any interleaving of its deletes with reports.      *)
(***************************************************************************)
EXTENDS Retention, TLAPS

Terminal(c) == status[c] \in TerminalStatuses

(***************************************************************************)
(* The types are kept by every step; in particular an executed_at is a     *)
(* time whenever it is not NULL.                                           *)
(***************************************************************************)
THEOREM RetentionTypes == RetSpec => []RetTypeOK
<1> USE RetentionConstantsOK DEF RetTypeOK, Statuses, TerminalStatuses, ReportStatuses
<1>1. RetInit => RetTypeOK
  BY DEF RetInit, WorkerStates, JobStates
<1>2. RetTypeOK /\ [RetNext]_retVars => RetTypeOK'
  <2> SUFFICES ASSUME RetTypeOK, [RetNext]_retVars
               PROVE  RetTypeOK'
    OBVIOUS
  <2>1. ASSUME NEW c \in Commands, Create(c) PROVE RetTypeOK'
    BY <2>1 DEF Create
  <2>2. ASSUME NEW c \in Commands, Replace(c) PROVE RetTypeOK'
    BY <2>2 DEF Replace
  <2>3. CASE PollExpire
    BY <2>3 DEF PollExpire
  <2>4. ASSUME NEW w \in Workers, NEW c \in Commands, NEW s \in ReportStatuses,
               ReportCheck(w, c, s)
        PROVE  RetTypeOK'
    BY <2>4 DEF ReportCheck, WorkerStates
  <2>5. ASSUME NEW w \in Workers, ReportRecord(w) PROVE RetTypeOK'
    <3>1. worker[w].command \in Commands /\ worker[w].status \in ReportStatuses
      BY <2>5 DEF ReportRecord, WorkerStates, Idle
    <3>2. QED
      BY <2>5, <3>1 DEF ReportRecord, WorkerStates
  <2>6. ASSUME NEW w \in Workers, WorkerAbort(w) PROVE RetTypeOK'
    BY <2>6 DEF WorkerAbort, WorkerStates
  <2>7. CASE CleanCommands
    <3>1. job' \in JobStates
      BY <2>7 DEF CleanCommands, JobStates
    <3>2. QED
      BY <2>7, <3>1 DEF CleanCommands
  <2>8. CASE CleanReports
    <3>1. job' \in JobStates
      BY <2>8 DEF CleanReports, JobStates, Idle
    <3>2. QED
      BY <2>8, <3>1 DEF CleanReports
  <2>9. CASE CleanSessions \/ JobAbort
    BY <2>9 DEF CleanSessions, JobAbort, JobStates
  <2>10. CASE Tick
    BY <2>10 DEF Tick
  <2>11. CASE UNCHANGED retVars
    BY <2>11 DEF retVars
  <2>12. QED
    BY <2>1, <2>2, <2>3, <2>4, <2>5, <2>6, <2>7, <2>8, <2>9, <2>10, <2>11
       DEF RetNext, WorkerStep
<1>3. QED
  BY <1>1, <1>2, PTL DEF RetSpec

-----------------------------------------------------------------------------
(***************************************************************************)
(* A deleted command is gone for good and a closed one is not reopened.    *)
(***************************************************************************)
THEOREM DeletedStaysDeleted == RetSpec => DeletedIsFinal
<1>1. ASSUME RetTypeOK, [RetNext]_retVars, NEW c \in Commands
      PROVE  /\ status[c] = "DELETED" => status'[c] = "DELETED"
             /\ Terminal(c) => status'[c] \in TerminalStatuses \cup {"DELETED"}
  <2> USE <1>1 DEF RetTypeOK, Terminal, TerminalStatuses, ReportStatuses
  <2>1. ASSUME NEW d \in Commands, Create(d) \/ Replace(d)
        PROVE  /\ status[c] = "DELETED" => status'[c] = "DELETED"
               /\ Terminal(c) => status'[c] \in TerminalStatuses \cup {"DELETED"}
    BY <2>1 DEF Create, Replace
  <2>2. CASE PollExpire \/ CleanCommands
    BY <2>2 DEF PollExpire, CleanCommands, Old
  <2>3. ASSUME NEW w \in Workers, ReportRecord(w)
        PROVE  /\ status[c] = "DELETED" => status'[c] = "DELETED"
               /\ Terminal(c) => status'[c] \in TerminalStatuses \cup {"DELETED"}
    <3>1. worker[w].command \in Commands /\ worker[w].status \in ReportStatuses
      BY <2>3 DEF ReportRecord, WorkerStates, Idle
    <3>2. QED
      BY <2>3, <3>1 DEF ReportRecord
  <2>4. CASE UNCHANGED status
    BY <2>4
  <2>5. QED
    BY <2>1, <2>2, <2>3, <2>4
       DEF RetNext, WorkerStep, ReportCheck, WorkerAbort, CleanReports, CleanSessions,
           JobAbort, Tick, retVars
<1>2. RetTypeOK /\ [RetNext]_retVars
      => [\A c \in Commands :
            /\ status[c] = "DELETED" => status'[c] = "DELETED"
            /\ status[c] \in TerminalStatuses
               => status'[c] \in TerminalStatuses \cup {"DELETED"}]_retVars
  BY <1>1 DEF Terminal
<1>3. QED
  BY <1>2, RetentionTypes, PTL DEF RetSpec, DeletedIsFinal

-----------------------------------------------------------------------------
\* Open rows have no executed_at and no reports; a reported row that is still
\* there is closed and its executed_at is not before any of its reports.
DatesInv ==
    /\ \A c \in Commands : status[c] \in {"ABSENT", "AVAILABLE"} => executedAt[c] = Never
    /\ \A r \in filed :
          /\ r.at <= clock
          /\ \/ status[r.command] = "DELETED"
             \/ /\ Terminal(r.command)
                /\ executedAt[r.command] # Never
                /\ executedAt[r.command] >= r.at

\* Every step keeps the dates of the two tables in this order.
LEMMA DatesStep == RetTypeOK /\ DatesInv /\ [RetNext]_retVars => DatesInv'
<1> SUFFICES ASSUME RetTypeOK, DatesInv, [RetNext]_retVars
             PROVE  DatesInv'
  OBVIOUS
<1> USE RetentionConstantsOK DEF RetTypeOK, DatesInv, Terminal, TerminalStatuses, ReportStatuses
<1>1. ASSUME NEW c \in Commands, Create(c) PROVE DatesInv'
  BY <1>1 DEF Create
<1>2. ASSUME NEW c \in Commands, Replace(c) PROVE DatesInv'
  BY <1>2 DEF Replace
<1>3. CASE PollExpire
  BY <1>3 DEF PollExpire
<1>4. ASSUME NEW w \in Workers, ReportRecord(w) PROVE DatesInv'
  <2> DEFINE c == worker[w].command
             r == [command |-> c, at |-> clock]
  <2>1. c \in Commands /\ worker[w].status \in ReportStatuses
    BY <1>4 DEF ReportRecord, WorkerStates, Idle
  <2>2. /\ filed' = filed \cup {r}
        /\ status' = [status EXCEPT ![c] = worker[w].status]
        /\ executedAt' = [executedAt EXCEPT ![c] = clock]
        /\ clock' = clock
    BY <1>4 DEF ReportRecord
  <2>3. r.command = c /\ r.at = clock
    OBVIOUS
  <2> HIDE DEF c, r
  <2>4. QED
    BY <2>1, <2>2, <2>3
<1>5. CASE CleanCommands
  BY <1>5 DEF CleanCommands, Old
<1>6. CASE CleanReports
  BY <1>6 DEF CleanReports
<1>7. CASE Tick
  BY <1>7 DEF Tick
<1>8. CASE UNCHANGED <<clock, status, executedAt, filed>>
  BY <1>8
<1>9. QED
  BY <1>1, <1>2, <1>3, <1>4, <1>5, <1>6, <1>7, <1>8
     DEF RetNext, WorkerStep, ReportCheck, WorkerAbort, CleanSessions, JobAbort, retVars

(***************************************************************************)
(* A report outlives its command only when it is old itself: a deleted     *)
(* command's executed_at was before the cutoff, and no report is later.    *)
(***************************************************************************)
THEOREM OrphansStayOld == RetSpec => []OrphansAreOld
<1>1. RetInit => DatesInv /\ OrphansAreOld
  BY DEF RetInit, DatesInv, OrphansAreOld
<1>2. RetTypeOK /\ DatesInv /\ OrphansAreOld /\ [RetNext]_retVars => OrphansAreOld'
  <2> SUFFICES ASSUME RetTypeOK, DatesInv, OrphansAreOld, [RetNext]_retVars
               PROVE  OrphansAreOld'
    OBVIOUS
  <2> USE RetentionConstantsOK DEF RetTypeOK, DatesInv, OrphansAreOld, TerminalStatuses,
                                   ReportStatuses
  <2>1. ASSUME NEW c \in Commands, Create(c) \/ Replace(c) PROVE OrphansAreOld'
    BY <2>1 DEF Create, Replace
  <2>2. CASE PollExpire
    BY <2>2 DEF PollExpire
  <2>3. ASSUME NEW w \in Workers, ReportRecord(w) PROVE OrphansAreOld'
    <3>1. worker[w].command \in Commands /\ worker[w].status \in ReportStatuses
      BY <2>3 DEF ReportRecord, WorkerStates, Idle
    <3>2. QED
      BY <2>3, <3>1 DEF ReportRecord
  <2>4. CASE CleanCommands
    BY <2>4 DEF CleanCommands, Old
  <2>5. CASE CleanReports
    BY <2>5 DEF CleanReports
  <2>6. CASE Tick
    BY <2>6 DEF Tick
  <2>7. CASE UNCHANGED <<clock, status, filed>>
    BY <2>7
  <2>8. QED
    BY <2>1, <2>2, <2>3, <2>4, <2>5, <2>6, <2>7
       DEF RetNext, WorkerStep, ReportCheck, WorkerAbort, CleanSessions, JobAbort, retVars
<1>3. QED
  BY <1>1, <1>2, DatesStep, RetentionTypes, PTL DEF RetSpec

-----------------------------------------------------------------------------
\* Between the first and the second delete no closed row has an executed_at
\* before the cutoff: those it found are gone and new ones are later.
CutoffInv ==
    job.step = "reports" =>
        /\ job.cutoff <= clock
        /\ \A c \in Commands :
              (Terminal(c) /\ executedAt[c] # Never) => executedAt[c] >= job.cutoff

\* Every step keeps it.
LEMMA CutoffStep == RetTypeOK /\ DatesInv /\ CutoffInv /\ [RetNext]_retVars => CutoffInv'
<1> SUFFICES ASSUME RetTypeOK, DatesInv, CutoffInv, [RetNext]_retVars
             PROVE  CutoffInv'
  OBVIOUS
<1> USE RetentionConstantsOK DEF RetTypeOK, DatesInv, CutoffInv, Terminal, TerminalStatuses,
                                 ReportStatuses
<1>a. job.step = "reports" => job.cutoff \in Int
  BY DEF JobStates, Idle
<1>1. ASSUME NEW c \in Commands, Create(c) PROVE CutoffInv'
  BY <1>1, <1>a DEF Create
<1>2. ASSUME NEW c \in Commands, Replace(c) PROVE CutoffInv'
  BY <1>2, <1>a DEF Replace
<1>3. CASE PollExpire
  BY <1>3, <1>a DEF PollExpire
<1>4. ASSUME NEW w \in Workers, ReportRecord(w) PROVE CutoffInv'
  <2>1. worker[w].command \in Commands /\ worker[w].status \in ReportStatuses
    BY <1>4 DEF ReportRecord, WorkerStates, Idle
  <2>2. QED
    BY <1>4, <1>a, <2>1 DEF ReportRecord
<1>5. CASE CleanCommands
  <2>1. job'.step = "reports" /\ job'.cutoff = clock - Retain
    BY <1>5 DEF CleanCommands
  <2>2. QED
    BY <1>5, <2>1 DEF CleanCommands, Old
<1>6. CASE CleanReports \/ CleanSessions \/ JobAbort
  <2>1. job'.step # "reports"
    BY <1>6 DEF CleanReports, CleanSessions, JobAbort, JobStates, Idle
  <2>2. QED
    BY <2>1
<1>7. CASE Tick
  BY <1>7, <1>a DEF Tick
<1>8. CASE UNCHANGED <<clock, status, executedAt, job>>
  BY <1>8
<1>9. QED
  BY <1>1, <1>2, <1>3, <1>4, <1>5, <1>6, <1>7, <1>8
     DEF RetNext, WorkerStep, ReportCheck, WorkerAbort, retVars

(***************************************************************************)
(* A reported command keeps the report that closed it as long as it is in  *)
(* the table, also while the job is between its deletes or died there.     *)
(***************************************************************************)
THEOREM ClosingReportsStay == RetSpec => []ClosingReportKept
<1>1. RetInit => DatesInv /\ CutoffInv /\ ClosingReportKept
  BY DEF RetInit, DatesInv, CutoffInv, ClosingReportKept, ReportStatuses, Idle
<1>2. RetTypeOK /\ DatesInv /\ CutoffInv /\ ClosingReportKept /\ [RetNext]_retVars
      => ClosingReportKept'
  <2> SUFFICES ASSUME RetTypeOK, DatesInv, CutoffInv, ClosingReportKept, [RetNext]_retVars,
                      NEW c \in Commands,
                      status'[c] \in ReportStatuses, executedAt'[c] # Never
               PROVE  \E r \in filed' : r.command = c /\ r.at = executedAt'[c]
    BY DEF ClosingReportKept
  <2> USE DEF ClosingReportKept
  <2>1. ASSUME NEW w \in Workers, ReportRecord(w), worker[w].command = c
        PROVE  \E r \in filed' : r.command = c /\ r.at = executedAt'[c]
    <3>1. [command |-> c, at |-> clock] \in filed' /\ executedAt'[c] = clock
      BY <2>1 DEF ReportRecord, RetTypeOK
    <3>2. QED
      BY <3>1
  <2>2. CASE /\ status[c] \in ReportStatuses
             /\ executedAt'[c] = executedAt[c]
             /\ filed \subseteq filed'
    BY <2>2
  <2>3. CASE CleanReports
    <3>1. PICK r \in filed : r.command = c /\ r.at = executedAt[c]
      BY <2>3 DEF CleanReports
    <3>2. job.cutoff \in Int /\ executedAt[c] >= job.cutoff
      BY <2>3 DEF CleanReports, CutoffInv, Terminal, TerminalStatuses, RetTypeOK, JobStates, Idle
    <3>3. r \in filed'
      BY <2>3, <3>1, <3>2, RetentionConstantsOK DEF CleanReports, OldReports, RetTypeOK
    <3>4. QED
      BY <2>3, <3>1, <3>3 DEF CleanReports
  <2>4. ~CleanReports /\ (\A w \in Workers : ReportRecord(w) => worker[w].command # c)
        => /\ status[c] \in ReportStatuses
           /\ executedAt'[c] = executedAt[c]
           /\ filed \subseteq filed'
    <3> USE DEF RetTypeOK, ReportStatuses
    <3>1. ASSUME NEW d \in Commands, Create(d) \/ Replace(d)
          PROVE  /\ status[c] \in ReportStatuses
                 /\ executedAt'[c] = executedAt[c]
                 /\ filed \subseteq filed'
      BY <3>1 DEF Create, Replace
    <3>2. CASE PollExpire
      BY <3>2 DEF PollExpire, DatesInv
    <3>3. ASSUME NEW w \in Workers, ReportRecord(w), worker[w].command # c
          PROVE  /\ status[c] \in ReportStatuses
                 /\ executedAt'[c] = executedAt[c]
                 /\ filed \subseteq filed'
      BY <3>3 DEF ReportRecord
    <3>4. CASE CleanCommands
      BY <3>4 DEF CleanCommands
    <3>5. CASE UNCHANGED <<status, executedAt, filed>>
      BY <3>5
    <3>6. QED
      BY <3>1, <3>2, <3>3, <3>4, <3>5
         DEF RetNext, WorkerStep, ReportCheck, WorkerAbort, CleanSessions, JobAbort, Tick, retVars
  <2>5. QED
    BY <2>1, <2>2, <2>3, <2>4
<1>3. QED
  BY <1>1, <1>2, DatesStep, CutoffStep, RetentionTypes, PTL DEF RetSpec

-----------------------------------------------------------------------------
(* Everything with a date is deleted.  ENABLED is beyond this prover, so     *)
(* the fairness of the job is stated with the guards of its steps.           *)

\* What SF_retVars(CleanCommands) and WF_retVars(CleanSessions \/ JobAbort) provide:
\* the first can be taken when no run of the job is under way, one of the
\* others at least at the end of a run.
JobRunsForEver ==
    /\ []<>(job = Idle) => []<><<CleanCommands>>_retVars
    /\ []<>(job = Idle) \/ []<><<CleanSessions \/ JobAbort>>_retVars

\* The bounds leave every date the time to grow older than the retention
\* period before the clock stops.
TimeLeft ==
    \A c \in Commands :
        /\ status[c] = "AVAILABLE" => due[c] + Retain < MaxClock
        /\ executedAt[c] # Never => executedAt[c] + Retain < MaxClock

LEMMA TimeLeftStep == RetTypeOK /\ TimeLeft /\ [RetNext]_retVars => TimeLeft'
<1> SUFFICES ASSUME RetTypeOK, TimeLeft, [RetNext]_retVars
             PROVE  TimeLeft'
  OBVIOUS
<1> USE RetentionConstantsOK DEF RetTypeOK, TimeLeft, TerminalStatuses, ReportStatuses
<1>1. ASSUME NEW c \in Commands, Create(c) PROVE TimeLeft'
  BY <1>1 DEF Create, InTime
<1>2. ASSUME NEW c \in Commands, Replace(c) PROVE TimeLeft'
  BY <1>2 DEF Replace
<1>3. CASE PollExpire
  BY <1>3 DEF PollExpire
<1>4. ASSUME NEW w \in Workers, ReportRecord(w) PROVE TimeLeft'
  <2>1. worker[w].command \in Commands /\ worker[w].status \in ReportStatuses
    BY <1>4 DEF ReportRecord, WorkerStates, Idle
  <2>2. QED
    BY <1>4, <2>1 DEF ReportRecord, InTime
<1>5. CASE CleanCommands
  BY <1>5 DEF CleanCommands
<1>6. CASE UNCHANGED <<status, due, executedAt>>
  BY <1>6
<1>7. QED
  BY <1>1, <1>2, <1>3, <1>4, <1>5, <1>6
     DEF RetNext, WorkerStep, ReportCheck, WorkerAbort, CleanReports, CleanSessions, JobAbort,
         Tick, retVars

Dated(c) == status[c] \in TerminalStatuses /\ executedAt[c] # Never

\* No step but a run of the job takes the date or the closed status away, and
\* the clock, once it has stopped, has stopped.
LEMMA DatedStays ==
  ASSUME NEW c \in Commands, RetTypeOK, [RetNext]_retVars
  PROVE  /\ Dated(c) => Dated(c)' \/ (status[c] = "DELETED")'
         /\ clock = MaxClock => (clock = MaxClock)'
<1> USE RetentionConstantsOK DEF RetTypeOK, Dated, TerminalStatuses, ReportStatuses
<1> DEFINE Goal == /\ Dated(c) => Dated(c)' \/ (status[c] = "DELETED")'
                   /\ clock = MaxClock => (clock = MaxClock)'
<1> SUFFICES Goal
  OBVIOUS
<1>1. ASSUME NEW d \in Commands, Create(d) \/ Replace(d) PROVE Goal
  BY <1>1 DEF Create, Replace
<1>2. CASE PollExpire \/ CleanCommands
  BY <1>2 DEF PollExpire, CleanCommands
<1>3. ASSUME NEW w \in Workers, ReportRecord(w) PROVE Goal
  <2>1. worker[w].command \in Commands /\ worker[w].status \in ReportStatuses
    BY <1>3 DEF ReportRecord, WorkerStates, Idle
  <2>2. QED
    BY <1>3, <2>1 DEF ReportRecord
<1>4. CASE Tick
  BY <1>4 DEF Tick
<1>5. CASE UNCHANGED <<clock, status, executedAt>>
  BY <1>5
<1>6. QED
  BY <1>1, <1>2, <1>3, <1>4, <1>5
     DEF RetNext, WorkerStep, ReportCheck, WorkerAbort, CleanReports, CleanSessions, JobAbort,
         retVars

\* When the time is up, the next run of the job takes whatever has a date.
LEMMA LateRunTakesAll ==
  ASSUME NEW c \in Commands, RetTypeOK, TimeLeft, clock = MaxClock, Dated(c), CleanCommands
  PROVE  (status[c] = "DELETED")'
<1>1. executedAt[c] \in Nat /\ executedAt[c] + Retain < clock
  BY RetentionConstantsOK DEF RetTypeOK, TimeLeft, Dated
<1>2. Old(c, clock - Retain)
  BY <1>1, RetentionConstantsOK DEF RetTypeOK, Dated, Old
<1> QED
  BY <1>2 DEF CleanCommands

(***************************************************************************)
(* What a report or a replacement closed is deleted in the end, however     *)
(* many runs of the job die between their deletes: under any constants, if   *)
(* the clock gets to its bound and the job is started for ever.              *)
(***************************************************************************)
THEOREM DatedAreDeleted ==
  RetSpec /\ <>(clock = MaxClock) /\ JobRunsForEver => DatedEventuallyDeleted
<1>1. RetSpec => []TimeLeft
  <2>1. RetInit => TimeLeft
    BY DEF RetInit, TimeLeft
  <2> QED
    BY <2>1, TimeLeftStep, RetentionTypes, PTL DEF RetSpec
<1>2. (CleanSessions \/ JobAbort) => (job = Idle)'
  BY DEF CleanSessions, JobAbort
<1>3. ASSUME NEW c \in Commands
      PROVE  RetSpec /\ <>(clock = MaxClock) /\ JobRunsForEver
             => ((status[c] \in TerminalStatuses /\ executedAt[c] # Never)
                    ~> status[c] = "DELETED")
  <2>1. RetTypeOK /\ [RetNext]_retVars
        => /\ Dated(c) => Dated(c)' \/ (status[c] = "DELETED")'
           /\ clock = MaxClock => (clock = MaxClock)'
    BY DatedStays
  <2>2. RetTypeOK /\ TimeLeft /\ clock = MaxClock /\ Dated(c) /\ <<CleanCommands>>_retVars
        => (status[c] = "DELETED")'
    BY LateRunTakesAll
  <2>3. RetSpec /\ <>(clock = MaxClock) /\ JobRunsForEver => (Dated(c) ~> status[c] = "DELETED")
    BY <1>1, <1>2, <2>1, <2>2, RetentionTypes, PTL DEF RetSpec, JobRunsForEver
  <2> QED
    BY <2>3 DEF Dated
<1>4. QED
  BY <1>3 DEF DatedEventuallyDeleted
=============================================================================
