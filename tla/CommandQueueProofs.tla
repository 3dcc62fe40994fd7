------------------------- MODULE CommandQueueProofs -------------------------
(***************************************************************************)
(* Theorems of CommandQueue, for every number of commands, accounts,       *)
(* engines and workers and every value of the bounds.                      *)
(***************************************************************************)
EXTENDS CommandQueue, TLAPS

(***************************************************************************)
(* What one INSERT does, and which INSERT the three publishers of position  *)
(* commands perform.                                                       *)
(***************************************************************************)
LEMMA InsertTypes ==
  ASSUME TypeOK, NEW c \in Commands, NEW s \in Statuses, NEW now \in Nat,
         Insert(c, s, now)
  PROVE  /\ status' \in [Commands -> Statuses]
         /\ expires' \in [Commands -> Nat]
<1>1. now + Ttl[KindOf[c]] \in Nat
  BY ConstantsOK
<1>2. QED
  BY <1>1 DEF Insert, TypeOK

\* A publisher does nothing to the queue but insert one row.
LEMMA PublishInserts ==
  ASSUME NEW c \in Commands, Publish(c)
  PROVE  /\ KindOf[c] # "OPEN"
         /\ \E s \in {"AVAILABLE", "PENDING"} : Insert(c, s, clock)
         /\ UNCHANGED <<clock, opener, engine, worker, inbox, outbox, reports, audits>>
BY DEF Publish, CreateModifySl, CreateCloseFull, CreateClosePartial, eaVars, reportVars

(***************************************************************************)
(* Type correctness: every column, history and process state of the queue  *)
(* keeps its type, in particular no handler is left with a half built      *)
(* request and no status outside the protocol is ever written.             *)
(***************************************************************************)
THEOREM TypeCorrect == Spec => []TypeOK
<1> USE DEF TypeOK, EngineStates, WorkerStates, Messages, Idle, Statuses,
        TerminalStatuses, ReportStatuses, ActiveStatuses, ParkedStatuses, Kinds
<1>1. Init => TypeOK
  BY DEF Init
<1>2. TypeOK /\ [Next]_vars => TypeOK'
  <2> SUFFICES ASSUME TypeOK, [Next]_vars PROVE TypeOK'
    OBVIOUS
  <2> USE ConstantsOK DEF tableVars, eaVars, reportVars
  <2>1. ASSUME NEW e \in Engines, NEW a \in Accounts, OpenCancel(e, a) PROVE TypeOK'
    BY <2>1 DEF OpenCancel
  <2>2. ASSUME NEW e \in Engines, NEW c \in Commands, OpenInsert(e, c) PROVE TypeOK'
    <3>1. engine[e].now \in Nat
      BY <2>2 DEF OpenInsert
    <3>2. status' \in [Commands -> Statuses] /\ expires' \in [Commands -> Nat]
      BY <2>2, <3>1, InsertTypes DEF OpenInsert
    <3>3. QED
      BY <2>2, <3>2 DEF OpenInsert
  <2>3. ASSUME NEW e \in Engines, OpenAbort(e) PROVE TypeOK'
    BY <2>3 DEF OpenAbort
  <2>4. ASSUME NEW c \in Commands, Publish(c) PROVE TypeOK'
    <3>1. PICK s \in {"AVAILABLE", "PENDING"} : Insert(c, s, clock)
      BY <2>4, PublishInserts
    <3>2. status' \in [Commands -> Statuses] /\ expires' \in [Commands -> Nat]
      BY <3>1, InsertTypes
    <3>3. QED
      BY <2>4, <3>2, PublishInserts
  <2>5. CASE ExpireOldCommands
    BY <2>5 DEF ExpireOldCommands
  <2>6. ASSUME NEW w \in Workers, NEW a \in RunningEAs, PollExpire(w, a) PROVE TypeOK'
    BY <2>6 DEF PollExpire
  <2>7. ASSUME NEW w \in Workers, PollFetch(w) PROVE TypeOK'
    BY <2>7 DEF PollFetch, Pages, Pollable
  <2>8. ASSUME NEW w \in Workers, NEW m \in outbox, ReportCheck(w, m) PROVE TypeOK'
    BY <2>8 DEF ReportCheck
  <2>9. ASSUME NEW w \in Workers, ReportRecord(w) PROVE TypeOK'
    BY <2>9 DEF ReportRecord
  <2>10. ASSUME NEW w \in Workers, ReportAudit(w) PROVE TypeOK'
    <3>1. worker[w].msg \in Messages
      BY <2>10 DEF ReportAudit
    <3>2. audits' \in [Commands -> Nat]
      BY <2>10, <3>1 DEF ReportAudit
    <3>3. QED
      BY <2>10, <3>2 DEF ReportAudit
  <2>11. ASSUME NEW w \in Workers, WorkerAbort(w) PROVE TypeOK'
    BY <2>11 DEF WorkerAbort
  <2>12. ASSUME NEW c \in Commands, EAStep(c) PROVE TypeOK'
    <3>1. PICK s \in ReportStatuses : Send(c, s)
      BY <2>12 DEF EAStep, EAFill, EARefuse, EATooLate, EARepeat
    <3>2. QED
      BY <3>1 DEF Send
  <2>13. CASE Tick
    BY <2>13 DEF Tick
  <2>14. CASE UNCHANGED vars
    BY <2>14 DEF vars
  <2>15. QED
    BY <2>1, <2>2, <2>3, <2>4, <2>5, <2>6, <2>7, <2>8, <2>9, <2>10, <2>11,
       <2>12, <2>13, <2>14 DEF Next, EngineStep, WorkerStep
<1>3. QED
  BY <1>1, <1>2, PTL DEF Spec

-----------------------------------------------------------------------------
\* A report that a request thread has taken up is one of the reports there are.
LEMMA WorkerMessage ==
  ASSUME NEW w \in Workers, worker \in [Workers -> WorkerStates],
         worker[w].op \in {"record", "audit"}
  PROVE  worker[w].msg \in Messages
<1>1. worker[w] \in WorkerStates
  OBVIOUS
<1>2. QED
  BY <1>1 DEF WorkerStates, Idle

(***************************************************************************)
(* All that one step can do to the row and the reports of a command.        *)
(***************************************************************************)
LEMMA RowMoves ==
  ASSUME TypeOK, [Next]_vars, NEW c \in Commands
  PROVE  \/ status'[c] = status[c] /\ reports'[c] = reports[c]
         \/ /\ status[c] = "ABSENT"
            /\ status'[c] \in {"AVAILABLE", "PENDING"}
            /\ reports'[c] = reports[c]
         \/ /\ status[c] \in ActiveStatuses \cup ParkedStatuses
            /\ status'[c] \in {"CANCELLED", "EXPIRED"}
            /\ reports'[c] = reports[c]
         \/ \E s \in ReportStatuses :
               status'[c] = s /\ reports'[c] = Append(reports[c], s)
<1> DEFINE Moves == \/ status'[c] = status[c] /\ reports'[c] = reports[c]
                    \/ /\ status[c] = "ABSENT"
                       /\ status'[c] \in {"AVAILABLE", "PENDING"}
                       /\ reports'[c] = reports[c]
                    \/ /\ status[c] \in ActiveStatuses \cup ParkedStatuses
                       /\ status'[c] \in {"CANCELLED", "EXPIRED"}
                       /\ reports'[c] = reports[c]
                    \/ \E s \in ReportStatuses :
                          status'[c] = s /\ reports'[c] = Append(reports[c], s)
<1> SUFFICES Moves
  OBVIOUS
<1> USE DEF tableVars, eaVars, reportVars
<1>1. ASSUME NEW e \in Engines, NEW a \in Accounts, OpenCancel(e, a) PROVE Moves
  BY <1>1 DEF OpenCancel, Replaceable
<1>2. ASSUME NEW e \in Engines, NEW d \in Commands, OpenInsert(e, d) PROVE Moves
  BY <1>2 DEF OpenInsert, Insert, TypeOK
<1>3. ASSUME NEW e \in Engines, OpenAbort(e) PROVE Moves
  BY <1>3 DEF OpenAbort
<1>4. ASSUME NEW d \in Commands, Publish(d) PROVE Moves
  BY <1>4, PublishInserts DEF Insert, TypeOK
<1>5. CASE ExpireOldCommands
  BY <1>5 DEF ExpireOldCommands
<1>6. ASSUME NEW w \in Workers, NEW a \in RunningEAs, PollExpire(w, a) PROVE Moves
  BY <1>6 DEF PollExpire
<1>7. ASSUME NEW w \in Workers, ReportRecord(w) PROVE Moves
  <2>1. worker[w].msg \in Messages
    BY <1>7, WorkerMessage DEF ReportRecord, TypeOK
  <2>2. worker[w].msg.command \in Commands /\ worker[w].msg.status \in ReportStatuses
    BY <2>1 DEF Messages
  <2>3. QED
    BY <1>7, <2>2 DEF ReportRecord, TypeOK
<1>8. ASSUME NEW w \in Workers,
             PollFetch(w) \/ ReportAudit(w) \/ WorkerAbort(w)
               \/ \E m \in outbox : ReportCheck(w, m)
      PROVE  Moves
  BY <1>8 DEF PollFetch, ReportAudit, WorkerAbort, ReportCheck
<1>9. ASSUME NEW d \in Commands, EAStep(d) PROVE Moves
  BY <1>9 DEF EAStep, EAFill, EARefuse, EATooLate, EARepeat, Send
<1>10. CASE Tick
  BY <1>10 DEF Tick
<1>11. CASE UNCHANGED vars
  BY <1>11 DEF vars
<1>12. QED
  BY <1>1, <1>2, <1>3, <1>4, <1>5, <1>6, <1>7, <1>8, <1>9, <1>10, <1>11
     DEF Next, EngineStep, WorkerStep

(***************************************************************************)
(* A terminal command stays terminal: no publisher, poll or report, in any  *)
(* interleaving of their commits, brings it back into the queue.            *)
(***************************************************************************)
THEOREM TerminalStaysFinal == Spec => TerminalIsFinal
<1>1. TypeOK /\ [Next]_vars =>
        [\A c \in Commands : status[c] \in TerminalStatuses
                              => status'[c] \in TerminalStatuses]_vars
  <2> SUFFICES ASSUME TypeOK, [Next]_vars, NEW c \in Commands,
                      status[c] \in TerminalStatuses
               PROVE  status'[c] \in TerminalStatuses
    OBVIOUS
  <2>1. QED
    BY RowMoves DEF TerminalStatuses, ReportStatuses, ActiveStatuses, ParkedStatuses
<1>2. QED
  BY <1>1, TypeCorrect, PTL DEF Spec, TerminalIsFinal

(***************************************************************************)
(* The status of a reported command is that of its last committed report.   *)
(* The invariant is inductive together with the types: a row whose last      *)
(* report is some report status is neither absent, active nor parked, so no  *)
(* INSERT, cancel or expiry matches it any more.                             *)
(***************************************************************************)
THEOREM LastReportStands == Spec => []LastReportWins
<1>1. Init => LastReportWins
  BY DEF Init, LastReportWins
<1>2. TypeOK /\ LastReportWins /\ [Next]_vars => LastReportWins'
  <2> SUFFICES ASSUME TypeOK, LastReportWins, [Next]_vars, NEW c \in Commands,
                      reports'[c] # <<>>
               PROVE  status'[c] = LastReport(c)'
    BY DEF LastReportWins
  <2>1. reports[c] \in Seq(ReportStatuses)
    BY DEF TypeOK
  <2>2. CASE reports'[c] = reports[c] /\ status'[c] = status[c]
    BY <2>2 DEF LastReportWins, LastReport
  <2>3. CASE \E s \in ReportStatuses :
               status'[c] = s /\ reports'[c] = Append(reports[c], s)
    BY <2>1, <2>3 DEF LastReport
  <2>4. CASE /\ reports'[c] = reports[c]
             /\ status[c] \in {"ABSENT"} \cup ActiveStatuses \cup ParkedStatuses
    <3>1. LastReport(c) \in ReportStatuses
      BY <2>1, <2>4 DEF LastReport
    <3>2. status[c] = LastReport(c)
      BY <2>4 DEF LastReportWins
    <3>3. QED
      BY <3>1, <3>2, <2>4 DEF ReportStatuses, ActiveStatuses, ParkedStatuses
  <2>5. QED
    BY <2>2, <2>3, <2>4, RowMoves
<1>3. QED
  BY <1>1, <1>2, TypeCorrect, PTL DEF Spec

-----------------------------------------------------------------------------
(***************************************************************************)
(* Replacement of OPENs.  The live OPENs of an account only grow by an       *)
(* INSERT, and an engine reaches its INSERT only through its own cancel,     *)
(* which has emptied them; what other engines insert in between is theirs.   *)
(***************************************************************************)
OpensInv ==
    /\ OneOpenPerEngine
    /\ \A a \in Accounts : \A c \in LiveOpens(a) : opener[c] \in Engines

\* Steps that write no OPEN row and change no engine can only close live OPENs.
LEMMA OpensShrink ==
  ASSUME TypeOK, OpensInv, UNCHANGED <<opener, engine>>,
         \A a \in Accounts : LiveOpens(a)' \subseteq LiveOpens(a)
  PROVE  OpensInv'
BY DEF OpensInv, OneOpenPerEngine

\* Every step keeps the inductive invariant, those of an engine between its two
\* commits included.
LEMMA OpensStep == TypeOK /\ OpensInv /\ [Next]_vars => OpensInv'
<1> SUFFICES ASSUME TypeOK, OpensInv, [Next]_vars PROVE OpensInv'
  OBVIOUS
<1> USE DEF tableVars, eaVars, reportVars
<1>1. ASSUME NEW e \in Engines, NEW b \in Accounts, OpenCancel(e, b) PROVE OpensInv'
  <2>1. LiveOpens(b)' = {}
    BY <1>1 DEF OpenCancel, Replaceable, LiveOpens, ActiveStatuses, TypeOK
  <2>2. \A a \in Accounts : LiveOpens(a)' \subseteq LiveOpens(a)
    BY <1>1 DEF OpenCancel, Replaceable, LiveOpens, ActiveStatuses, TypeOK
  <2>3. \A f \in Engines \ {e} : engine'[f] = engine[f]
    BY <1>1 DEF OpenCancel, TypeOK
  <2>4. engine'[e].account = b
    BY <1>1 DEF OpenCancel, TypeOK
  <2>5. opener' = opener
    BY <1>1 DEF OpenCancel
  <2>6. QED
    BY <2>1, <2>2, <2>3, <2>4, <2>5 DEF OpensInv, OneOpenPerEngine
<1>2. ASSUME NEW e \in Engines, NEW d \in Commands, OpenInsert(e, d) PROVE OpensInv'
  <2>1. opener' = [opener EXCEPT ![d] = e] /\ engine' = [engine EXCEPT ![e] = Idle]
    BY <1>2 DEF OpenInsert
  <2>2. /\ engine[e].op = "insert"
        /\ AccountOf[d] = engine[e].account
        /\ status[d] = "ABSENT"
    BY <1>2 DEF OpenInsert, Insert
  <2>3. \A a \in Accounts : \A c \in LiveOpens(a)' : c # d => c \in LiveOpens(a)
    BY <1>2 DEF OpenInsert, Insert, LiveOpens, TypeOK
  <2>4. \A a \in Accounts : \A c \in LiveOpens(a) : c # d
    BY <2>2 DEF LiveOpens, ActiveStatuses
  <2>5. \A a \in Accounts : \A c \in LiveOpens(a)' : c = d => a = engine[e].account
    BY <2>2 DEF LiveOpens
  <2>6. engine'[e].op # "insert" /\ \A f \in Engines \ {e} : engine'[f] = engine[f]
    BY <2>1 DEF TypeOK, Idle
  <2>7. opener'[d] = e /\ \A c \in Commands \ {d} : opener'[c] = opener[c]
    BY <2>1 DEF TypeOK
  <2>8. \A a \in Accounts : LiveOpens(a) \subseteq Commands /\ LiveOpens(a)' \subseteq Commands
    BY DEF LiveOpens
  <2>9. QED
    BY <2>2, <2>3, <2>4, <2>5, <2>6, <2>7, <2>8 DEF OpensInv, OneOpenPerEngine
<1>3. ASSUME NEW e \in Engines, OpenAbort(e) PROVE OpensInv'
  <2>1. \A a \in Accounts : LiveOpens(a)' = LiveOpens(a)
    BY <1>3 DEF OpenAbort, LiveOpens
  <2>2. engine'[e].op # "insert" /\ \A f \in Engines \ {e} : engine'[f] = engine[f]
    BY <1>3 DEF OpenAbort, TypeOK, Idle
  <2>3. opener' = opener
    BY <1>3 DEF OpenAbort
  <2>4. QED
    BY <2>1, <2>2, <2>3 DEF OpensInv, OneOpenPerEngine
<1>4. ASSUME NEW d \in Commands, Publish(d) PROVE OpensInv'
  <2>1. \A a \in Accounts : LiveOpens(a)' \subseteq LiveOpens(a)
    BY <1>4, PublishInserts DEF Insert, LiveOpens, TypeOK
  <2>2. QED
    BY <2>1, <1>4, PublishInserts, OpensShrink
<1>5. ASSUME ExpireOldCommands
                \/ \E w \in Workers, a \in RunningEAs : PollExpire(w, a)
      PROVE  OpensInv'
  <2>1. \A a \in Accounts : LiveOpens(a)' \subseteq LiveOpens(a)
    BY <1>5 DEF ExpireOldCommands, PollExpire, LiveOpens, ActiveStatuses, TypeOK
  <2>2. QED
    BY <2>1, <1>5, OpensShrink DEF ExpireOldCommands, PollExpire
<1>6. ASSUME NEW w \in Workers, ReportRecord(w) PROVE OpensInv'
  <2>1. worker[w].msg \in Messages
    BY <1>6, WorkerMessage DEF ReportRecord, TypeOK
  <2>2. worker[w].msg.command \in Commands /\ worker[w].msg.status \notin ActiveStatuses
    BY <2>1 DEF Messages, ReportStatuses, ActiveStatuses
  <2>3. \A a \in Accounts : LiveOpens(a)' \subseteq LiveOpens(a)
    BY <1>6, <2>2 DEF ReportRecord, LiveOpens, TypeOK
  <2>4. QED
    BY <2>3, <1>6, OpensShrink DEF ReportRecord
<1>7. ASSUME NEW w \in Workers,
             PollFetch(w) \/ ReportAudit(w) \/ WorkerAbort(w)
               \/ \E m \in outbox : ReportCheck(w, m)
      PROVE  OpensInv'
  <2>1. UNCHANGED <<clock, status, expires, opener, engine>>
    BY <1>7 DEF PollFetch, ReportAudit, WorkerAbort, ReportCheck
  <2>2. QED
    BY <2>1, OpensShrink DEF LiveOpens
<1>8. ASSUME NEW d \in Commands, EAStep(d) PROVE OpensInv'
  <2>1. UNCHANGED <<clock, status, expires, opener, engine>>
    BY <1>8 DEF EAStep, EAFill, EARefuse, EATooLate, EARepeat, Send
  <2>2. QED
    BY <2>1, OpensShrink DEF LiveOpens
<1>9. CASE Tick
  <2>1. \A a \in Accounts : LiveOpens(a)' \subseteq LiveOpens(a)
    BY <1>9 DEF Tick, LiveOpens, TypeOK
  <2>2. QED
    BY <2>1, <1>9, OpensShrink DEF Tick
<1>10. CASE UNCHANGED vars
  BY <1>10, OpensShrink DEF vars, LiveOpens
<1>11. QED
  BY <1>1, <1>2, <1>3, <1>4, <1>5, <1>6, <1>7, <1>8, <1>9, <1>10
     DEF Next, EngineStep, WorkerStep

(***************************************************************************)
(* Whatever the number of engines, none has two live OPENs of an account,   *)
(* nor one while it is between its cancel and its insert.                   *)
(***************************************************************************)
THEOREM OneOpenPerEngineHolds == Spec => []OneOpenPerEngine
<1>1. Init => OpensInv
  BY DEF Init, OpensInv, OneOpenPerEngine, LiveOpens, ActiveStatuses
<1>2. OpensInv => OneOpenPerEngine
  BY DEF OpensInv
<1>3. QED
  BY <1>1, <1>2, OpensStep, TypeCorrect, PTL DEF Spec

(***************************************************************************)
(* The replacement rule of the code's docstrings, under the condition they   *)
(* leave out: with a single engine an account has at most one live OPEN,     *)
(* even if the engine dies between its two commits any number of times.      *)
(***************************************************************************)
THEOREM SingleEngineOneLiveOpen ==
  ASSUME NEW e, Engines = {e}
  PROVE  Spec => []OneLiveOpen
<1>1. Init => OpensInv
  BY DEF Init, OpensInv, OneOpenPerEngine, LiveOpens, ActiveStatuses
<1>2. OpensInv => OneLiveOpen
  BY DEF OpensInv, OneOpenPerEngine, OneLiveOpen
<1>3. QED
  BY <1>1, <1>2, OpensStep, TypeCorrect, PTL DEF Spec

-----------------------------------------------------------------------------
(***************************************************************************)
(* A poll delivers no closed command, whatever commits between its two       *)
(* transactions; what the EA holds otherwise only shrinks.                   *)
(***************************************************************************)
THEOREM ClosedStaysUnserved == Spec => ClosedNotServed
<1>1. TypeOK /\ [Next]_vars =>
        [\A c \in Commands :
            status[c] \in TerminalStatuses /\ c \in inbox' => c \in inbox]_vars
  <2> SUFFICES ASSUME TypeOK, [Next]_vars, NEW c \in Commands,
                      status[c] \in TerminalStatuses, c \in inbox'
               PROVE  c \in inbox
    OBVIOUS
  <2> USE DEF tableVars, eaVars, reportVars
  <2>1. CASE inbox' \subseteq inbox
    BY <2>1
  <2>2. ASSUME NEW w \in Workers, PollFetch(w) PROVE c \in inbox
    BY <2>2 DEF PollFetch, Pages, Pollable, ActiveStatuses, TerminalStatuses,
                ReportStatuses
  <2>3. ASSUME NEW d \in Commands, EAStep(d) PROVE inbox' \subseteq inbox
    BY <2>3 DEF EAStep, EAFill, EARefuse, EATooLate, EARepeat, Send
  <2>4. ASSUME NEW d \in Commands, Publish(d) PROVE inbox' = inbox
    BY <2>4, PublishInserts
  <2>5. ASSUME NEW e \in Engines, EngineStep(e) PROVE inbox' = inbox
    BY <2>5 DEF EngineStep, OpenCancel, OpenInsert, OpenAbort
  <2>6. ASSUME NEW w \in Workers, WorkerStep(w), ~PollFetch(w) PROVE inbox' = inbox
    BY <2>6 DEF WorkerStep, PollExpire, ReportCheck, ReportRecord, ReportAudit,
                WorkerAbort
  <2>7. CASE ExpireOldCommands \/ Tick \/ UNCHANGED vars
    BY <2>7 DEF ExpireOldCommands, Tick, vars
  <2>8. QED
    BY <2>1, <2>2, <2>3, <2>4, <2>5, <2>6, <2>7 DEF Next
<1>2. QED
  BY <1>1, TypeCorrect, PTL DEF Spec, ClosedNotServed

-----------------------------------------------------------------------------
(***************************************************************************)
(* The queue implements the abstract life of a command (its safety part).   *)
(* The one fact a step needs beyond the types: a report being recorded is of *)
(* a command that exists, although its check was an earlier transaction.     *)
(***************************************************************************)
Phase == [c \in Commands |-> PhaseOf(status[c])]

ReportsKnown ==
    \A w \in Workers : worker[w].op \in {"record", "audit"}
                       => status[worker[w].msg.command] # "ABSENT"

\* The abstract phase of a command, status by status.
LEMMA PhaseFacts ==
  ASSUME NEW s \in Statuses
  PROVE  /\ s = "ABSENT" <=> PhaseOf(s) = "absent"
         /\ s \in ActiveStatuses <=> PhaseOf(s) = "queued"
         /\ s \in ParkedStatuses <=> PhaseOf(s) = "parked"
         /\ s \in TerminalStatuses <=> PhaseOf(s) = "closed"
BY DEF Statuses, PhaseOf, ActiveStatuses, ParkedStatuses, TerminalStatuses,
       ReportStatuses

\* A row of trading_commands never goes away.
LEMMA PresentStays ==
  ASSUME TypeOK, [Next]_vars, NEW c \in Commands, status[c] # "ABSENT"
  PROVE  status'[c] # "ABSENT"
BY RowMoves DEF ReportStatuses

\* A report is checked, and then recorded, only for a row that exists.
LEMMA ReportsKnownStep == TypeOK /\ ReportsKnown /\ [Next]_vars => ReportsKnown'
<1> SUFFICES ASSUME TypeOK, ReportsKnown, [Next]_vars, NEW v \in Workers,
                    worker'[v].op \in {"record", "audit"}
             PROVE  status'[worker'[v].msg.command] # "ABSENT"
  BY DEF ReportsKnown
<1> USE DEF tableVars, eaVars, reportVars
<1>1. CASE worker'[v] = worker[v]
  <2>1. worker[v].msg \in Messages
    BY <1>1, WorkerMessage DEF TypeOK
  <2>2. status[worker[v].msg.command] # "ABSENT"
    BY <1>1 DEF ReportsKnown
  <2>3. QED
    BY <1>1, <2>1, <2>2, PresentStays DEF Messages
<1>2. ASSUME NEW w \in Workers, ReportRecord(w) PROVE status'[worker'[v].msg.command] # "ABSENT"
  <2>1. CASE v # w
    BY <1>1, <1>2, <2>1 DEF ReportRecord, TypeOK
  <2>2. CASE v = w
    <3>1. worker'[v].msg = worker[v].msg
      BY <1>2, <2>2 DEF ReportRecord, TypeOK
    <3>2. worker[v].msg \in Messages /\ status[worker[v].msg.command] # "ABSENT"
      BY <1>2, <2>2, WorkerMessage DEF ReportRecord, TypeOK, ReportsKnown
    <3>3. QED
      BY <3>1, <3>2, PresentStays DEF Messages
  <2>3. QED
    BY <2>1, <2>2
<1>3. ASSUME NEW w \in Workers, NEW m \in outbox, ReportCheck(w, m)
      PROVE  status'[worker'[v].msg.command] # "ABSENT"
  BY <1>1, <1>3 DEF ReportCheck, TypeOK
<1>4. ASSUME NEW w \in Workers,
             ReportAudit(w) \/ WorkerAbort(w) \/ PollFetch(w)
               \/ \E a \in RunningEAs : PollExpire(w, a)
      PROVE  worker'[v] = worker[v]
  <2>1. \A x \in Workers \ {w} : worker'[x] = worker[x]
    BY <1>4 DEF ReportAudit, WorkerAbort, PollFetch, PollExpire, TypeOK
  <2>2. worker'[w].op \notin {"record", "audit"}
    BY <1>4 DEF ReportAudit, WorkerAbort, PollFetch, PollExpire, TypeOK, Idle
  <2>3. QED
    BY <2>1, <2>2
<1>5. ASSUME NEW e \in Engines, EngineStep(e) PROVE worker' = worker
  BY <1>5 DEF EngineStep, OpenCancel, OpenInsert, OpenAbort
<1>6. ASSUME NEW c \in Commands, Publish(c) PROVE worker' = worker
  BY <1>6, PublishInserts
<1>7. ASSUME NEW c \in Commands, EAStep(c) PROVE worker' = worker
  BY <1>7 DEF EAStep, EAFill, EARefuse, EATooLate, EARepeat, Send
<1>8. CASE ExpireOldCommands \/ Tick \/ UNCHANGED vars
  BY <1>1, <1>8 DEF ExpireOldCommands, Tick, vars
<1>9. QED
  BY <1>1, <1>2, <1>3, <1>4, <1>5, <1>6, <1>7, <1>8 DEF Next, WorkerStep

\* Rows of one open phase that close together are a step of the abstract queue.
LEMMA ClosingRefines ==
  ASSUME TypeOK, TypeOK', NEW p \in {"queued", "parked"}, NEW S \in SUBSET Commands,
         \A c \in S : PhaseOf(status[c]) = p /\ PhaseOf(status'[c]) = "closed",
         \A c \in Commands \ S : status'[c] = status[c]
  PROVE  Lifecycle!Next \/ UNCHANGED Phase
<1>1. CASE S = {}
  BY <1>1 DEF Phase
<1>2. CASE S # {}
  <2>1. PICK c \in S : TRUE
    BY <1>2
  <2>2. Phase' = [d \in Commands |-> IF d \in S THEN "closed" ELSE Phase[d]]
    BY DEF Phase
  <2>3. S \in SUBSET Lifecycle!In(p)
    BY DEF Lifecycle!In
  <2>4. Lifecycle!Close(S)
    BY <1>2, <2>2 DEF Lifecycle!Close, Phase
  <2>5. QED
    BY <2>1, <2>3, <2>4 DEF Lifecycle!Next, Lifecycle!CloseSome
<1>3. QED
  BY <1>1, <1>2

\* The INSERT of a row is a step of the abstract queue.
LEMMA EnteringRefines ==
  ASSUME TypeOK, NEW c \in Commands, NEW s \in {"AVAILABLE", "PENDING"},
         NEW now, Insert(c, s, now)
  PROVE  Lifecycle!Next
<1> DEFINE p == IF s = "PENDING" THEN "parked" ELSE "queued"
<1>1. PhaseOf(s) = p /\ PhaseOf(status[c]) = "absent"
  BY DEF PhaseOf, ActiveStatuses, ParkedStatuses, Insert
<1>2. Phase' = [Phase EXCEPT ![c] = p]
  BY <1>1 DEF Phase, Insert, TypeOK
<1>3. Lifecycle!Enter(c, p)
  BY <1>1, <1>2 DEF Lifecycle!Enter, Phase
<1>4. QED
  BY <1>3 DEF Lifecycle!Next

\* The commits of publishers, polls and reports, seen through PhaseOf, are the
\* steps of the abstract life of a command, or change nothing in it.
THEOREM ImplementsLifecycleSafety == Spec => Lifecycle!Spec
<1>1. Init => Lifecycle!Init
  <2>1. PhaseOf("ABSENT") = "absent"
    BY PhaseFacts DEF Statuses
  <2>2. QED
    BY <2>1 DEF Init, Lifecycle!Init
<1>2. Init => ReportsKnown
  BY DEF Init, ReportsKnown, Idle
<1>3. TypeOK /\ TypeOK' /\ ReportsKnown /\ [Next]_vars => [Lifecycle!Next]_Phase
  <2> SUFFICES ASSUME TypeOK, TypeOK', ReportsKnown, [Next]_vars
               PROVE  Lifecycle!Next \/ UNCHANGED Phase
    OBVIOUS
  <2> USE DEF tableVars, eaVars, reportVars
  <2>1. ASSUME NEW e \in Engines, NEW a \in Accounts, OpenCancel(e, a)
        PROVE  Lifecycle!Next \/ UNCHANGED Phase
    <3>1. /\ Replaceable(a) \in SUBSET Commands
          /\ \A c \in Replaceable(a) : PhaseOf(status[c]) = "queued"
      BY PhaseFacts DEF Replaceable, TypeOK
    <3>2. \A c \in Replaceable(a) : PhaseOf(status'[c]) = "closed"
      BY <2>1 DEF OpenCancel, Replaceable, PhaseOf, ActiveStatuses, ParkedStatuses
    <3>3. \A c \in Commands \ Replaceable(a) : status'[c] = status[c]
      BY <2>1 DEF OpenCancel
    <3>4. QED
      BY <3>1, <3>2, <3>3, ClosingRefines
  <2>2. ASSUME NEW e \in Engines, NEW c \in Commands, OpenInsert(e, c)
        PROVE  Lifecycle!Next
    BY <2>2, EnteringRefines DEF OpenInsert
  <2>3. ASSUME NEW c \in Commands, Publish(c) PROVE Lifecycle!Next
    BY <2>3, PublishInserts, EnteringRefines
  <2>4. CASE ExpireOldCommands
    <3> DEFINE S == {c \in Commands : status[c] \in ParkedStatuses /\ expires[c] < clock}
    <3>1. \A c \in S : PhaseOf(status[c]) = "parked" /\ PhaseOf(status'[c]) = "closed"
      BY <2>4 DEF ExpireOldCommands, PhaseOf, ActiveStatuses, ParkedStatuses
    <3>2. \A c \in Commands \ S : status'[c] = status[c]
      BY <2>4 DEF ExpireOldCommands
    <3>3. QED
      BY <3>1, <3>2, ClosingRefines
  <2>5. ASSUME NEW w \in Workers, NEW a \in RunningEAs, PollExpire(w, a)
        PROVE  Lifecycle!Next \/ UNCHANGED Phase
    <3> DEFINE S == {c \in Commands : status[c] \in ActiveStatuses /\ expires[c] < clock}
    <3>1. \A c \in S : PhaseOf(status[c]) = "queued" /\ PhaseOf(status'[c]) = "closed"
      BY <2>5 DEF PollExpire, PhaseOf, ActiveStatuses, ParkedStatuses
    <3>2. \A c \in Commands \ S : status'[c] = status[c]
      BY <2>5 DEF PollExpire
    <3>3. QED
      BY <3>1, <3>2, ClosingRefines
  <2>6. ASSUME NEW w \in Workers, ReportRecord(w)
        PROVE  Lifecycle!Next \/ UNCHANGED Phase
    <3> DEFINE d == worker[w].msg.command
    <3>1. worker[w].msg \in Messages /\ status[d] # "ABSENT"
      BY <2>6, WorkerMessage DEF ReportRecord, TypeOK, ReportsKnown
    <3>2. d \in Commands /\ worker[w].msg.status \in ReportStatuses
      BY <3>1 DEF Messages
    <3>3. /\ status'[d] = worker[w].msg.status
          /\ \A c \in Commands \ {d} : status'[c] = status[c]
      BY <2>6, <3>2 DEF ReportRecord, TypeOK
    <3>4. PhaseOf(status'[d]) = "closed"
      BY <3>2, <3>3 DEF PhaseOf, ReportStatuses, ActiveStatuses, ParkedStatuses
    <3>5. PhaseOf(status[d]) \in {"queued", "parked", "closed"}
      BY <3>1 DEF PhaseOf
    <3>6. CASE PhaseOf(status[d]) = "closed"
      BY <3>2, <3>3, <3>4, <3>6 DEF Phase
    <3>7. CASE PhaseOf(status[d]) \in {"queued", "parked"}
      BY <3>2, <3>3, <3>4, <3>7, ClosingRefines
    <3>8. QED
      BY <3>5, <3>6, <3>7
  <2>7. ASSUME NEW w \in Workers,
               PollFetch(w) \/ ReportAudit(w) \/ WorkerAbort(w)
                 \/ \E m \in outbox : ReportCheck(w, m)
        PROVE  UNCHANGED Phase
    BY <2>7 DEF PollFetch, ReportAudit, WorkerAbort, ReportCheck, Phase
  <2>8. ASSUME NEW c \in Commands, EAStep(c) PROVE UNCHANGED Phase
    BY <2>8 DEF EAStep, EAFill, EARefuse, EATooLate, EARepeat, Send, Phase
  <2>9. ASSUME Tick \/ UNCHANGED vars \/ \E e \in Engines : OpenAbort(e)
        PROVE  UNCHANGED Phase
    BY <2>9 DEF Tick, vars, OpenAbort, Phase
  <2>10. QED
    BY <2>1, <2>2, <2>3, <2>4, <2>5, <2>6, <2>7, <2>8, <2>9
       DEF Next, EngineStep, WorkerStep
<1>4. QED
  BY <1>1, <1>2, <1>3, ReportsKnownStep, TypeCorrect, PTL
     DEF Spec, Lifecycle!Spec, Phase
=============================================================================
