---------------------- MODULE CommandQueueLaterCommits ----------------------
(***************************************************************************)
(* Theorems of CommandQueue about what a handler commits later than it has *)
(* read or cancelled: the page behind the expiry, the successor of a       *)
(* cancelled OPEN, the audit event of a report; and the expiry that closes *)
(* every active command in the end.                                        *)
(***************************************************************************)
EXTENDS CommandQueueProofs, FiniteSetTheorems

(* ------------------------------- Times ---------------------------------- *)

\* A time that a handler has read is not ahead of the clock, and a row lives no
\* longer than its kind from now.
TimesInv ==
    /\ \A w \in Workers : worker[w].op = "fetch" => worker[w].now <= clock
    /\ \A e \in Engines : engine[e].op = "insert" => engine[e].now <= clock
    /\ \A c \in Commands :
          KindOf[c] = "OPEN" /\ status[c] # "ABSENT" => expires[c] <= clock + Ttl["OPEN"]

\* A thread that is going to fetch was so before, or reads the clock now.
LEMMA FetchTimes ==
  ASSUME TypeOK, [Next]_vars, NEW v \in Workers, worker'[v].op = "fetch"
  PROVE  worker'[v] = worker[v] \/ worker'[v].now = clock
<1> USE DEF TypeOK, tableVars, eaVars, reportVars
<1>1. ASSUME NEW w \in Workers, NEW a \in RunningEAs, PollExpire(w, a)
      PROVE  worker'[v] = worker[v] \/ worker'[v].now = clock
  BY <1>1 DEF PollExpire
<1>2. ASSUME NEW w \in Workers,
             PollFetch(w) \/ ReportAudit(w) \/ WorkerAbort(w) \/ ReportRecord(w)
               \/ \E m \in outbox : ReportCheck(w, m)
      PROVE  worker'[v] = worker[v]
  <2>1. \A x \in Workers \ {w} : worker'[x] = worker[x]
    BY <1>2 DEF PollFetch, ReportAudit, WorkerAbort, ReportRecord, ReportCheck
  <2>2. worker'[w].op # "fetch"
    BY <1>2 DEF PollFetch, ReportAudit, WorkerAbort, ReportRecord, ReportCheck, Idle
  <2>3. QED
    BY <2>1, <2>2
<1>3. ASSUME NEW e \in Engines, EngineStep(e) PROVE worker' = worker
  BY <1>3 DEF EngineStep, OpenCancel, OpenInsert, OpenAbort
<1>4. ASSUME NEW c \in Commands, Publish(c) PROVE worker' = worker
  BY <1>4, PublishInserts
<1>5. ASSUME NEW c \in Commands, EAStep(c) PROVE worker' = worker
  BY <1>5 DEF EAStep, EAFill, EARefuse, EATooLate, EARepeat, Send
<1>6. CASE ExpireOldCommands \/ Tick \/ UNCHANGED vars
  BY <1>6 DEF ExpireOldCommands, Tick, vars
<1>7. QED
  BY <1>1, <1>2, <1>3, <1>4, <1>5, <1>6 DEF Next, WorkerStep

\* What is no step of an engine leaves OPEN rows their expiry, cancels nothing,
\* and never turns the clock back.
LEMMA OtherSteps ==
  ASSUME TypeOK, ReportsKnown, [Next]_vars, \A e \in Engines : ~EngineStep(e)
  PROVE  /\ engine' = engine
         /\ clock' \in Nat /\ clock <= clock'
         /\ \A c \in Commands :
               /\ status'[c] = "CANCELLED" => status[c] = "CANCELLED"
               /\ KindOf[c] = "OPEN" =>
                     /\ expires'[c] = expires[c]
                     /\ status'[c] # "ABSENT" <=> status[c] # "ABSENT"
<1> DEFINE Goal ==
        /\ engine' = engine
        /\ clock' \in Nat /\ clock <= clock'
        /\ \A c \in Commands :
              /\ status'[c] = "CANCELLED" => status[c] = "CANCELLED"
              /\ KindOf[c] = "OPEN" =>
                    /\ expires'[c] = expires[c]
                    /\ status'[c] # "ABSENT" <=> status[c] # "ABSENT"
<1> SUFFICES Goal
  OBVIOUS
<1> USE DEF TypeOK, tableVars, eaVars, reportVars
<1>1. ASSUME NEW d \in Commands, Publish(d) PROVE Goal
  <2>1. KindOf[d] # "OPEN" /\ engine' = engine /\ clock' = clock
    BY <1>1, PublishInserts
  <2>2. PICK s \in {"AVAILABLE", "PENDING"} : Insert(d, s, clock)
    BY <1>1, PublishInserts
  <2>3. \A c \in Commands \ {d} : status'[c] = status[c] /\ expires'[c] = expires[c]
    BY <2>2 DEF Insert
  <2>4. status'[d] = s
    BY <2>2 DEF Insert
  <2>5. QED
    BY <2>1, <2>3, <2>4
<1>2. CASE ExpireOldCommands
  BY <1>2 DEF ExpireOldCommands, ParkedStatuses
<1>3. ASSUME NEW w \in Workers, NEW a \in RunningEAs, PollExpire(w, a) PROVE Goal
  BY <1>3 DEF PollExpire, ActiveStatuses
<1>4. ASSUME NEW w \in Workers, ReportRecord(w) PROVE Goal
  <2>1. worker[w].msg \in Messages /\ status[worker[w].msg.command] # "ABSENT"
    BY <1>4, WorkerMessage DEF ReportRecord, ReportsKnown
  <2>2. QED
    BY <1>4, <2>1 DEF ReportRecord, Messages, ReportStatuses
<1>5. ASSUME NEW w \in Workers,
             PollFetch(w) \/ ReportAudit(w) \/ WorkerAbort(w)
               \/ \E m \in outbox : ReportCheck(w, m)
      PROVE  Goal
  BY <1>5 DEF PollFetch, ReportAudit, WorkerAbort, ReportCheck
<1>6. ASSUME NEW d \in Commands, EAStep(d) PROVE Goal
  BY <1>6 DEF EAStep, EAFill, EARefuse, EATooLate, EARepeat, Send
<1>7. CASE Tick
  BY <1>7 DEF Tick
<1>8. CASE UNCHANGED vars
  BY <1>8 DEF vars
<1>9. QED
  BY <1>1, <1>2, <1>3, <1>4, <1>5, <1>6, <1>7, <1>8 DEF Next, WorkerStep

\* The times stay in their bounds, through the steps of the engines too.
LEMMA TimesStep ==
  TypeOK /\ TypeOK' /\ ReportsKnown /\ TimesInv /\ [Next]_vars => TimesInv'
<1> SUFFICES ASSUME TypeOK, TypeOK', ReportsKnown, TimesInv, [Next]_vars PROVE TimesInv'
  OBVIOUS
<1> USE DEF tableVars, eaVars, reportVars
<1>1. clock <= clock'
  <2>1. ASSUME NEW e \in Engines, EngineStep(e) PROVE clock' = clock
    BY <2>1 DEF EngineStep, OpenCancel, OpenInsert, OpenAbort
  <2>2. QED
    BY <2>1, OtherSteps DEF TypeOK
<1>2. ASSUME NEW v \in Workers, worker'[v].op = "fetch" PROVE worker'[v].now <= clock'
  <2>1. CASE worker'[v].now = clock
    BY <1>1, <2>1
  <2>2. CASE worker'[v] = worker[v]
    <3>1. worker[v].op = "fetch" /\ worker[v] \in WorkerStates
      BY <1>2, <2>2 DEF TypeOK
    <3>2. worker[v].now \in Nat
      BY <3>1 DEF WorkerStates, Idle
    <3>3. worker[v].now <= clock
      BY <3>1 DEF TimesInv
    <3>4. QED
      BY <1>1, <2>2, <3>2, <3>3 DEF TypeOK
  <2>3. QED
    BY <1>2, <2>1, <2>2, FetchTimes
<1>3. ASSUME \A e \in Engines : ~EngineStep(e) PROVE TimesInv'
  <2>1. /\ engine' = engine
        /\ \A c \in Commands : KindOf[c] = "OPEN" =>
              expires'[c] = expires[c] /\ (status'[c] # "ABSENT" <=> status[c] # "ABSENT")
    BY <1>3, OtherSteps
  <2>2. \A e \in Engines : engine[e].op = "insert" => engine[e].now \in Nat
    BY DEF TypeOK, EngineStates, Idle
  <2>3. Ttl["OPEN"] \in Nat
    BY ConstantsOK DEF Kinds
  <2>4. QED
    BY <1>1, <1>2, <2>1, <2>2, <2>3 DEF TimesInv, TypeOK
<1>4. ASSUME NEW e \in Engines, NEW a \in Accounts, OpenCancel(e, a) PROVE TimesInv'
  <2>1. UNCHANGED <<clock, expires>> /\ engine'[e].now = clock
    BY <1>4 DEF OpenCancel, TypeOK
  <2>2. \A f \in Engines \ {e} : engine'[f] = engine[f]
    BY <1>4 DEF OpenCancel, TypeOK
  <2>3. \A c \in Commands : status'[c] # "ABSENT" => status[c] # "ABSENT"
    BY <1>4 DEF OpenCancel, Replaceable, ActiveStatuses
  <2>4. \A f \in Engines : engine'[f].op = "insert" => engine'[f].now <= clock'
    <3>1. engine'[e].now <= clock'
      BY <2>1 DEF TypeOK
    <3>2. QED
      BY <3>1, <2>1, <2>2 DEF TimesInv
  <2>5. \A c \in Commands : KindOf[c] = "OPEN" /\ status'[c] # "ABSENT"
                            => expires'[c] <= clock' + Ttl["OPEN"]
    BY <2>1, <2>3 DEF TimesInv
  <2>6. QED
    BY <1>2, <2>4, <2>5 DEF TimesInv
<1>5. ASSUME NEW e \in Engines, NEW x \in Commands, OpenInsert(e, x) PROVE TimesInv'
  <2>1. clock' = clock /\ engine[e].op = "insert" /\ KindOf[x] = "OPEN"
    BY <1>5 DEF OpenInsert
  <2>2. expires' = [expires EXCEPT ![x] = engine[e].now + Ttl["OPEN"]]
    BY <1>5, <2>1 DEF OpenInsert, Insert
  <2>3. \A c \in Commands \ {x} : status'[c] = status[c] /\ expires'[c] = expires[c]
    BY <1>5, <2>2 DEF OpenInsert, Insert
  <2>4. engine[e].now \in Nat /\ engine[e].now <= clock /\ Ttl["OPEN"] \in Nat
    BY <2>1, ConstantsOK DEF TimesInv, TypeOK, EngineStates, Idle, Kinds
  <2>5. expires'[x] <= clock' + Ttl["OPEN"]
    BY <2>1, <2>2, <2>4 DEF TypeOK
  <2>6. \A f \in Engines : engine'[f].op = "insert" => engine'[f] = engine[f]
    BY <1>5 DEF OpenInsert, TypeOK, Idle
  <2>7. QED
    BY <1>2, <2>1, <2>3, <2>5, <2>6 DEF TimesInv
<1>6. ASSUME NEW e \in Engines, OpenAbort(e) PROVE TimesInv'
  <2>1. UNCHANGED <<clock, status, expires>>
    BY <1>6 DEF OpenAbort
  <2>2. \A f \in Engines : engine'[f].op = "insert" => engine'[f] = engine[f]
    BY <1>6 DEF OpenAbort, TypeOK, Idle
  <2>3. QED
    BY <1>2, <2>1, <2>2 DEF TimesInv
<1>7. QED
  BY <1>3, <1>4, <1>5, <1>6 DEF EngineStep

\* The invariants the theorems below start from.
LEMMA QueueInvariants == Spec => [](TypeOK /\ ReportsKnown /\ TimesInv)
<1>1. Init => ReportsKnown /\ TimesInv
  BY DEF Init, ReportsKnown, TimesInv, Idle
<1>2. QED
  BY <1>1, TypeCorrect, ReportsKnownStep, TimesStep, PTL DEF Spec

(* ------------------------------- Pages ---------------------------------- *)

\* Only the second transaction of a poll puts commands on their way to an EA.
LEMMA OnlyFetchDelivers ==
  ASSUME [Next]_vars, \A w \in Workers : ~PollFetch(w)
  PROVE  inbox' \subseteq inbox
<1> USE DEF tableVars, eaVars, reportVars
<1>1. ASSUME NEW e \in Engines, EngineStep(e) PROVE inbox' = inbox
  BY <1>1 DEF EngineStep, OpenCancel, OpenInsert, OpenAbort
<1>2. ASSUME NEW c \in Commands, Publish(c) PROVE inbox' = inbox
  BY <1>2, PublishInserts
<1>3. ASSUME NEW w \in Workers, WorkerStep(w) PROVE inbox' = inbox
  BY <1>3 DEF WorkerStep, PollExpire, ReportCheck, ReportRecord, ReportAudit, WorkerAbort
<1>4. ASSUME NEW c \in Commands, EAStep(c) PROVE inbox' \subseteq inbox
  BY <1>4 DEF EAStep, EAFill, EARefuse, EATooLate, EARepeat, Send
<1>5. CASE ExpireOldCommands \/ Tick \/ UNCHANGED vars
  BY <1>5 DEF ExpireOldCommands, Tick, vars
<1>6. QED
  BY <1>1, <1>2, <1>3, <1>4, <1>5 DEF Next

(***************************************************************************)
(* A short page is the urgent one.  The fetch filters with a time that was  *)
(* read before the expiry commit, so not ahead of the clock: a command that *)
(* is live now is among its rows, and a page holds no row with a worse      *)
(* priority than a row it leaves out.                                       *)
(***************************************************************************)
THEOREM UrgentFirst == Spec => UrgentServedFirst
<1> DEFINE Live(c, d) == /\ AccountOf[d] = AccountOf[c]
                         /\ status[d] \in ActiveStatuses
                         /\ expires[d] > clock
                         /\ Priority[KindOf[d]] < Priority[KindOf[c]]
<1>1. TypeOK /\ TimesInv /\ [Next]_vars =>
        [\A c \in inbox' \ inbox, d \in Commands : Live(c, d) => d \in inbox']_vars
  <2> SUFFICES ASSUME TypeOK, TimesInv, [Next]_vars, NEW c \in inbox' \ inbox,
                      NEW d \in Commands, Live(c, d)
               PROVE  d \in inbox'
    OBVIOUS
  <2>1. PICK w \in Workers : PollFetch(w)
    BY OnlyFetchDelivers
  <2> DEFINE a == worker[w].account
             now == worker[w].now
  <2>2. PICK page \in Pages(a, now) : inbox' = inbox \cup page
    BY <2>1 DEF PollFetch
  <2>3. page \subseteq Pollable(a, now)
        /\ \A x \in page, y \in Pollable(a, now) \ page : ~Before(y, x)
    BY <2>2 DEF Pages
  <2>4. now \in Nat /\ now <= clock
    <3>1. worker[w].op = "fetch" /\ worker[w] \in WorkerStates
      BY <2>1 DEF PollFetch, TypeOK
    <3>2. QED
      BY <3>1 DEF TimesInv, WorkerStates, Idle
  <2>5. c \in page /\ AccountOf[c] = a
    BY <2>2, <2>3 DEF Pollable
  <2>6. d \in Pollable(a, now)
    BY <2>4, <2>5 DEF Pollable, TypeOK
  <2>7. Before(d, c)
    BY DEF Before
  <2>8. d \in page
    BY <2>3, <2>5, <2>6, <2>7
  <2>9. QED
    BY <2>2, <2>8
<1>2. QED
  BY <1>1, QueueInvariants, PTL DEF Spec, UrgentServedFirst

(* ----------------------------- Replacement ------------------------------- *)

\* What CancelledHasSuccessor needs to be inductive: only OPENs are cancelled,
\* and the row an engine is about to insert outlives those it has cancelled.
Successor(c, d) ==
    KindOf[d] = "OPEN" /\ AccountOf[d] = AccountOf[c]
        /\ status[d] # "ABSENT" /\ expires[d] >= expires[c]

Replacing(c, e) ==
    engine[e].op = "insert" /\ engine[e].account = AccountOf[c]
        /\ expires[c] <= engine[e].now + Ttl["OPEN"]

CancelInv ==
    \A c \in Commands : status[c] = "CANCELLED" =>
        /\ KindOf[c] = "OPEN"
        /\ \/ \E e \in Engines : Replacing(c, e)
           \/ \E d \in Commands \ {c} : Successor(c, d)

\* Every step keeps that, if no engine dies between its two commits.
LEMMA CancelStep ==
  ASSUME FragileEngines = {}, TypeOK, ReportsKnown, TimesInv, CancelInv, [Next]_vars
  PROVE  CancelInv'
<1> USE DEF tableVars, eaVars, reportVars
<1>1. ASSUME NEW e \in Engines, NEW a \in Accounts, OpenCancel(e, a) PROVE CancelInv'
  <2>1. /\ expires' = expires
        /\ \A f \in Engines \ {e} : engine'[f] = engine[f]
        /\ engine'[e] = [op |-> "insert", account |-> a, now |-> clock]
        /\ engine[e] = Idle
    BY <1>1 DEF OpenCancel, TypeOK
  <2>2. \A c \in Commands : status'[c] = "ABSENT" => status[c] = "ABSENT"
    BY <1>1 DEF OpenCancel
  <2> SUFFICES ASSUME NEW c \in Commands, status'[c] = "CANCELLED"
               PROVE  /\ KindOf[c] = "OPEN"
                      /\ \/ \E f \in Engines : Replacing(c, f)'
                         \/ \E d \in Commands \ {c} : Successor(c, d)'
    BY DEF CancelInv
  <2>3. CASE c \in Replaceable(a)
    <3>1. KindOf[c] = "OPEN" /\ AccountOf[c] = a /\ status[c] # "ABSENT"
      BY <2>3 DEF Replaceable, ActiveStatuses
    <3>2. expires[c] <= clock + Ttl["OPEN"]
      BY <3>1 DEF TimesInv
    <3>3. Replacing(c, e)'
      BY <2>1, <3>1, <3>2 DEF Replacing
    <3>4. QED
      BY <3>1, <3>3
  <2>4. CASE c \notin Replaceable(a)
    <3>1. status[c] = "CANCELLED"
      BY <1>1, <2>4 DEF OpenCancel
    <3>2. ASSUME NEW f \in Engines, Replacing(c, f) PROVE Replacing(c, f)'
      BY <2>1, <3>2 DEF Replacing, Idle
    <3>3. ASSUME NEW d \in Commands \ {c}, Successor(c, d) PROVE Successor(c, d)'
      BY <2>1, <2>2, <3>3 DEF Successor
    <3>4. QED
      BY <3>1, <3>2, <3>3 DEF CancelInv
  <2>5. QED
    BY <2>3, <2>4
<1>2. ASSUME NEW e \in Engines, NEW x \in Commands, OpenInsert(e, x) PROVE CancelInv'
  <2>1. /\ status[x] = "ABSENT" /\ status'[x] = "AVAILABLE"
        /\ \A c \in Commands \ {x} : status'[c] = status[c] /\ expires'[c] = expires[c]
        /\ \A f \in Engines \ {e} : engine'[f] = engine[f]
    BY <1>2 DEF OpenInsert, Insert, TypeOK
  <2>2. /\ KindOf[x] = "OPEN" /\ AccountOf[x] = engine[e].account
        /\ expires'[x] = engine[e].now + Ttl["OPEN"]
    BY <1>2 DEF OpenInsert, Insert, TypeOK
  <2>3. engine[e].op = "insert" /\ engine[e].now + Ttl["OPEN"] \in Nat
    <3>1. engine[e].op = "insert"
      BY <1>2 DEF OpenInsert
    <3>2. engine[e].now \in Nat
      BY <3>1 DEF TypeOK, EngineStates, Idle
    <3>3. QED
      BY <3>1, <3>2, ConstantsOK DEF Kinds
  <2> SUFFICES ASSUME NEW c \in Commands \ {x}, status[c] = "CANCELLED"
               PROVE  \/ \E f \in Engines : Replacing(c, f)'
                      \/ \E d \in Commands \ {c} : Successor(c, d)'
    BY <2>1 DEF CancelInv
  <2>4. ASSUME NEW f \in Engines \ {e}, Replacing(c, f) PROVE Replacing(c, f)'
    BY <2>1, <2>4 DEF Replacing
  <2>5. ASSUME Replacing(c, e) PROVE Successor(c, x)'
    BY <2>1, <2>2, <2>3, <2>5 DEF Replacing, Successor, TypeOK
  <2>6. ASSUME NEW d \in Commands \ {c}, Successor(c, d) PROVE Successor(c, d)'
    BY <2>1, <2>6 DEF Successor
  <2>7. QED
    BY <2>4, <2>5, <2>6 DEF CancelInv
<1>3. ASSUME NEW e \in Engines, OpenAbort(e) PROVE FALSE
  BY <1>3 DEF OpenAbort
<1>4. ASSUME \A e \in Engines : ~EngineStep(e) PROVE CancelInv'
  <2>1. /\ engine' = engine
        /\ \A c \in Commands :
              /\ status'[c] = "CANCELLED" => status[c] = "CANCELLED"
              /\ KindOf[c] = "OPEN" =>
                    expires'[c] = expires[c] /\ (status'[c] # "ABSENT" <=> status[c] # "ABSENT")
    BY <1>4, OtherSteps
  <2>2. QED
    BY <2>1 DEF CancelInv, Replacing, Successor
<1>5. QED
  BY <1>1, <1>2, <1>3, <1>4 DEF EngineStep

(***************************************************************************)
(* A cancelled OPEN is followed by one that lives at least as long, or an   *)
(* engine is about to insert it, if no engine dies between the commit of    *)
(* _cancel_pending_open and its INSERT.                                     *)
(***************************************************************************)
THEOREM CancelledAreReplaced ==
  ASSUME FragileEngines = {}
  PROVE  Spec => []CancelledHasSuccessor
<1>1. Init => CancelInv
  BY DEF Init, CancelInv
<1>2. CancelInv => CancelledHasSuccessor
  BY DEF CancelInv, CancelledHasSuccessor, Replacing, Successor
<1>3. TypeOK /\ ReportsKnown /\ TimesInv /\ CancelInv /\ [Next]_vars => CancelInv'
  BY CancelStep
<1>4. QED
  BY <1>1, <1>2, <1>3, QueueInvariants, PTL DEF Spec

(* -------------------------------- Audit ---------------------------------- *)

\* The threads that have recorded a report of c and not yet its audit event.
Auditing(c) ==
    {w \in Workers : /\ worker[w].op = "audit"
                     /\ worker[w].msg.command = c}

\* Steps that write neither reports nor audits only let such threads die.
LEMMA AuditingShrinks ==
  ASSUME IsFiniteSet(Workers), TypeOK, AuditBehindReports, UNCHANGED reportVars,
         \A c \in Commands : Auditing(c)' \subseteq Auditing(c)
  PROVE  AuditBehindReports'
<1> SUFFICES ASSUME NEW c \in Commands
             PROVE  audits'[c] + Cardinality(Auditing(c)') <= Len(reports'[c])
  BY DEF AuditBehindReports, Auditing
<1>1. IsFiniteSet(Auditing(c))
  BY FS_Subset DEF Auditing
<1>2. /\ Cardinality(Auditing(c)') \in Nat /\ Cardinality(Auditing(c)) \in Nat
      /\ Cardinality(Auditing(c)') <= Cardinality(Auditing(c))
  BY <1>1, FS_Subset, FS_CardinalityType
<1>3. audits[c] + Cardinality(Auditing(c)) <= Len(reports[c])
  BY DEF AuditBehindReports, Auditing
<1>4. audits[c] \in Nat /\ Len(reports[c]) \in Nat
  BY DEF TypeOK
<1>5. QED
  BY <1>2, <1>3, <1>4 DEF reportVars

\* Recording a report adds its thread, writing the audit event takes it away.
LEMMA AuditStep ==
  ASSUME IsFiniteSet(Workers), TypeOK, AuditBehindReports, [Next]_vars
  PROVE  AuditBehindReports'
<1> USE DEF tableVars, eaVars, reportVars
<1>1. ASSUME NEW w \in Workers, ReportRecord(w), NEW c \in Commands
      PROVE  audits'[c] + Cardinality(Auditing(c)') <= Len(reports'[c])
  <2> DEFINE m == worker[w].msg
  <2>1. m \in Messages /\ worker[w].op = "record"
    BY <1>1, WorkerMessage DEF ReportRecord, TypeOK
  <2>2. /\ audits' = audits
        /\ reports' = [reports EXCEPT ![m.command] = Append(@, m.status)]
        /\ worker' = [worker EXCEPT ![w] = [op |-> "audit", msg |-> m]]
    BY <1>1 DEF ReportRecord
  <2>3. IsFiniteSet(Auditing(c)) /\ w \notin Auditing(c)
    BY <2>1, FS_Subset DEF Auditing
  <2>4. audits[c] + Cardinality(Auditing(c)) <= Len(reports[c])
    BY DEF AuditBehindReports, Auditing
  <2>5. /\ audits[c] \in Nat /\ Cardinality(Auditing(c)) \in Nat
        /\ reports[c] \in Seq(ReportStatuses)
    BY <2>3, FS_CardinalityType DEF TypeOK
  <2>6. CASE c = m.command
    <3>1. Auditing(c)' = Auditing(c) \cup {w}
      BY <2>2, <2>6 DEF Auditing, TypeOK
    <3>2. Cardinality(Auditing(c)') = Cardinality(Auditing(c)) + 1
      BY <2>3, <3>1, FS_AddElement
    <3>3. Len(reports'[c]) = Len(reports[c]) + 1
      BY <2>1, <2>2, <2>5, <2>6 DEF TypeOK, Messages
    <3>4. Len(reports[c]) \in Nat
      BY <2>5
    <3>5. QED
      BY <2>2, <2>4, <2>5, <3>2, <3>3, <3>4
  <2>7. CASE c # m.command
    <3>1. Auditing(c)' = Auditing(c)
      BY <2>1, <2>2, <2>7 DEF Auditing, TypeOK
    <3>2. reports'[c] = reports[c]
      BY <2>2, <2>7 DEF TypeOK
    <3>3. QED
      BY <2>2, <2>4, <3>1, <3>2
  <2>8. QED
    BY <2>6, <2>7
<1>2. ASSUME NEW w \in Workers, ReportAudit(w), NEW c \in Commands
      PROVE  audits'[c] + Cardinality(Auditing(c)') <= Len(reports'[c])
  <2> DEFINE m == worker[w].msg
  <2>1. m \in Messages /\ worker[w].op = "audit"
    BY <1>2, WorkerMessage DEF ReportAudit, TypeOK
  <2>2. /\ reports' = reports
        /\ audits' = [audits EXCEPT ![m.command] = @ + 1]
        /\ worker' = [worker EXCEPT ![w] = Idle]
    BY <1>2 DEF ReportAudit
  <2>3. audits[c] + Cardinality(Auditing(c)) <= Len(reports[c])
    BY DEF AuditBehindReports, Auditing
  <2>4. IsFiniteSet(Auditing(c))
    BY FS_Subset DEF Auditing
  <2>5. /\ audits[c] \in Nat /\ Cardinality(Auditing(c)) \in Nat
        /\ Len(reports[c]) \in Nat
    BY <2>4, FS_CardinalityType DEF TypeOK
  <2>6. CASE c = m.command
    <3>1. w \in Auditing(c) /\ Auditing(c)' = Auditing(c) \ {w}
      BY <2>1, <2>2, <2>6 DEF Auditing, TypeOK, Idle
    <3>2. Cardinality(Auditing(c)') = Cardinality(Auditing(c)) - 1
      BY <2>4, <3>1, FS_RemoveElement
    <3>3. audits'[c] = audits[c] + 1
      BY <2>2, <2>6 DEF TypeOK
    <3>4. QED
      BY <2>2, <2>3, <2>5, <3>2, <3>3
  <2>7. CASE c # m.command
    <3>1. Auditing(c)' = Auditing(c)
      BY <2>1, <2>2, <2>7 DEF Auditing, TypeOK, Idle
    <3>2. audits'[c] = audits[c]
      BY <2>2, <2>7 DEF TypeOK
    <3>3. QED
      BY <2>2, <2>3, <3>1, <3>2
  <2>8. QED
    BY <2>6, <2>7
<1>3. ASSUME NEW w \in Workers,
             PollFetch(w) \/ WorkerAbort(w) \/ (\E a \in RunningEAs : PollExpire(w, a))
               \/ \E m \in outbox : ReportCheck(w, m)
      PROVE  AuditBehindReports'
  <2>1. UNCHANGED reportVars /\ \A x \in Workers \ {w} : worker'[x] = worker[x]
    BY <1>3 DEF PollFetch, WorkerAbort, PollExpire, ReportCheck, TypeOK
  <2>2. worker'[w].op # "audit"
    BY <1>3 DEF PollFetch, WorkerAbort, PollExpire, ReportCheck, TypeOK, Idle
  <2>3. \A c \in Commands : Auditing(c)' \subseteq Auditing(c)
    BY <2>1, <2>2 DEF Auditing
  <2>4. QED
    BY <2>1, <2>3, AuditingShrinks
<1>4. ASSUME UNCHANGED <<worker, reports, audits>> PROVE AuditBehindReports'
  BY <1>4, AuditingShrinks DEF Auditing
<1>5. ASSUME NEW e \in Engines, EngineStep(e) PROVE UNCHANGED <<worker, reports, audits>>
  BY <1>5 DEF EngineStep, OpenCancel, OpenInsert, OpenAbort
<1>6. ASSUME NEW c \in Commands, Publish(c) PROVE UNCHANGED <<worker, reports, audits>>
  BY <1>6, PublishInserts
<1>7. ASSUME NEW c \in Commands, EAStep(c) PROVE UNCHANGED <<worker, reports, audits>>
  BY <1>7 DEF EAStep, EAFill, EARefuse, EATooLate, EARepeat, Send
<1>8. CASE ExpireOldCommands \/ Tick \/ UNCHANGED vars
  BY <1>4, <1>8 DEF ExpireOldCommands, Tick, vars
<1>9. ASSUME \A c \in Commands : audits'[c] + Cardinality(Auditing(c)') <= Len(reports'[c])
      PROVE  AuditBehindReports'
  BY <1>9 DEF AuditBehindReports, Auditing
<1>10. QED
  BY <1>1, <1>2, <1>3, <1>4, <1>5, <1>6, <1>7, <1>8, <1>9 DEF Next, WorkerStep

(***************************************************************************)
(* Every audit event of a report has a report row of its own, whatever       *)
(* request threads die between the two commits; the threads are finitely    *)
(* many.                                                                    *)
(***************************************************************************)
THEOREM AuditNeverAhead ==
  ASSUME IsFiniteSet(Workers)
  PROVE  Spec => []AuditBehindReports
<1>1. Init => AuditBehindReports
  <2> SUFFICES ASSUME Init, NEW c \in Commands
               PROVE  audits[c] + Cardinality(Auditing(c)) <= Len(reports[c])
    BY DEF AuditBehindReports, Auditing
  <2>1. Auditing(c) = {}
    BY DEF Init, Auditing, Idle
  <2>2. QED
    BY <2>1, FS_EmptySet DEF Init
<1>2. TypeOK /\ AuditBehindReports /\ [Next]_vars => AuditBehindReports'
  BY AuditStep
<1>3. QED
  BY <1>1, <1>2, TypeCorrect, PTL DEF Spec

(* ------------------------- How many live OPENs --------------------------- *)

(***************************************************************************)
(* However the engines interleave, an account never has more live OPENs     *)
(* than there are engines: each live one was written by a different engine. *)
(***************************************************************************)
THEOREM LiveOpensBounded ==
  ASSUME NEW a \in Accounts, IsFiniteSet(Engines)
  PROVE  Spec => [](Cardinality(LiveOpens(a)) <= Cardinality(Engines))
<1>1. Init => OpensInv
  BY DEF Init, OpensInv, OneOpenPerEngine, LiveOpens, ActiveStatuses
<1>2. ASSUME OpensInv PROVE Cardinality(LiveOpens(a)) <= Cardinality(Engines)
  <2> DEFINE f == [c \in LiveOpens(a) |-> opener[c]]
  <2>1. f \in [LiveOpens(a) -> Engines]
    BY <1>2 DEF OpensInv
  <2>2. \A c, d \in LiveOpens(a) : f[c] = f[d] => c = d
    BY <1>2 DEF OpensInv, OneOpenPerEngine
  <2>3. f \in Injection(LiveOpens(a), Engines)
    BY <2>1, <2>2 DEF Injection, IsInjective
  <2>4. QED
    BY <2>3, FS_Injection
<1>3. QED
  BY <1>1, <1>2, OpensStep, TypeCorrect, PTL DEF Spec

(* ------------------------------- Expiry ---------------------------------- *)

\* The bounds let every expiry pass before the clock stops: that of a row in the
\* table and that of a row an engine is about to insert.
ExpiryComes ==
    /\ \A c \in Commands : status[c] # "ABSENT" => expires[c] < MaxClock
    /\ \A e \in Engines : engine[e].op = "insert" => engine[e].now + Ttl["OPEN"] < MaxClock

LEMMA ExpiryComesStep == TypeOK /\ ReportsKnown /\ ExpiryComes /\ [Next]_vars => ExpiryComes'
<1> SUFFICES ASSUME TypeOK, ReportsKnown, ExpiryComes, [Next]_vars
             PROVE  ExpiryComes'
  OBVIOUS
<1> USE DEF tableVars, eaVars, reportVars
<1>1. ASSUME NEW d \in Commands, NEW s, NEW now \in Nat, Insert(d, s, now), s # "ABSENT",
             now + Ttl[KindOf[d]] < MaxClock
      PROVE  \A c \in Commands : status'[c] # "ABSENT" => expires'[c] < MaxClock
  BY <1>1 DEF Insert, ExpiryComes, TypeOK
<1>2. ASSUME NEW d \in Commands, Publish(d) PROVE ExpiryComes'
  <2>1. InTime(KindOf[d])
    BY <1>2 DEF Publish, CreateModifySl, CreateCloseFull, CreateClosePartial
  <2>2. PICK s \in {"AVAILABLE", "PENDING"} : Insert(d, s, clock)
    BY <1>2, PublishInserts
  <2>3. \A c \in Commands : status'[c] # "ABSENT" => expires'[c] < MaxClock
    BY <1>1, <2>1, <2>2 DEF InTime, TypeOK
  <2>4. engine' = engine
    BY <1>2, PublishInserts
  <2> QED
    BY <2>3, <2>4 DEF ExpiryComes
<1>3. ASSUME NEW e \in Engines, NEW a \in Accounts, OpenCancel(e, a) PROVE ExpiryComes'
  <2>1. clock + Ttl["OPEN"] < MaxClock
    BY <1>3 DEF OpenCancel, InTime
  <2>2. \A c \in Commands : status'[c] # "ABSENT" => expires'[c] < MaxClock
    BY <1>3 DEF OpenCancel, Replaceable, ActiveStatuses, ExpiryComes
  <2>3. ASSUME NEW f \in Engines, engine'[f].op = "insert"
        PROVE  engine'[f].now + Ttl["OPEN"] < MaxClock
    BY <1>3, <2>1, <2>3 DEF OpenCancel, ExpiryComes, TypeOK
  <2> QED
    BY <2>2, <2>3 DEF ExpiryComes
<1>4. ASSUME NEW e \in Engines, NEW x \in Commands, OpenInsert(e, x) PROVE ExpiryComes'
  <2>1. engine[e].op = "insert" /\ KindOf[x] = "OPEN" /\ Insert(x, "AVAILABLE", engine[e].now)
    BY <1>4 DEF OpenInsert
  <2>2. engine[e].now \in Nat /\ engine[e].now + Ttl["OPEN"] < MaxClock
    BY <2>1 DEF ExpiryComes, TypeOK, EngineStates, Idle
  <2>3. \A c \in Commands : status'[c] # "ABSENT" => expires'[c] < MaxClock
    BY <1>1, <2>1, <2>2
  <2>4. \A f \in Engines : engine'[f].op = "insert" => engine'[f] = engine[f]
    BY <1>4 DEF OpenInsert, TypeOK, Idle
  <2> QED
    BY <2>3, <2>4 DEF ExpiryComes
<1>5. ASSUME NEW e \in Engines, OpenAbort(e) PROVE ExpiryComes'
  <2>1. UNCHANGED <<status, expires>>
    BY <1>5 DEF OpenAbort
  <2>2. \A f \in Engines : engine'[f].op = "insert" => engine'[f] = engine[f]
    BY <1>5 DEF OpenAbort, TypeOK, Idle
  <2> QED
    BY <2>1, <2>2 DEF ExpiryComes
<1>6. ASSUME UNCHANGED <<expires, engine>>,
             \A c \in Commands : status'[c] # "ABSENT" => status[c] # "ABSENT"
      PROVE  ExpiryComes'
  BY <1>6 DEF ExpiryComes
<1>7. ASSUME NEW w \in Workers, ReportRecord(w) PROVE ExpiryComes'
  <2>1. worker[w].msg \in Messages /\ status[worker[w].msg.command] # "ABSENT"
    BY <1>7, WorkerMessage DEF ReportRecord, ReportsKnown, TypeOK
  <2>2. \A c \in Commands : status'[c] # "ABSENT" => status[c] # "ABSENT"
    BY <1>7, <2>1 DEF ReportRecord, Messages, TypeOK
  <2> QED
    BY <1>6, <1>7, <2>2 DEF ReportRecord
<1>8. ASSUME NEW w \in Workers,
             PollFetch(w) \/ ReportAudit(w) \/ WorkerAbort(w)
               \/ (\E a \in RunningEAs : PollExpire(w, a)) \/ \E m \in outbox : ReportCheck(w, m)
      PROVE  ExpiryComes'
  <2>1. UNCHANGED <<expires, engine>>
    BY <1>8 DEF PollFetch, ReportAudit, WorkerAbort, PollExpire, ReportCheck
  <2>2. \A c \in Commands : status'[c] # "ABSENT" => status[c] # "ABSENT"
    BY <1>8 DEF PollFetch, ReportAudit, WorkerAbort, PollExpire, ReportCheck, ActiveStatuses
  <2> QED
    BY <1>6, <2>1, <2>2
<1>9. ASSUME NEW c \in Commands, EAStep(c) PROVE ExpiryComes'
  BY <1>6, <1>9 DEF EAStep, EAFill, EARefuse, EATooLate, EARepeat, Send
<1>10. CASE ExpireOldCommands
  BY <1>6, <1>10 DEF ExpireOldCommands, ParkedStatuses
<1>11. CASE Tick \/ UNCHANGED vars
  BY <1>6, <1>11 DEF Tick, vars
<1>12. QED
  BY <1>2, <1>3, <1>4, <1>5, <1>7, <1>8, <1>9, <1>10, <1>11
     DEF Next, EngineStep, WorkerStep

\* A stopped clock has stopped.
LEMMA ClockStops ==
  ASSUME TypeOK, [Next]_vars, clock = MaxClock
  PROVE  clock' = MaxClock
<1>1. ASSUME NEW e \in Engines, EngineStep(e) PROVE clock' = clock
  BY <1>1 DEF EngineStep, OpenCancel, OpenInsert, OpenAbort
<1>2. ASSUME NEW c \in Commands, Publish(c) PROVE clock' = clock
  BY <1>2, PublishInserts
<1>3. ASSUME NEW w \in Workers, WorkerStep(w) PROVE clock' = clock
  BY <1>3 DEF WorkerStep, PollFetch, ReportAudit, WorkerAbort, PollExpire, ReportCheck,
              ReportRecord
<1>4. ASSUME NEW c \in Commands, EAStep(c) PROVE clock' = clock
  BY <1>4 DEF EAStep, EAFill, EARefuse, EATooLate, EARepeat, Send
<1>5. CASE ExpireOldCommands \/ UNCHANGED vars
  BY <1>5 DEF ExpireOldCommands, vars
<1>6. ~Tick
  BY ConstantsOK DEF Tick
<1> QED
  BY <1>1, <1>2, <1>3, <1>4, <1>5, <1>6 DEF Next

WorkerFinishes(w) == PollFetch(w) \/ ReportRecord(w) \/ ReportAudit(w)

\* Where a request thread goes: a fetch and an audit are its last steps, a
\* record is followed by the audit, and nobody else moves it.
LEMMA ThreadGoesOn ==
  ASSUME TypeOK, [Next]_vars, NEW w \in Workers
  PROVE  /\ worker[w].op = "fetch" => (worker[w].op = "fetch")' \/ (worker[w] = Idle)'
         /\ worker[w].op = "record" => \/ (worker[w].op = "record")'
                                       \/ (worker[w].op = "audit")'
                                       \/ (worker[w] = Idle)'
         /\ worker[w].op = "audit" => (worker[w].op = "audit")' \/ (worker[w] = Idle)'
         /\ WorkerFinishes(w) => \/ worker[w].op = "record" /\ (worker[w].op = "audit")'
                                 \/ (worker[w] = Idle)'
<1> DEFINE Goal ==
         /\ worker[w].op = "fetch" => (worker[w].op = "fetch")' \/ (worker[w] = Idle)'
         /\ worker[w].op = "record" => \/ (worker[w].op = "record")'
                                       \/ (worker[w].op = "audit")'
                                       \/ (worker[w] = Idle)'
         /\ worker[w].op = "audit" => (worker[w].op = "audit")' \/ (worker[w] = Idle)'
<1>1. Goal
  <2>1. ASSUME worker' = worker PROVE Goal
    BY <2>1
  <2>2. ASSUME NEW v \in Workers,
               (\E a \in RunningEAs : PollExpire(v, a)) \/ \E m \in outbox : ReportCheck(v, m)
        PROVE  Goal
    <3>1. worker[v] = Idle
      BY <2>2 DEF PollExpire, ReportCheck
    <3>2. \A x \in Workers \ {v} : worker'[x] = worker[x]
      BY <2>2 DEF PollExpire, ReportCheck, TypeOK
    <3>3. CASE w = v
      BY <3>1, <3>3 DEF Idle
    <3>4. CASE w # v
      BY <3>2, <3>4
    <3> QED
      BY <3>3, <3>4
  <2>3. ASSUME NEW v \in Workers, PollFetch(v) \/ ReportAudit(v) \/ WorkerAbort(v) PROVE Goal
    BY <2>3 DEF PollFetch, ReportAudit, WorkerAbort, TypeOK
  <2>4. ASSUME NEW v \in Workers, ReportRecord(v) PROVE Goal
    BY <2>4 DEF ReportRecord, TypeOK
  <2>5. ASSUME NEW e \in Engines, EngineStep(e) PROVE worker' = worker
    BY <2>5 DEF EngineStep, OpenCancel, OpenInsert, OpenAbort
  <2>6. ASSUME NEW c \in Commands, Publish(c) PROVE worker' = worker
    BY <2>6, PublishInserts
  <2>7. ASSUME NEW c \in Commands, EAStep(c) PROVE worker' = worker
    BY <2>7 DEF EAStep, EAFill, EARefuse, EATooLate, EARepeat, Send
  <2>8. ASSUME ExpireOldCommands \/ Tick \/ UNCHANGED vars PROVE worker' = worker
    BY <2>8 DEF ExpireOldCommands, Tick, vars
  <2> QED
    BY <2>1, <2>2, <2>3, <2>4, <2>5, <2>6, <2>7, <2>8 DEF Next, WorkerStep
<1>2. WorkerFinishes(w) => \/ worker[w].op = "record" /\ (worker[w].op = "audit")'
                           \/ (worker[w] = Idle)'
  BY DEF WorkerFinishes, PollFetch, ReportRecord, ReportAudit, TypeOK
<1> QED
  BY <1>1, <1>2

\* What the fairness of LiveSpec provides for one thread and one EA.  ENABLED is
\* beyond this prover, so the guards are written out: a thread can finish when
\* it is not idle, and a poll can be taken up when some thread is.
RequestsEnd(w) == []<>(worker[w] = Idle) \/ []<><<WorkerFinishes(w)>>_vars

ThreadFree == \E w \in Workers : worker[w] = Idle
PollOf(a) == \E w \in Workers : PollExpire(w, a)
PollsGoOn(a) == []<>ThreadFree => []<><<PollOf(a)>>_vars

(***************************************************************************)
(* Every command that a poll may serve is closed in the end: under any      *)
(* constants, if the requests of one thread end, the polls of one EA, of    *)
(* whatever account, find a thread, and the clock gets to its bound.        *)
(***************************************************************************)
THEOREM ActiveOnesAreClosed ==
  ASSUME NEW w \in Workers, NEW a \in RunningEAs
  PROVE  Spec /\ <>(clock = MaxClock) /\ RequestsEnd(w) /\ PollsGoOn(a)
         => ActiveEventuallyClosed
<1>1. Spec => [](TypeOK /\ ExpiryComes)
  <2>1. Init => ExpiryComes
    BY DEF Init, ExpiryComes, Idle
  <2> QED
    BY <2>1, ExpiryComesStep, QueueInvariants, PTL DEF Spec
<1> DEFINE F == worker[w].op = "fetch"
           R == worker[w].op = "record"
           A == worker[w].op = "audit"
           I == worker[w] = Idle
<1>2. TypeOK => (I \/ F \/ R \/ A) /\ ~(R /\ A) /\ (I => ThreadFree)
  BY DEF TypeOK, WorkerStates, ThreadFree
<1>3. TypeOK /\ [Next]_vars => /\ F => F' \/ I'
                               /\ R => R' \/ A' \/ I'
                               /\ A => A' \/ I'
                               /\ WorkerFinishes(w) => (R /\ A') \/ I'
  BY ThreadGoesOn
<1>4. RequestsEnd(w) <=> ([]<>I \/ []<><<WorkerFinishes(w)>>_vars)
  BY DEF RequestsEnd
<1> HIDE DEF F, R, A, I
<1>5. Spec /\ RequestsEnd(w) /\ PollsGoOn(a) => []<><<PollOf(a)>>_vars
  BY <1>1, <1>2, <1>3, <1>4, PTL DEF Spec, PollsGoOn
<1>6. ASSUME NEW c \in Commands
      PROVE  Spec /\ <>(clock = MaxClock) /\ RequestsEnd(w) /\ PollsGoOn(a)
             => (status[c] \in ActiveStatuses ~> status[c] \in TerminalStatuses)
  <2>1. TypeOK /\ [Next]_vars
        => /\ status[c] \in ActiveStatuses
                 => (status[c] \in ActiveStatuses)' \/ (status[c] \in TerminalStatuses)'
           /\ clock = MaxClock => (clock = MaxClock)'
    <3> SUFFICES ASSUME TypeOK, [Next]_vars
                 PROVE  /\ status[c] \in ActiveStatuses
                            => (status[c] \in ActiveStatuses)' \/ (status[c] \in TerminalStatuses)'
                        /\ clock = MaxClock => (clock = MaxClock)'
      OBVIOUS
    <3> QED
      BY RowMoves, ClockStops DEF ActiveStatuses, TerminalStatuses, ReportStatuses
  <2>2. TypeOK /\ ExpiryComes /\ clock = MaxClock /\ status[c] \in ActiveStatuses /\ PollOf(a)
        => (status[c] \in TerminalStatuses)'
    BY DEF ExpiryComes, PollOf, PollExpire, ActiveStatuses, TerminalStatuses, ReportStatuses
  <2> QED
    BY <1>1, <1>5, <2>1, <2>2, PTL DEF Spec
<1>7. QED
  BY <1>6 DEF ActiveEventuallyClosed

(***************************************************************************)
(* The queue implements its abstract specification, fairness included:      *)
(* CloseSome(c, "queued") can be taken exactly when c is queued, and no      *)
(* command is queued from some time on, which is what its weak fairness      *)
(* asks for.                                                                *)
(***************************************************************************)
THEOREM ImplementsLifecycleFairly ==
  ASSUME NEW w \in Workers, NEW a \in RunningEAs
  PROVE  Spec /\ <>(clock = MaxClock) /\ RequestsEnd(w) /\ PollsGoOn(a)
         => /\ Lifecycle!Spec
            /\ \A c \in Commands : []<>~(PhaseOf(status[c]) = "queued")
<1> DEFINE Hypotheses == Spec /\ <>(clock = MaxClock) /\ RequestsEnd(w) /\ PollsGoOn(a)
<1>1. ASSUME NEW c \in Commands
      PROVE  Hypotheses => []<>~(PhaseOf(status[c]) = "queued")
  <2>1. TypeOK => (PhaseOf(status[c]) = "queued" => status[c] \in ActiveStatuses)
    BY PhaseFacts DEF TypeOK
  <2>2. ~(status[c] \in ActiveStatuses /\ status[c] \in TerminalStatuses)
    BY DEF ActiveStatuses, TerminalStatuses, ReportStatuses
  <2>3. Hypotheses => (status[c] \in ActiveStatuses ~> status[c] \in TerminalStatuses)
    BY ActiveOnesAreClosed DEF ActiveEventuallyClosed
  <2>4. Hypotheses => Spec
    OBVIOUS
  <2> HIDE DEF Hypotheses
  <2> QED
    BY <2>1, <2>2, <2>3, <2>4, TypeCorrect, PTL
<1>2. Hypotheses => Lifecycle!Spec
  BY ImplementsLifecycleSafety
<1> QED
  BY <1>1, <1>2
=============================================================================
