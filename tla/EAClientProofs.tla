--------------------------- MODULE EAClientProofs ---------------------------
(***************************************************************************)
(* Proofs about EAClient, for any signals, header widths and bounds.       *)
(***************************************************************************)
EXTENDS EAClient, TLAPS, FiniteSetTheorems

\* A file without a header, or with the one AppendProcessedSignal writes, is
\* read back in full: every row's id, and nothing else, is compared.
LEMMA ReadableLedger ==
    ASSUME NEW l \in LedgerStates, l.header # "line", NEW s \in Signals
    PROVE  IsDuplicate(l, s) <=> \E k \in 1..Len(l.rows) : l.rows[k] = s
<1>1. CASE l = Missing
  BY <1>1, Z3 DEF Missing, IsDuplicate, IdPositions, Lines, RowWidth
<1>2. CASE l.header \in {"bare", "columns"}
  <2> DEFINE n == Len(l.rows)
             w == l.width
  <2>1. /\ w = (IF l.header = "columns" THEN 5 ELSE 0) /\ w \in Nat
        /\ l.rows \in Seq(Signals) /\ n \in Nat
    BY <1>2 DEF LedgerStates, Missing, RowWidth
  <2>2. IdPositions(l) = {i \in (w + 1)..(w + 5 * n) : (i - (w + 1)) % 5 = 0}
    BY <1>2, <2>1 DEF IdPositions, Lines, RowWidth
  <2>3. ASSUME NEW i \in IdPositions(l), Field(l, i) = s
        PROVE  \E k \in 1..n : l.rows[k] = s
    <3> DEFINE j == (i - w) - 1
    <3>1. i \in Int /\ w + 1 <= i /\ i <= w + 5 * n /\ j % 5 = 0
      <4>1. i \in (w + 1)..(w + 5 * n) /\ (i - (w + 1)) % 5 = 0
        BY <2>2, <2>3
      <4>2. w \in Nat /\ n \in Nat
        BY <2>1
      <4> HIDE DEF w, n
      <4>3. i \in Int /\ i - (w + 1) = j
        BY <4>1, <4>2
      <4> QED BY <4>1, <4>2, <4>3
    <3>2. j \in Int /\ 0 <= j /\ j < 5 * n
      <4>1. w \in Nat /\ n \in Nat
        BY <2>1
      <4> HIDE DEF w, n
      <4> QED BY <3>1, <4>1
    <3>3. Field(l, i) = l.rows[1 + j \div 5]
      BY <3>1, <3>2 DEF Field, RowWidth
    <3>4. 1 + j \div 5 \in 1..n
      BY <3>2, <2>1
    <3> QED BY <2>3, <3>3, <3>4
  <2>4. ASSUME NEW k \in 1..n, l.rows[k] = s
        PROVE  \E i \in IdPositions(l) : Field(l, i) = s
    <3> DEFINE i == w + (5 * (k - 1) + 1)
               j == (i - w) - 1
    <3>1. k \in Int /\ 1 <= k /\ k <= n /\ w \in Int
      BY <2>1
    <3>2. i \in Int /\ w + 1 <= i /\ i <= w + 5 * n
      BY <3>1, <2>1
    <3>3. j = 5 * (k - 1) /\ j >= 0 /\ j % 5 = 0 /\ j \div 5 = k - 1 /\ i - (w + 1) = j
      BY <3>1
    <3>4. i \in IdPositions(l)
      BY <2>2, <3>2, <3>3
    <3>5. Field(l, i) = l.rows[k]
      <4>1. Field(l, i) = l.rows[1 + j \div 5]
        BY <3>3 DEF Field, RowWidth
      <4> QED BY <4>1, <3>1, <3>3
    <3> QED BY <2>4, <3>4, <3>5
  <2> HIDE DEF n
  <2> QED BY <2>3, <2>4 DEF IsDuplicate, n
<1> QED BY <1>1, <1>2 DEF LedgerStates

\* A file with the one string RestoreLocalState writes is never found to hold
\* anything: the reader is out of step with the rows, by the width of the header.
THEOREM LineLedgerFindsNothing ==
    ASSUME NEW l \in LedgerStates, l.header = "line", NEW s \in Signals
    PROVE  ~IsDuplicate(l, s)
<1> SUFFICES ASSUME NEW i \in IdPositions(l) PROVE Field(l, i) # s
  BY DEF IsDuplicate
<1>0. l \in [header : {"line"}, width : HeaderWidths, rows : Seq(Signals)]
  BY DEF LedgerStates, Missing
<1>1. l.width \in 1..4 /\ Len(l.rows) \in Nat
  <2>1. l.width \in HeaderWidths /\ l.rows \in Seq(Signals)
    BY <1>0
  <2>2. l.width \in 1..4
    BY <2>1, EAConstantsOK DEF EAConstantsOK
  <2>3. Len(l.rows) \in Nat
    BY <2>1
  <2> QED BY <2>2, <2>3
<1>2. i \in Int /\ 1 <= i /\ (i - 1) % 5 = 0
  BY <1>1 DEF IdPositions, Lines, RowWidth
<1>3. (i - l.width - 1) % 5 # 0
  BY <1>1, <1>2
<1>4. Field(l, i) = NoSignal
  BY <1>3 DEF Field, RowWidth
<1> QED BY <1>4, EAConstantsOK DEF EAConstantsOK

-----------------------------------------------------------------------------
\* The rows of a file are signals, and a row more keeps it a file there may be.
LEMMA AppendedType ==
    ASSUME NEW l \in LedgerStates, NEW s \in Signals
    PROVE  /\ l.rows \in Seq(Signals)
           /\ Appended(l, s) \in LedgerStates
           /\ Rewritten(s) \in LedgerStates
           /\ Appended(l, s).rows = Append(l.rows, s)
           /\ Appended(l, s).header = "line" <=> l.header = "line"
<1>1. l.rows \in Seq(Signals)
  <2>1. CASE l = Missing
    BY <2>1 DEF Missing
  <2>2. CASE l # Missing
    BY <2>2 DEF LedgerStates
  <2> QED BY <2>1, <2>2
<1>2. Append(l.rows, s) \in Seq(Signals) /\ <<s>> \in Seq(Signals)
  BY <1>1
<1>3. Appended(l, s) \in LedgerStates
  BY <1>2 DEF Appended, LedgerStates, Missing
<1>4. Rewritten(s) \in LedgerStates
  BY <1>2 DEF Rewritten, LedgerStates
<1> QED BY <1>1, <1>3, <1>4 DEF Appended

\* Between the poll and the report there is a signal to process.
Busy == pc \in {"execute", "mark", "report"} => current \in Signals

Typed == EATypeOK /\ Busy

\* It holds before the first start,
LEMMA TypedInit == EAInit => Typed
<1> SUFFICES ASSUME EAInit PROVE Typed
  OBVIOUS
<1>1. ledger \in LedgerStates
  BY DEF EAInit, LedgerStates
<1>2. served \in Seq(Signals)
  BY DEF EAInit
<1>3. fills \in [Signals -> Nat] /\ lapses \in [Signals -> Nat]
  BY DEF EAInit
<1> QED BY <1>1, <1>2, <1>3 DEF EAInit, Typed, EATypeOK, Busy, Down

\* and every step of the EA, the server and the terminal keeps it.
LEMMA TypedStep == Typed /\ [EANext]_eaVars => Typed'
<1> SUFFICES ASSUME Typed, [EANext]_eaVars PROVE Typed'
  OBVIOUS
<1> USE DEF Typed, EATypeOK, Busy, sessionVars, brokerVars, historyVars, Down, Quiet
<1>1. CASE RestoreLocalState
  <2>1. ledger' \in LedgerStates
    <3>1. <<>> \in Seq(Signals)
      OBVIOUS
    <3> QED BY <1>1, <3>1 DEF RestoreLocalState, LedgerStates
  <2> QED BY <1>1, <2>1 DEF RestoreLocalState
<1>2. CASE Authenticate
  BY <1>2 DEF Authenticate
<1>3. CASE AuthenticateFails
  BY <1>3 DEF AuthenticateFails
<1>4. CASE OnTimer
  BY <1>4 DEF OnTimer
<1>5. CASE Heartbeat
  BY <1>5 DEF Heartbeat
<1>6. CASE PollFails
  BY <1>6 DEF PollFails
<1>7. CASE PollSignals
  <2>1. served # <<>> => Head(served) \in Signals
    OBVIOUS
  <2>2. lapses' \in [Signals -> Nat]
    BY <1>7, <2>1 DEF PollSignals, Count
  <2> QED BY <1>7, <2>1, <2>2 DEF PollSignals, Process
<1>8. CASE ExecuteOpen
  <2>1. current \in Signals /\ fills[current] \in Nat
    BY <1>8 DEF ExecuteOpen
  <2>2. fills' \in [Signals -> Nat] /\ positions' \in Nat
    BY <1>8, <2>1 DEF ExecuteOpen
  <2> QED BY <1>8, <2>1, <2>2 DEF ExecuteOpen
<1>9. CASE ExecuteClose
  BY <1>9 DEF ExecuteClose
<1>10. CASE MarkSignalProcessed
  <2>1. ledger' \in LedgerStates
    BY <1>10, AppendedType DEF MarkSignalProcessed
  <2> QED BY <1>10, <2>1 DEF MarkSignalProcessed, AfterMark
<1>11. CASE MarkFails
  <2>1. current \in Signals /\ lapses' = [lapses EXCEPT ![current] = @ + 1]
    BY <1>11 DEF MarkFails, Count
  <2>2. lapses' \in [Signals -> Nat]
    BY <2>1
  <2> QED BY <1>11, <2>2 DEF MarkFails, AfterMark
<1>12. CASE ReportExecution
  BY <1>12 DEF ReportExecution
<1>13. CASE Crash
  <2>1. lapses' \in [Signals -> Nat]
    <3>1. CASE pc = "mark"
      <4>1. current \in Signals /\ lapses[current] \in Nat
        BY <3>1
      <4>2. lapses' = [lapses EXCEPT ![current] = @ + 1]
        BY <1>13, <3>1 DEF Crash, Count
      <4> QED BY <4>1, <4>2
    <3>2. CASE pc # "mark"
      BY <1>13, <3>2 DEF Crash
    <3> QED BY <3>1, <3>2
  <2>2. mishaps' \in Nat
    BY <1>13 DEF Crash
  <2> QED BY <1>13, <2>1, <2>2 DEF Crash
<1>14. ASSUME NEW s \in Signals, Serve(s) PROVE Typed'
  BY <1>14 DEF Serve
<1>15. ASSUME NEW i \in 1..Len(served), Withdraw(i) PROVE Typed'
  <2>1. SubSeq(served, 1, i - 1) \in Seq(Signals)
    OBVIOUS
  <2>2. SubSeq(served, i + 1, Len(served)) \in Seq(Signals)
    OBVIOUS
  <2>3. served' \in Seq(Signals)
    BY <1>15, <2>1, <2>2 DEF Withdraw
  <2> QED BY <1>15, <2>3 DEF Withdraw
<1>16. CASE ForgetSession
  <2>1. losses' \in Nat
    BY <1>16 DEF ForgetSession
  <2>2. known' \in BOOLEAN
    BY <1>16, Zenon DEF ForgetSession
  <2>3. UNCHANGED <<live, pc, token, ledger, served, current, positions, fills,
                    lapses, mishaps>>
    BY <1>16, Zenon DEF ForgetSession
  <2> QED BY <2>1, <2>2, <2>3
<1>17. CASE UNCHANGED eaVars
  BY <1>17 DEF eaVars
<1>18. CASE PollUnread
  <2>1. Head(served) \in Signals
    BY <1>18 DEF PollUnread
  <2>2. lapses' \in [Signals -> Nat]
    BY <1>18, <2>1 DEF PollUnread, Count
  <2> QED BY <1>18, <2>1, <2>2 DEF PollUnread, Process
<1>19. CASE MarkRewrites
  <2>1. current \in Signals
    BY <1>19 DEF MarkRewrites
  <2>2. ledger' \in LedgerStates
    BY <1>19, <2>1, AppendedType DEF MarkRewrites
  <2>3. lapses' \in [Signals -> Nat]
    BY <1>19 DEF MarkRewrites
  <2> QED BY <1>19, <2>2, <2>3 DEF MarkRewrites, AfterMark
<1> QED
  <2>1. CASE OnTimerStep
    BY <2>1, <1>4, <1>5, <1>6, <1>7, <1>8, <1>9, <1>10, <1>11, <1>12, <1>18, <1>19
    DEF OnTimerStep
  <2>2. CASE Server
    BY <2>2, <1>14, <1>15, <1>16 DEF Server
  <2> HIDE DEF Typed, EATypeOK, Busy
  <2> QED BY <1>1, <1>2, <1>3, <1>13, <1>17, <2>1, <2>2 DEF EANext

\* Every reachable state of the EA has its type.
THEOREM EATypes == EASpec => []EATypeOK
<1>1. Typed => EATypeOK
  BY DEF Typed
<1> QED BY TypedInit, TypedStep, <1>1, PTL DEF EASpec

-----------------------------------------------------------------------------
\* At most once, and once more for each time the ledger failed the signal.

\* What a signal may have been filled beyond its lapses: nothing while an
\* execution of it is about to be sent, once when that was sent or has its line.
Due(s) ==
    IF \/ pc = "execute" /\ current = s
       \/ ~Written(s) /\ ~(pc = "mark" /\ current = s)
    THEN 0 ELSE 1

FillsInv == \A s \in Signals : fills[s] <= lapses[s] + Due(s)

\* A row more writes its signal and leaves the others as they were.
LEMMA MarkWrites ==
    ASSUME EATypeOK, current \in Signals, ledger' = Appended(ledger, current),
           NEW s \in Signals
    PROVE  Written(s)' <=> Written(s) \/ s = current
<1> DEFINE r == ledger.rows
<1>1. r \in Seq(Signals) /\ ledger'.rows = Append(r, current)
  BY AppendedType DEF EATypeOK
<1>2. (\E i \in 1..Len(Append(r, current)) : Append(r, current)[i] = s)
        <=> (\E i \in 1..Len(r) : r[i] = s) \/ s = current
  <2>1. Len(Append(r, current)) = Len(r) + 1 /\ Len(r) \in Nat
    BY <1>1
  <2>2. \A i \in 1..Len(r) : Append(r, current)[i] = r[i]
    BY <1>1
  <2>3. Append(r, current)[Len(r) + 1] = current
    BY <1>1
  <2> QED BY <2>1, <2>2, <2>3
<1> QED BY <1>1, <1>2 DEF Written

\* A file begun anew has the line of one signal.
LEMMA RewriteWrites ==
    ASSUME current \in Signals, ledger' = Rewritten(current), NEW s \in Signals
    PROVE  Written(s)' <=> s = current
<1>1. ledger'.rows = <<current>>
  BY DEF Rewritten
<1>2. (\E i \in 1..Len(<<current>>) : <<current>>[i] = s) <=> s = current
  OBVIOUS
<1> QED BY <1>1, <1>2 DEF Written

\* It holds before the first start,
LEMMA FillsInit == EAInit => FillsInv
BY DEF EAInit, FillsInv, Written, Missing, Due, Down

\* While the ledger stands, so does what is written in it.
LEMMA WrittenStays ==
    ASSUME ledger' = ledger, NEW s \in Signals
    PROVE  Written(s)' <=> Written(s)
BY DEF Written

\* Every step keeps it: a poll that goes on with a signal counts a lapse if the
\* signal has its line, and only what counts a lapse takes a line away.
LEMMA FillsStep == Typed /\ FillsInv /\ [EANext]_eaVars => FillsInv'
<1> SUFFICES ASSUME Typed, FillsInv, [EANext]_eaVars, NEW s \in Signals
             PROVE  fills'[s] <= lapses'[s] + Due(s)'
  BY DEF FillsInv
<1> DEFINE Goal == fills'[s] <= lapses'[s] + Due(s)'
<1>a. fills[s] \in Nat /\ lapses[s] \in Nat
  BY DEF Typed, EATypeOK
<1>b. fills[s] <= lapses[s] + Due(s)
  BY DEF FillsInv
<1>c. Due(s) \in {0, 1} /\ Due(s)' \in {0, 1}
  BY DEF Due
\* Most steps leave the ledger and the fills alone and start no processing.
<1>d. ASSUME Written(s)' <=> Written(s), UNCHANGED <<fills, lapses>>,
             pc # "mark", pc' # "execute"
      PROVE  Goal
  <2>1. Due(s) = 0 \/ Due(s)' = 1
    BY <1>d DEF Due
  <2> QED BY <1>a, <1>b, <1>c, <1>d, <2>1
<1>1. CASE RestoreLocalState
  <2>1. Written(s)' <=> Written(s)
    <3>1. CASE ledger.header # "none"
      BY <1>1, <3>1, WrittenStays DEF RestoreLocalState
    <3>2. CASE ledger.header = "none"
      <4>1. ledger = Missing
        BY <3>2 DEF Typed, EATypeOK, LedgerStates
      <4>2. ledger'.rows = <<>> /\ ledger.rows = <<>>
        BY <1>1, <3>2, <4>1 DEF RestoreLocalState, Missing
      <4> QED BY <4>2 DEF Written
    <3> QED BY <3>1, <3>2
  <2> QED BY <1>1, <2>1, <1>d DEF RestoreLocalState, brokerVars, historyVars, Down
<1>2. CASE Authenticate \/ AuthenticateFails \/ OnTimer \/ Heartbeat
           \/ PollFails \/ ReportExecution
  BY <1>2, <1>d, WrittenStays DEF Authenticate, AuthenticateFails, OnTimer, Heartbeat,
     PollFails, ReportExecution, brokerVars, historyVars, Quiet
\* A poll that goes on with a signal that has its line counts a lapse.
<1>e. ASSUME UNCHANGED <<ledger, fills>>, pc = "poll",
             NEW c \in Signals, Process(c),
             lapses' = IF Written(c) THEN [lapses EXCEPT ![c] = @ + 1] ELSE lapses
      PROVE  Goal
  <2>1. Written(s)' <=> Written(s)
    BY <1>e, WrittenStays
  <2>2. CASE s = c
    <3>1. lapses'[s] = lapses[s] + (IF Written(s) THEN 1 ELSE 0)
      BY <1>e, <2>2 DEF Typed, EATypeOK
    <3>2. Due(s) = (IF Written(s) THEN 1 ELSE 0)
      BY <1>e DEF Due
    <3> QED BY <1>a, <1>b, <1>c, <1>e, <3>1, <3>2
  <2>3. CASE s # c
    <3>1. lapses'[s] = lapses[s]
      BY <1>e, <2>3 DEF Typed, EATypeOK
    <3>2. Due(s)' = Due(s)
      BY <1>e, <2>1, <2>3 DEF Due, Process
    <3> QED BY <1>b, <1>e, <3>1, <3>2
  <2> QED BY <2>2, <2>3
<1>3. CASE PollSignals
  <2> DEFINE h == Head(served)
  <2>1. /\ UNCHANGED <<ledger, fills>> /\ pc = "poll"
        /\ served # <<>> => h \in Signals
    BY <1>3 DEF PollSignals, brokerVars, Typed, EATypeOK
  <2>2. CASE served = <<>> \/ IsDuplicate(ledger, h) \/ h \in Actionless
    BY <1>3, <2>1, <2>2, <1>d, WrittenStays DEF PollSignals, Quiet
  <2>3. CASE ~(served = <<>> \/ IsDuplicate(ledger, h) \/ h \in Actionless)
    <3>1. Process(h) /\ h \in Signals
      BY <1>3, <2>1, <2>3 DEF PollSignals
    <3>2. Written(h) => ledger.header = "line"
      BY <2>3, <3>1, ReadableLedger DEF Written, Typed, EATypeOK
    <3>3. lapses' = IF Written(h) THEN [lapses EXCEPT ![h] = @ + 1] ELSE lapses
      BY <1>3, <2>3, <3>2 DEF PollSignals, Count
    <3> HIDE DEF h
    <3> QED BY <2>1, <3>1, <3>3, <1>e
  <2> QED BY <2>2, <2>3
<1>4. CASE PollUnread
  <2> DEFINE h == Head(served)
  <2>1. /\ UNCHANGED <<ledger, fills>> /\ pc = "poll" /\ h \in Signals /\ Process(h)
        /\ lapses' = IF Written(h) THEN [lapses EXCEPT ![h] = @ + 1] ELSE lapses
    BY <1>4 DEF PollUnread, brokerVars, Typed, EATypeOK, Count
  <2> HIDE DEF h
  <2> QED BY <2>1, <1>e
<1>5. CASE ExecuteOpen
  <2>1. /\ UNCHANGED <<ledger, lapses, current>>
        /\ pc = "execute" /\ pc' = "mark" /\ current \in Signals
    BY <1>5 DEF ExecuteOpen, historyVars, Typed, Busy
  <2>2. \/ fills' = [fills EXCEPT ![current] = @ + 1]
        \/ fills' = fills
    BY <1>5 DEF ExecuteOpen
  <2>3. fills'[s] <= fills[s] + (IF current = s THEN 1 ELSE 0)
    BY <1>a, <2>1, <2>2 DEF Typed, EATypeOK
  <2>4. Due(s)' = IF current = s THEN 1 ELSE Due(s)
    BY <2>1, WrittenStays DEF Due
  <2>5. current = s => Due(s) = 0
    BY <2>1 DEF Due
  <2>6. fills'[s] \in Nat
    BY <1>a, <2>1, <2>2 DEF Typed, EATypeOK
  <2> QED BY <1>a, <1>b, <1>c, <2>1, <2>3, <2>4, <2>5, <2>6
<1>6. CASE ExecuteClose
  <2>1. /\ UNCHANGED <<ledger, lapses, current, fills>>
        /\ pc = "execute" /\ pc' = "mark"
    BY <1>6 DEF ExecuteClose, historyVars
  <2>2. Due(s) <= Due(s)'
    BY <2>1, WrittenStays DEF Due
  <2> QED BY <1>a, <1>b, <1>c, <2>1, <2>2
<1>7. CASE MarkSignalProcessed
  <2>1. /\ ledger' = Appended(ledger, current) /\ UNCHANGED <<fills, lapses>>
        /\ pc = "mark" /\ pc' \notin {"execute", "mark"} /\ current \in Signals
    BY <1>7 DEF MarkSignalProcessed, AfterMark, brokerVars, historyVars, Quiet, Typed, Busy
  <2>2. Written(s)' <=> Written(s) \/ s = current
    BY <2>1, MarkWrites DEF Typed
  <2>3. Due(s)' = Due(s)
    BY <2>1, <2>2 DEF Due
  <2> QED BY <1>b, <2>1, <2>3
<1>8. CASE MarkRewrites
  <2>1. /\ ledger' = Rewritten(current) /\ UNCHANGED fills
        /\ lapses'[s] = IF Written(s) /\ s # current THEN lapses[s] + 1 ELSE lapses[s]
        /\ pc = "mark" /\ pc' \notin {"execute", "mark"} /\ current \in Signals
    BY <1>8 DEF MarkRewrites, AfterMark, brokerVars, Quiet, Typed, Busy
  <2>2. Written(s)' <=> s = current
    BY <2>1, RewriteWrites
  <2>3. /\ Due(s) = IF Written(s) \/ s = current THEN 1 ELSE 0
        /\ Due(s)' = IF s = current THEN 1 ELSE 0
    BY <2>1, <2>2 DEF Due
  <2> QED BY <1>a, <1>b, <2>1, <2>3
\* What cuts an execution off from its line counts a lapse of it.
<1>f. ASSUME UNCHANGED <<ledger, fills>>, pc = "mark", pc' \notin {"execute", "mark"},
             lapses' = [lapses EXCEPT ![current] = @ + 1]
      PROVE  Goal
  <2>1. current \in Signals
    BY <1>f DEF Typed, Busy
  <2>2. lapses'[s] = lapses[s] + (IF s = current THEN 1 ELSE 0)
    BY <1>a, <1>f, <2>1 DEF Typed, EATypeOK
  <2>3. s # current => Due(s)' = Due(s)
    BY <1>f, WrittenStays DEF Due
  <2> QED BY <1>a, <1>b, <1>c, <1>f, <2>2, <2>3
<1>9. CASE MarkFails
  BY <1>9, <1>f DEF MarkFails, AfterMark, brokerVars, Quiet, Count
<1>10. CASE Crash
  <2>1. UNCHANGED <<ledger, fills>> /\ pc' \notin {"execute", "mark"}
    BY <1>10 DEF Crash, brokerVars, Down
  <2>2. CASE pc = "mark"
    BY <1>10, <2>1, <2>2, <1>f DEF Crash, Count
  <2>3. CASE pc # "mark"
    BY <1>10, <2>1, <2>3, <1>d, WrittenStays DEF Crash
  <2> QED BY <2>2, <2>3
<1>11. CASE Server \/ UNCHANGED eaVars
  <2>1. UNCHANGED <<ledger, fills, lapses, pc, current>>
    BY <1>11 DEF Server, Serve, Withdraw, ForgetSession, eaVars, brokerVars, historyVars
  <2>2. Due(s)' = Due(s)
    BY <2>1, WrittenStays DEF Due
  <2> QED BY <1>b, <2>1, <2>2
<1>12. CASE OnTimerStep
  BY <1>2, <1>3, <1>4, <1>5, <1>6, <1>7, <1>8, <1>9, <1>12 DEF OnTimerStep
<1> QED BY <1>1, <1>2, <1>10, <1>11, <1>12 DEF EANext

\* A signal is filled once, plus once for each time the ledger failed it, for any
\* signals, headers, crashes and files that fail to open.
THEOREM FilledOncePerLapse == EASpec => []AtMostOncePerLapse
<1>1. Typed /\ FillsInv => AtMostOncePerLapse
  <2> SUFFICES ASSUME Typed, FillsInv, NEW s \in Signals
               PROVE  fills[s] <= 1 + lapses[s]
    BY DEF AtMostOncePerLapse
  <2>1. fills[s] <= lapses[s] + Due(s) /\ Due(s) \in {0, 1}
    BY DEF FillsInv, Due
  <2>2. fills[s] \in Nat /\ lapses[s] \in Nat
    BY DEF Typed, EATypeOK
  <2> QED BY <2>1, <2>2
<1> QED BY TypedInit, TypedStep, FillsInit, FillsStep, <1>1, PTL DEF EASpec

-----------------------------------------------------------------------------
(* Liveness.  EAFairness in the form tlapm can use: the guard of an action    *)
(* in the place of ENABLED, which it equals, since every action here       *)
(* changes pc.                                                             *)

ThreadGoesOn ==
    /\ []<>~(pc = Down) \/ []<><<RestoreLocalState>>_eaVars
    /\ []<>~(pc \in {"init", "auth"}) \/ []<><<AuthenticateFails>>_eaVars
    /\ []<>~(pc = "poll") \/ []<><<PollFails>>_eaVars
    /\ \/ []<>~(pc \in {Quiet, "heartbeat", "report"})
       \/ []<><<OnTimer \/ Heartbeat \/ ReportExecution>>_eaVars
    /\ \/ []<>~(pc \in {"execute", "mark"})
       \/ []<><<ExecuteOpen \/ ExecuteClose \/ MarkSignalProcessed>>_eaVars

CanPoll ==
    /\ pc = "poll"
    /\ known
    /\ \/ served = <<>>
       \/ IsDuplicate(ledger, Head(served))
       \/ Head(served) \in Actionless
       \/ RowsOf(Head(served)) < MaxRows

RequestsAreAnswered ==
    /\ []<>(pc \in {"init", "auth"}) => []<><<Authenticate>>_eaVars
    /\ []<>CanPoll => []<><<PollSignals>>_eaVars

\* Crashes and failed appends come to an end.
MishapsEnd == <>[][mishaps' = mishaps]_eaVars

\* Of a behaviour of EASpec that says no more than that a count which only rises
\* stops at its bound.
LEMMA MishapsOnlyRise ==
    ASSUME Typed, [EANext]_eaVars
    PROVE  mishaps' = mishaps \/ (mishaps < MaxMishaps /\ mishaps' = mishaps + 1)
<1>1. CASE PollUnread \/ MarkRewrites \/ MarkFails \/ Crash
  BY <1>1 DEF PollUnread, MarkRewrites, MarkFails, Crash
<1>2. CASE ~(PollUnread \/ MarkRewrites \/ MarkFails \/ Crash)
  BY <1>2, Zenon DEF EANext, OnTimerStep, Server, RestoreLocalState, Authenticate,
     AuthenticateFails, OnTimer, Heartbeat, PollFails, PollSignals, ExecuteOpen,
     ExecuteClose, MarkSignalProcessed, ReportExecution, Serve, Withdraw,
     ForgetSession, historyVars, eaVars
<1> QED BY <1>1, <1>2

\* The first signal of the answers has nothing to wait for but the EA.
Waiting(s) ==
    /\ served # <<>> /\ Head(served) = s
    /\ ~Written(s)
    /\ ~(lapses[s] > 0)
    /\ ~(token /\ ~known)

\* A signal without a line is a duplicate of nothing, and no bound holds it back.
LEMMA WaitingCanPoll ==
    ASSUME EATypeOK, MaxRows > 0, NEW s \in Signals \ Actionless, Waiting(s),
           token, pc = "poll"
    PROVE  CanPoll /\ ~IsDuplicate(ledger, s)
<1>1. known
  BY DEF Waiting
<1>2. ~IsDuplicate(ledger, s)
  <2>1. CASE ledger.header = "line"
    BY <2>1, LineLedgerFindsNothing DEF EATypeOK
  <2>2. CASE ledger.header # "line"
    BY <2>2, ReadableLedger DEF EATypeOK, Waiting, Written
  <2> QED BY <2>1, <2>2
<1>3. RowsOf(s) = 0
  <2>1. {i \in 1..Len(ledger.rows) : ledger.rows[i] = s} = {}
    BY DEF Waiting, Written
  <2> QED BY <2>1, FS_EmptySet DEF RowsOf
<1> QED BY <1>1, <1>2, <1>3 DEF CanPoll, Waiting

\* Where the thread goes from each place while the signal waits and nothing
\* mishaps: to no place that is further from its line.
Processing(s) == pc \in {"execute", "mark"} /\ current = s

LEMMA WaitingSteps ==
    ASSUME Typed, [EANext]_eaVars, mishaps' = mishaps,
           NEW s \in Signals \ Actionless, Waiting(s), Waiting(s)'
    PROVE  /\ token => token'
           /\ pc = Down => pc' \in {Down, "init"}
           /\ pc = "init" => pc' \in {"init", Quiet}
           /\ pc = Quiet => pc' \in {Quiet, "auth", "heartbeat"}
           /\ pc = Quiet /\ token => pc' \in {Quiet, "heartbeat"}
           /\ pc = Quiet /\ ~token => pc' \in {Quiet, "auth"}
           /\ pc = "auth" => pc' \in {"auth", Quiet, "heartbeat"}
           /\ pc = "heartbeat" => pc' \in {"heartbeat", "poll"}
           /\ pc = "poll" => pc' \in {"poll", Quiet} \/ Processing(s)'
           /\ pc = "execute" => pc' \in {"execute", "mark"}
           /\ pc = "mark" => pc' \in {"mark", "report", Quiet}
           /\ pc = "report" => pc' \in {"report", Quiet}
           /\ Processing(s) => Processing(s)'
<1> DEFINE Goal ==
           /\ token => token'
           /\ pc = Down => pc' \in {Down, "init"}
           /\ pc = "init" => pc' \in {"init", Quiet}
           /\ pc = Quiet => pc' \in {Quiet, "auth", "heartbeat"}
           /\ pc = Quiet /\ token => pc' \in {Quiet, "heartbeat"}
           /\ pc = Quiet /\ ~token => pc' \in {Quiet, "auth"}
           /\ pc = "auth" => pc' \in {"auth", Quiet, "heartbeat"}
           /\ pc = "heartbeat" => pc' \in {"heartbeat", "poll"}
           /\ pc = "poll" => pc' \in {"poll", Quiet} \/ Processing(s)'
           /\ pc = "execute" => pc' \in {"execute", "mark"}
           /\ pc = "mark" => pc' \in {"mark", "report", Quiet}
           /\ pc = "report" => pc' \in {"report", Quiet}
           /\ Processing(s) => Processing(s)'
<1> SUFFICES Goal
  OBVIOUS
<1>0. ~Written(s) /\ ~Written(s)' /\ mishaps \in Nat
  BY DEF Waiting, Typed, EATypeOK
<1> USE DEF Processing, Down, Quiet, sessionVars
<1>1. CASE RestoreLocalState
  BY <1>1 DEF RestoreLocalState
<1>2. CASE Authenticate \/ AuthenticateFails
  BY <1>2 DEF Authenticate, AuthenticateFails
<1>3. CASE OnTimer \/ Heartbeat \/ PollFails \/ ReportExecution
  BY <1>3 DEF OnTimer, Heartbeat, PollFails, ReportExecution
<1>4. CASE PollSignals
  BY <1>4 DEF PollSignals, Process, Waiting
<1>5. CASE ExecuteOpen \/ ExecuteClose
  BY <1>5 DEF ExecuteOpen, ExecuteClose
<1>6. CASE MarkSignalProcessed
  <2>1. current # s
    BY <1>0, <1>6, MarkWrites DEF MarkSignalProcessed, Typed
  <2> QED BY <1>6, <2>1 DEF MarkSignalProcessed, AfterMark
<1>7. CASE PollUnread \/ MarkRewrites \/ MarkFails \/ Crash
  BY <1>0, <1>7 DEF PollUnread, MarkRewrites, MarkFails, Crash
<1>8. CASE Server \/ UNCHANGED eaVars
  <2>1. UNCHANGED <<pc, current, token>>
    BY <1>8 DEF Server, Serve, Withdraw, ForgetSession, eaVars
  <2> QED BY <2>1
<1>9. CASE OnTimerStep
  BY <1>3, <1>4, <1>5, <1>6, <1>7, <1>9 DEF OnTimerStep
<1> QED BY <1>1, <1>2, <1>7, <1>8, <1>9 DEF EANext

\* And where the steps that fairness promises take it.
LEMMA WaitingProgress ==
    ASSUME Typed, NEW s \in Signals \ Actionless, Waiting(s), Waiting(s)'
    PROVE  /\ RestoreLocalState => pc' = "init"
           /\ AuthenticateFails => pc' = Quiet
           /\ Authenticate => token'
           /\ PollFails => pc' = Quiet
           /\ PollSignals /\ ~IsDuplicate(ledger, s) => Processing(s)'
           /\ OnTimer \/ Heartbeat \/ ReportExecution =>
                 /\ pc = Quiet => pc' \in {"auth", "heartbeat"}
                 /\ pc = "heartbeat" => pc' = "poll"
                 /\ pc = "report" => pc' = Quiet
           /\ ExecuteOpen \/ ExecuteClose \/ MarkSignalProcessed =>
                 /\ pc = "execute" => pc' = "mark"
                 /\ pc = "mark" => pc' \in {"report", Quiet}
                 /\ ~(pc = "mark" /\ current = s)
<1> USE DEF Processing, Down, Quiet
<1>1. MarkSignalProcessed => ~(pc = "mark" /\ current = s)
  BY MarkWrites DEF MarkSignalProcessed, Typed, Waiting
<1> QED BY <1>1 DEF RestoreLocalState, AuthenticateFails, Authenticate, PollFails,
       PollSignals, Process, OnTimer, Heartbeat, ReportExecution, ExecuteOpen,
       ExecuteClose, MarkSignalProcessed, AfterMark, Waiting

(***************************************************************************)
(* The head of the answers is processed in the end.  If it waited for ever, *)
(* the EA would have its token for good some time, since it authenticates  *)
(* whenever it has none; then it would poll again and again, and the poll  *)
(* that is answered starts an execution that only its line can end.         *)
(***************************************************************************)
THEOREM HeadsAreProcessed ==
  ASSUME MaxRows > 0
  PROVE  EASpec /\ ThreadGoesOn /\ RequestsAreAnswered /\ MishapsEnd => HeadIsProcessed
<1>1. EASpec => []Typed
  BY TypedInit, TypedStep, PTL DEF EASpec
<1>2. ASSUME NEW s \in Signals \ Actionless
      PROVE  EASpec /\ ThreadGoesOn /\ RequestsAreAnswered /\ MishapsEnd => ~<>[]Waiting(s)
  <2> DEFINE W == Waiting(s)
             T == token
             PD == pc = Down
             PI == pc = "init"
             PL == pc = Quiet
             PA == pc = "auth"
             PH == pc = "heartbeat"
             PP == pc = "poll"
             PE == pc = "execute"
             PM == pc = "mark"
             PR == pc = "report"
             GA == pc \in {"init", "auth"}
             GT == pc \in {Quiet, "heartbeat", "report"}
             GE == pc \in {"execute", "mark"}
             X == Processing(s)
  <2>1. Typed => PD \/ PI \/ PL \/ PA \/ PH \/ PP \/ PE \/ PM \/ PR
    BY DEF Typed, EATypeOK
  <2>2. /\ GA <=> PI \/ PA
        /\ GT <=> PL \/ PH \/ PR
        /\ GE <=> PE \/ PM
        /\ X => GE
        /\ ~(PP /\ GE) /\ ~(PM /\ PE) /\ ~(PR /\ GE) /\ ~(PL /\ GE) /\ ~(PH /\ GE)
        /\ ~(PA /\ PL) /\ ~(PA /\ PH) /\ ~(PH /\ PL)
    BY DEF Processing, Down, Quiet
  <2>3. Typed /\ W /\ W' /\ [mishaps' = mishaps]_eaVars /\ [EANext]_eaVars =>
          /\ T => T'
          /\ PD => PD' \/ PI'
          /\ PI => PI' \/ PL'
          /\ PL => PL' \/ PA' \/ PH'
          /\ PL /\ T => PL' \/ PH'
          /\ PL /\ ~T => PL' \/ PA'
          /\ PA => PA' \/ PL' \/ PH'
          /\ PH => PH' \/ PP'
          /\ PP => PP' \/ PL' \/ X'
          /\ PE => PE' \/ PM'
          /\ PM => PM' \/ PR' \/ PL'
          /\ PR => PR' \/ PL'
          /\ X => X'
    BY WaitingSteps DEF eaVars
  <2>4. Typed /\ W /\ W' =>
          /\ <<RestoreLocalState>>_eaVars => PI'
          /\ <<AuthenticateFails>>_eaVars => PL'
          /\ <<Authenticate>>_eaVars => T'
          /\ <<PollFails>>_eaVars => PL'
          /\ <<OnTimer \/ Heartbeat \/ ReportExecution>>_eaVars =>
                /\ PL => PA' \/ PH'
                /\ PH => PP'
                /\ PR => PL'
          /\ <<ExecuteOpen \/ ExecuteClose \/ MarkSignalProcessed>>_eaVars =>
                /\ PE => PM'
                /\ PM => PR' \/ PL'
                /\ ~(PM /\ X)
    BY WaitingProgress DEF Processing
  <2>5. Typed /\ W /\ PP /\ T => CanPoll
    BY WaitingCanPoll DEF Typed
  <2>6. Typed /\ W /\ W' /\ T /\ <<PollSignals>>_eaVars => X'
    <3>1. PollSignals => PP
      BY DEF PollSignals
    <3> QED BY <3>1, WaitingProgress, WaitingCanPoll DEF Typed
  <2> HIDE DEF W, T, PD, PI, PL, PA, PH, PP, PE, PM, PR, GA, GT, GE, X
  <2> DEFINE Hyp == /\ []Typed /\ [][EANext]_eaVars /\ ThreadGoesOn
                    /\ RequestsAreAnswered /\ MishapsEnd
  <2>7. ThreadGoesOn =>
          /\ []<>~PD \/ []<><<RestoreLocalState>>_eaVars
          /\ []<>~GA \/ []<><<AuthenticateFails>>_eaVars
          /\ []<>~PP \/ []<><<PollFails>>_eaVars
          /\ []<>~GT \/ []<><<OnTimer \/ Heartbeat \/ ReportExecution>>_eaVars
          /\ []<>~GE \/ []<><<ExecuteOpen \/ ExecuteClose \/ MarkSignalProcessed>>_eaVars
    BY DEF ThreadGoesOn, PD, GA, PP, GT, GE
  <2>8. RequestsAreAnswered =>
          /\ []<>GA => []<><<Authenticate>>_eaVars
          /\ []<>CanPoll => []<><<PollSignals>>_eaVars
    BY DEF RequestsAreAnswered, GA
  <2> HIDE DEF Hyp
  <2>9. Hyp /\ <>[]W => []<>PL
    BY <2>1, <2>2, <2>3, <2>4, <2>7, PTL DEF Hyp, MishapsEnd
  <2>10. Hyp /\ <>[]W => <>[]T
    BY <2>2, <2>3, <2>4, <2>7, <2>8, <2>9, PTL DEF Hyp, MishapsEnd
  <2>11. Hyp /\ <>[]W => []<>PP
    BY <2>2, <2>3, <2>4, <2>7, <2>9, <2>10, PTL DEF Hyp, MishapsEnd
  <2>12. Hyp /\ <>[]W => <>[]X
    BY <2>3, <2>5, <2>6, <2>8, <2>10, <2>11, PTL DEF Hyp, MishapsEnd
  <2>13. Hyp /\ <>[]W => FALSE
    BY <2>2, <2>3, <2>4, <2>7, <2>9, <2>12, PTL DEF Hyp, MishapsEnd
  <2> QED BY <1>1, <2>13, PTL DEF Hyp, EASpec, W
<1>3. ASSUME NEW s \in Signals \ Actionless
      PROVE  EASpec /\ ThreadGoesOn /\ RequestsAreAnswered /\ MishapsEnd =>
               ((served # <<>> /\ Head(served) = s)
                 ~> (\/ Written(s)
                     \/ served = <<>> \/ Head(served) # s
                     \/ lapses[s] > 0
                     \/ token /\ ~known))
  <2> DEFINE H == served # <<>> /\ Head(served) = s
             G == \/ Written(s)
                  \/ served = <<>> \/ Head(served) # s
                  \/ lapses[s] > 0
                  \/ token /\ ~known
  <2>1. Waiting(s) \/ G
    BY DEF Waiting
  <2> HIDE DEF H, G
  <2>2. EASpec /\ ThreadGoesOn /\ RequestsAreAnswered /\ MishapsEnd => (H ~> G)
    BY <1>2, <2>1, PTL
  <2> QED BY <2>2 DEF H, G
<1> QED BY <1>3 DEF HeadIsProcessed
=============================================================================
