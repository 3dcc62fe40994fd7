--------------------------- MODULE SessionsProofs ---------------------------
(***************************************************************************)
(* Sessions for any number of licences, accounts, tokens and threads: whom *)
(* they speak for, and what the cleanup leaves alone.                      *)
(***************************************************************************)
EXTENDS Sessions, FiniteSetTheorems, TLAPS

LicenseRows == [state : {"absent", "valid", "revoked"}, expires : Nat]
Rows == [state : {"live", "gone"}, license : Licenses, account : Accounts, expires : Nat]

\* What a request thread has read is of the kind its next statement needs.
LEMMA ThreadParts ==
    ASSUME SesTypeOK, NEW w \in Threads
    PROVE  /\ thread[w].at \in {"licensed", "bound"} =>
                 thread[w].license \in Licenses /\ thread[w].account \in Accounts
           /\ thread[w].at = "bound" => thread[w].expires \in Nat
           /\ thread[w].at = "beat" =>
                 thread[w].token \in Tokens /\ thread[w].expires \in Nat
           /\ thread[w].at = "snapshot" => thread[w].account \in Accounts
BY DEF SesTypeOK, ThreadStates, AtRest

\* A token that somebody may use has a whole row.
LEMMA LiveParts ==
    ASSUME SesTypeOK, NEW t \in Tokens, sessions[t].state # "unused"
    PROVE  /\ sessions[t] \in Rows
           /\ sessions[t].license \in Licenses
           /\ sessions[t].account \in Accounts
BY DEF SesTypeOK, Rows, NoSession

\* The token of a new session has not been used before.
LEMMA FreshParts ==
    ASSUME SesTypeOK, Fresh # {}
    PROVE  (CHOOSE t \in Fresh : TRUE) \in Tokens
           /\ sessions[CHOOSE t \in Fresh : TRUE] = NoSession
<1>1. PICK t \in Fresh : TRUE
  OBVIOUS
<1>2. (CHOOSE u \in Fresh : TRUE) \in Fresh
  BY <1>1
<1>3. \A u \in Fresh : u \in Tokens /\ sessions[u] = NoSession
  BY DEF Fresh, SesTypeOK, NoSession
<1>4. QED
  BY <1>2, <1>3

(***************************************************************************)
(* The types are kept by every step.                                       *)
(***************************************************************************)
THEOREM SessionTypes == SesSpec => []SesTypeOK
<1> USE SessionsConstantsOK
<1>1. SesInit => SesTypeOK
  BY DEF SesInit, SesTypeOK, NoLicense, ThreadStates
<1>2. SesTypeOK /\ [SesNext]_sesVars => SesTypeOK'
  <2> SUFFICES ASSUME SesTypeOK, [SesNext]_sesVars
               PROVE  SesTypeOK'
    OBVIOUS
  <2>1. ASSUME NEW l \in Licenses, NEW e \in Terms, CreateLicense(l, e) \/ ExtendLicense(l, e)
        PROVE  SesTypeOK'
    <3>1. e \in Nat /\ licenses[l].state \in {"absent", "valid", "revoked"}
      BY DEF SesTypeOK
    <3>2. [state |-> "valid", expires |-> e] \in LicenseRows
      BY <3>1 DEF LicenseRows
    <3>3. [licenses[l] EXCEPT !.expires = e] \in LicenseRows
      BY <3>1 DEF LicenseRows, SesTypeOK
    <3>4. licenses' \in [Licenses -> LicenseRows]
      BY <2>1, <3>2, <3>3 DEF CreateLicense, ExtendLicense, SesTypeOK, LicenseRows
    <3>5. QED
      BY <2>1, <3>4 DEF CreateLicense, ExtendLicense, SesTypeOK, LicenseRows
  <2>2. ASSUME NEW l \in Licenses, RevokeLicense(l) PROVE SesTypeOK'
    <3>1. [licenses[l] EXCEPT !.state = "revoked"] \in LicenseRows
      BY DEF LicenseRows, SesTypeOK
    <3>2. licenses' \in [Licenses -> LicenseRows]
      BY <2>2, <3>1 DEF RevokeLicense, SesTypeOK, LicenseRows
    <3>3. QED
      BY <2>2, <3>2 DEF RevokeLicense, SesTypeOK, LicenseRows
  <2>3. ASSUME NEW l \in Licenses, NEW a \in Accounts, NEW b \in {"none", "bound", "suspended"},
               bindings' = [bindings EXCEPT ![l][a] = b],
               UNCHANGED <<time, licenses, sessions, snapshots, thread, sweep>>
        PROVE  SesTypeOK'
    <3>1. [bindings[l] EXCEPT ![a] = b] \in [Accounts -> {"none", "bound", "suspended"}]
      BY DEF SesTypeOK
    <3>2. QED
      BY <2>3, <3>1 DEF SesTypeOK
  <2>4. ASSUME NEW l \in Licenses, NEW a \in Accounts,
               \/ BindAccount(l, a)
               \/ UnbindAccount(l, a)
               \/ \E how \in {"bound", "suspended"} : SuspendAccount(l, a, how)
        PROVE  SesTypeOK'
    BY <2>3, <2>4 DEF BindAccount, UnbindAccount, SuspendAccount
  <2>5. ASSUME NEW w \in Threads, NEW l \in Licenses, NEW a \in Accounts, ActivateLicense(w, l, a)
        PROVE  SesTypeOK'
    BY <2>5 DEF ActivateLicense, SesTypeOK, ThreadStates
  <2>6. ASSUME NEW w \in Threads, ActivateBinding(w) PROVE SesTypeOK'
    BY <2>6, ThreadParts DEF ActivateBinding, SesTypeOK, ThreadStates
  <2>7. ASSUME NEW w \in Threads, ActivateInsert(w) PROVE SesTypeOK'
    <3>1. [state |-> "live", license |-> thread[w].license,
           account |-> thread[w].account, expires |-> thread[w].expires] \in Rows
      BY <2>7, ThreadParts DEF ActivateInsert, Rows
    <3>2. QED
      BY <2>7, <3>1, FreshParts DEF ActivateInsert, SesTypeOK, ThreadStates, Rows
  <2>8. ASSUME NEW w \in Threads, NEW t \in Tokens, HeartbeatRead(w, t) PROVE SesTypeOK'
    BY <2>8 DEF HeartbeatRead, SesTypeOK, ThreadStates
  <2>9. ASSUME NEW w \in Threads, HeartbeatWrite(w) PROVE SesTypeOK'
    <3>1. thread[w].token \in Tokens /\ thread[w].expires \in Nat
      BY <2>9, ThreadParts DEF HeartbeatWrite
    <3>2. Authenticated(thread[w].token) =>
             [sessions[thread[w].token] EXCEPT !.expires = thread[w].expires] \in Rows
      BY <3>1, LiveParts DEF Authenticated, Rows
    <3>3. sessions' \in [Tokens -> {NoSession} \cup Rows]
      BY <2>9, <3>1, <3>2 DEF HeartbeatWrite, SesTypeOK, Rows
    <3>4. thread' \in [Threads -> ThreadStates]
      BY <2>9 DEF HeartbeatWrite, SesTypeOK, ThreadStates
    <3>5. QED
      BY <2>9, <3>3, <3>4 DEF HeartbeatWrite, SesTypeOK, Rows
  <2>10. ASSUME NEW t \in Tokens, sessions[t].state = "live" PROVE Deleted(t) \in Rows
    BY <2>10, LiveParts DEF Deleted, Rows
  <2>11. ASSUME NEW t \in Tokens, Logout(t) PROVE SesTypeOK'
    BY <2>11, <2>10 DEF Logout, Authenticated, SesTypeOK, Rows
  <2>12. ASSUME NEW w \in Threads, NEW t \in Tokens, NEW a \in Accounts, SnapshotCheck(w, t, a)
         PROVE  SesTypeOK'
    BY <2>12 DEF SnapshotCheck, SesTypeOK, ThreadStates
  <2>19. ASSUME NEW w \in Threads, SnapshotInsert(w) PROVE SesTypeOK'
    <3>1. thread[w].account \in Accounts
      BY <2>19, ThreadParts DEF SnapshotInsert
    <3>2. QED
      BY <2>19, <3>1 DEF SnapshotInsert, SesTypeOK, ThreadStates
  <2>13. ASSUME NEW w \in Threads, ThreadAbort(w) PROVE SesTypeOK'
    BY <2>13 DEF ThreadAbort, SesTypeOK, ThreadStates
  <2>14. CASE SweepStart
    BY <2>14 DEF SweepStart, SesTypeOK
  <2>15. CASE SweepSessions
    <3>1. sessions' \in [Tokens -> {NoSession} \cup Rows]
      BY <2>15, <2>10 DEF SweepSessions, SesTypeOK, Rows
    <3>2. QED
      BY <2>15, <3>1 DEF SweepSessions, SesTypeOK, Rows
  <2>16. CASE TimePasses
    BY <2>16 DEF TimePasses, SesTypeOK
  <2>17. CASE UNCHANGED sesVars
    BY <2>17 DEF sesVars, SesTypeOK
  <2>18. QED
    BY <2>1, <2>2, <2>4, <2>5, <2>6, <2>7, <2>8, <2>9, <2>11, <2>12, <2>13,
       <2>14, <2>15, <2>16, <2>17, <2>19
       DEF SesNext, AdminNext, ClientNext, ThreadGoesOn
<1>3. QED
  BY <1>1, <1>2, PTL DEF SesSpec

-----------------------------------------------------------------------------
\* What one step can do to one session: write an unused one for an account
\* whose binding was read, move its expiry, or delete it; only the cleanup
\* deletes together with a change of sweep, and only what has run out for it.
RowMoves(t) ==
    \/ sessions'[t] = sessions[t]
    \/ /\ sessions[t].state = "unused"
       /\ sessions'[t].state = "live"
       /\ \E w \in Threads : /\ thread[w].at = "bound"
                             /\ sessions'[t].account = thread[w].account
       /\ UNCHANGED sweep
    \/ /\ sessions[t].state = "live"
       /\ sessions'[t].license = sessions[t].license
       /\ sessions'[t].account = sessions[t].account
       /\ \/ sessions'[t].state = "live"
          \/ /\ sessions'[t].state = "gone"
             /\ \/ UNCHANGED sweep
                \/ sweep.at = "delete" /\ sessions[t].expires < sweep.now

\* Every step moves every session in one of these ways.
LEMMA EveryRowMoves ==
    ASSUME SesTypeOK, [SesNext]_sesVars, NEW t \in Tokens
    PROVE  RowMoves(t)
<1>1. ASSUME NEW w \in Threads, ActivateInsert(w) PROVE RowMoves(t)
  <2> DEFINE row == [state |-> "live", license |-> thread[w].license,
                     account |-> thread[w].account, expires |-> thread[w].expires]
             u == CHOOSE v \in Fresh : TRUE
  <2>1. u \in Tokens /\ sessions[u].state = "unused" /\ thread[w].at = "bound"
    BY <1>1, FreshParts DEF ActivateInsert, NoSession
  <2>2. sessions'[t] = IF t = u THEN row ELSE sessions[t]
    BY <1>1, <2>1 DEF ActivateInsert, SesTypeOK
  <2>3. UNCHANGED sweep
    BY <1>1 DEF ActivateInsert
  <2>4. CASE t = u
    <3>1. sessions'[t] = row /\ sessions[t].state = "unused"
      BY <2>1, <2>2, <2>4
    <3>2. row.state = "live" /\ row.account = thread[w].account
      OBVIOUS
    <3>3. sessions'[t].state = "live" /\ sessions'[t].account = thread[w].account
      BY <3>1, <3>2
    <3> HIDE DEF row, u
    <3>4. QED
      BY <2>1, <2>3, <3>1, <3>3 DEF RowMoves
  <2>5. CASE t # u
    BY <2>2, <2>5 DEF RowMoves
  <2>6. QED
    BY <2>4, <2>5
<1>2. ASSUME NEW w \in Threads, HeartbeatWrite(w) PROVE RowMoves(t)
  <2>1. thread[w].token \in Tokens
    BY <1>2, ThreadParts DEF HeartbeatWrite
  <2>2. CASE t = thread[w].token /\ Authenticated(t)
    <3>1. sessions'[t] = [sessions[t] EXCEPT !.expires = thread[w].expires]
      BY <1>2, <2>2 DEF HeartbeatWrite, SesTypeOK
    <3>2. sessions[t] \in Rows /\ sessions[t].state = "live"
      BY <2>2, LiveParts DEF Authenticated
    <3>3. QED
      BY <3>1, <3>2 DEF RowMoves, Rows
  <2>3. CASE ~(t = thread[w].token /\ Authenticated(t))
    BY <1>2, <2>1, <2>3 DEF HeartbeatWrite, SesTypeOK, RowMoves
  <2>4. QED
    BY <2>2, <2>3
<1>3. ASSUME sessions[t].state = "live"
      PROVE  /\ Deleted(t).state = "gone"
             /\ Deleted(t).license = sessions[t].license
             /\ Deleted(t).account = sessions[t].account
  BY <1>3, LiveParts DEF Deleted, Rows
<1>4. ASSUME NEW u \in Tokens, Logout(u) PROVE RowMoves(t)
  <2>1. sessions' = [sessions EXCEPT ![u] = Deleted(u)] /\ UNCHANGED sweep
    BY <1>4 DEF Logout
  <2>2. CASE t = u
    <3>1. sessions'[t] = Deleted(t) /\ sessions[t].state = "live"
      BY <1>4, <2>1, <2>2 DEF Logout, Authenticated, SesTypeOK
    <3>2. QED
      BY <1>3, <2>1, <3>1 DEF RowMoves
  <2>3. CASE t # u
    BY <2>1, <2>3 DEF RowMoves, SesTypeOK
  <2>4. QED
    BY <2>2, <2>3
<1>5. CASE SweepSessions
  BY <1>3, <1>5 DEF SweepSessions, RowMoves
<1>6. CASE UNCHANGED sessions
  BY <1>6 DEF RowMoves
<1>7. QED
  BY <1>1, <1>2, <1>4, <1>5, <1>6
     DEF SesNext, AdminNext, ClientNext, ThreadGoesOn, CreateLicense, ExtendLicense,
         RevokeLicense, BindAccount, UnbindAccount, SuspendAccount, ActivateLicense,
         ActivateBinding, HeartbeatRead, SnapshotCheck, SnapshotInsert, ThreadAbort,
         SweepStart, TimePasses, sesVars

-----------------------------------------------------------------------------
\* The binding was looked at once, and what it said is carried along: from the
\* table to the thread, from there to the session, from there to the snapshot.
OriginInv ==
    /\ \A l \in Licenses, a \in Accounts : bindings[l][a] # "none" => a \in Customers
    /\ \A w \in Threads : thread[w].at = "bound" => thread[w].account \in Customers
    /\ \A t \in Tokens : sessions[t].state # "unused" => sessions[t].account \in Customers
    /\ \A w \in Threads : thread[w].at = "snapshot" =>
          \E t \in Tokens : /\ sessions[t].state # "unused"
                            /\ sessions[t].account = thread[w].account
    /\ SnapshotsAreOwn

\* Every step keeps the origin of what is written.
LEMMA OriginStep == SesTypeOK /\ OriginInv /\ [SesNext]_sesVars => OriginInv'
<1> SUFFICES ASSUME SesTypeOK, OriginInv, [SesNext]_sesVars
             PROVE  OriginInv'
  OBVIOUS
<1>1. \A l \in Licenses, a \in Accounts : bindings'[l][a] # "none" => a \in Customers
  <2>1. ASSUME NEW m \in Licenses, NEW b \in Accounts,
               BindAccount(m, b) \/ UnbindAccount(m, b)
                 \/ \E how \in {"bound", "suspended"} : SuspendAccount(m, b, how)
        PROVE  \A l \in Licenses, a \in Accounts : bindings'[l][a] # "none" => a \in Customers
    <3>1. \A l \in Licenses, a \in Accounts : bindings[l][a] # "none" => a \in Customers
      BY DEF OriginInv
    <3>2. bindings \in [Licenses -> [Accounts -> {"none", "bound", "suspended"}]]
      BY DEF SesTypeOK
    <3>3. QED
      BY <2>1, <3>1, <3>2 DEF BindAccount, UnbindAccount, SuspendAccount
  <2>2. CASE UNCHANGED bindings
    BY <2>2 DEF OriginInv
  <2>3. QED
    BY <2>1, <2>2
       DEF SesNext, AdminNext, ClientNext, ThreadGoesOn, CreateLicense, ExtendLicense,
           RevokeLicense, ActivateLicense, ActivateBinding, ActivateInsert, HeartbeatRead,
           HeartbeatWrite, Logout, SnapshotCheck, SnapshotInsert, ThreadAbort, SweepStart, SweepSessions,
           TimePasses, sesVars
<1>2. \A w \in Threads : thread'[w].at = "bound" => thread'[w].account \in Customers
  <2>1. ASSUME NEW v \in Threads, ActivateBinding(v)
        PROVE  \A w \in Threads : thread'[w].at = "bound" => thread'[w].account \in Customers
    <3>1. thread[v].license \in Licenses /\ thread[v].account \in Accounts
      BY <2>1, ThreadParts DEF ActivateBinding
    <3>2. QED
      BY <2>1, <3>1 DEF ActivateBinding, OriginInv, SesTypeOK, AtRest
  <2>2. ASSUME NEW v \in Threads, NEW x, x.at # "bound", thread' = [thread EXCEPT ![v] = x]
        PROVE  \A w \in Threads : thread'[w].at = "bound" => thread'[w].account \in Customers
    BY <2>2 DEF OriginInv, SesTypeOK
  <2>3. ASSUME NEW v \in Threads,
               \/ \E l \in Licenses, a \in Accounts : ActivateLicense(v, l, a)
               \/ \E t \in Tokens : HeartbeatRead(v, t)
               \/ \E t \in Tokens, a \in Accounts : SnapshotCheck(v, t, a)
               \/ ActivateInsert(v) \/ HeartbeatWrite(v) \/ SnapshotInsert(v) \/ ThreadAbort(v)
        PROVE  \A w \in Threads : thread'[w].at = "bound" => thread'[w].account \in Customers
    BY <2>2, <2>3
       DEF ActivateLicense, HeartbeatRead, SnapshotCheck, ActivateInsert, HeartbeatWrite,
           SnapshotInsert, ThreadAbort, AtRest
  <2>4. CASE UNCHANGED thread
    BY <2>4 DEF OriginInv
  <2>5. QED
    BY <2>1, <2>3, <2>4
       DEF SesNext, AdminNext, ClientNext, ThreadGoesOn, CreateLicense, ExtendLicense,
           RevokeLicense, BindAccount, UnbindAccount, SuspendAccount, Logout,
           SweepStart, SweepSessions, TimePasses, sesVars
<1>3. ASSUME NEW t \in Tokens, sessions'[t].state # "unused"
      PROVE  sessions'[t].account \in Customers
  BY <1>3, EveryRowMoves DEF OriginInv, RowMoves
<1>4. SnapshotsAreOwn'
  <2>1. ASSUME NEW a \in snapshots
        PROVE  a \in Customers /\ \E t \in Tokens : sessions'[t].account = a
    <3>1. a \in Customers
      BY <2>1 DEF OriginInv, SnapshotsAreOwn
    <3>2. PICK t \in Tokens : sessions[t].account = a
      BY <2>1 DEF OriginInv, SnapshotsAreOwn
    <3>3. sessions[t].state # "unused"
      BY <3>1, <3>2, SessionsConstantsOK DEF SesTypeOK, NoSession
    <3>4. sessions'[t].account = a
      BY <3>2, <3>3, EveryRowMoves DEF RowMoves
    <3>5. QED
      BY <3>1, <3>4
  <2>2. ASSUME NEW w \in Threads, SnapshotInsert(w)
        PROVE  SnapshotsAreOwn'
    <3>1. PICK u \in Tokens : sessions[u].state # "unused" /\ sessions[u].account = thread[w].account
      BY <2>2 DEF SnapshotInsert, OriginInv
    <3>2. thread[w].account \in Customers /\ sessions' = sessions
      BY <2>2, <3>1 DEF SnapshotInsert, OriginInv
    <3>3. QED
      BY <2>1, <2>2, <3>1, <3>2 DEF SnapshotInsert, SnapshotsAreOwn
  <2>3. CASE UNCHANGED snapshots
    BY <2>1, <2>3 DEF SnapshotsAreOwn
  <2>4. QED
    BY <2>2, <2>3
       DEF SesNext, AdminNext, ClientNext, ThreadGoesOn, CreateLicense, ExtendLicense,
           RevokeLicense, BindAccount, UnbindAccount, SuspendAccount, ActivateLicense,
           ActivateBinding, ActivateInsert, HeartbeatRead, HeartbeatWrite, Logout, SnapshotCheck,
           ThreadAbort, SweepStart, SweepSessions, TimePasses, sesVars
<1>6. \A w \in Threads : thread'[w].at = "snapshot" =>
         \E t \in Tokens : sessions'[t].state # "unused" /\ sessions'[t].account = thread'[w].account
  <2> DEFINE Issuees ==
               {sessions'[t].account : t \in {u \in Tokens : sessions'[u].state # "unused"}}
             Right(w) == thread'[w].at = "snapshot" => thread'[w].account \in Issuees
  <2>1. ASSUME NEW t \in Tokens, sessions[t].state # "unused"
        PROVE  sessions[t].account \in Issuees
    BY <2>1, EveryRowMoves DEF RowMoves
  <2>2. ASSUME NEW w \in Threads, thread[w].at = "snapshot"
        PROVE  thread[w].account \in Issuees
    <3>1. PICK t \in Tokens : sessions[t].state # "unused" /\ sessions[t].account = thread[w].account
      BY <2>2 DEF OriginInv
    <3>2. QED
      BY <2>1, <3>1
  <2> HIDE DEF Issuees
  <2>3. ASSUME NEW v \in Threads, NEW t \in Tokens, NEW a \in Accounts, SnapshotCheck(v, t, a),
               NEW w \in Threads
        PROVE  Right(w)
    <3>1. a \in Issuees
      BY <2>1, <2>3 DEF SnapshotCheck, Authenticated
    <3>2. QED
      BY <2>2, <2>3, <3>1 DEF SnapshotCheck, SesTypeOK
  <2>4. ASSUME NEW v \in Threads, NEW x, x.at # "snapshot", thread' = [thread EXCEPT ![v] = x],
               NEW w \in Threads
        PROVE  Right(w)
    BY <2>2, <2>4 DEF SesTypeOK
  <2>5. ASSUME NEW v \in Threads, NEW w \in Threads,
               \/ \E l \in Licenses, a \in Accounts : ActivateLicense(v, l, a)
               \/ \E t \in Tokens : HeartbeatRead(v, t)
               \/ ThreadGoesOn(v)
        PROVE  Right(w)
    <3>1. CASE ActivateBinding(v)
      BY <2>2, <3>1 DEF ActivateBinding, AtRest, SesTypeOK
    <3>2. QED
      BY <2>4, <2>5, <3>1
         DEF ActivateLicense, HeartbeatRead, ThreadGoesOn, ActivateInsert,
             HeartbeatWrite, SnapshotInsert, ThreadAbort, AtRest
  <2>6. ASSUME UNCHANGED thread, NEW w \in Threads
        PROVE  Right(w)
    BY <2>2, <2>6
  <2>7. ASSUME NEW w \in Threads
        PROVE  Right(w)
    BY <2>3, <2>5, <2>6
       DEF SesNext, AdminNext, ClientNext, CreateLicense, ExtendLicense,
           RevokeLicense, BindAccount, UnbindAccount, SuspendAccount, Logout,
           SweepStart, SweepSessions, TimePasses, sesVars
  <2>8. QED
    BY <2>7 DEF Issuees
<1>5. QED
  BY <1>1, <1>2, <1>3, <1>4, <1>6 DEF OriginInv

(***************************************************************************)
(* A position snapshot belongs to an account that an administrator bound   *)
(* and that held a session.                                                *)
(***************************************************************************)
THEOREM SnapshotsStayOwn == SesSpec => []SnapshotsAreOwn
<1>1. SesInit => OriginInv
  BY DEF SesInit, OriginInv, SnapshotsAreOwn, AtRest, NoSession
<1>2. OriginInv => SnapshotsAreOwn
  BY DEF OriginInv
<1>3. QED
  BY <1>1, <1>2, OriginStep, SessionTypes, PTL DEF SesSpec

-----------------------------------------------------------------------------
\* The sweep's time has come.
JobInv == sweep.at = "delete" => sweep.now <= time

\* The time only goes on while the sweep's time stays.
LEMMA JobStep == SesTypeOK /\ JobInv /\ [SesNext]_sesVars => JobInv'
<1> SUFFICES ASSUME SesTypeOK, JobInv, [SesNext]_sesVars
             PROVE  JobInv'
  OBVIOUS
<1>1. CASE SweepStart
  BY <1>1 DEF SweepStart, JobInv, SesTypeOK
<1>2. CASE SweepSessions
  BY <1>2 DEF SweepSessions, JobInv, AtRest
<1>3. CASE TimePasses
  <2>1. time' = time + 1 /\ sweep' = sweep /\ time \in Nat
    BY <1>3 DEF TimePasses, SesTypeOK
  <2>2. sweep.at = "delete" => sweep.now \in Nat
    BY DEF SesTypeOK, AtRest
  <2>3. QED
    BY <2>1, <2>2 DEF JobInv
<1>4. CASE UNCHANGED <<time, sweep>>
  BY <1>4 DEF JobInv
<1>5. QED
  BY <1>1, <1>2, <1>3, <1>4
     DEF SesNext, AdminNext, ClientNext, ThreadGoesOn, CreateLicense, ExtendLicense,
         RevokeLicense, BindAccount, UnbindAccount, SuspendAccount, ActivateLicense,
         ActivateBinding, ActivateInsert, HeartbeatRead, HeartbeatWrite, Logout,
         SnapshotCheck, SnapshotInsert, ThreadAbort, sesVars

(***************************************************************************)
(* The cleanup deletes only what has run out, also when a heartbeat comes  *)
(* between the moment it reads its time and its statement.                 *)
(***************************************************************************)
THEOREM BeatenSessionsAreKept == SesSpec => BeatenSessionsStay
<1>1. SesInit => JobInv
  BY DEF SesInit, JobInv, AtRest
<1>2. SesTypeOK /\ JobInv /\ [SesNext]_sesVars
      => [\A t \in Tokens :
            (sweep # sweep' /\ sessions[t].state = "live" /\ sessions'[t].state = "gone")
               => sessions[t].expires < time]_sesVars
  <2> SUFFICES ASSUME SesTypeOK, JobInv, [SesNext]_sesVars, NEW t \in Tokens,
                      sweep # sweep', sessions[t].state = "live", sessions'[t].state = "gone"
               PROVE  sessions[t].expires < time
    OBVIOUS
  <2>1. sweep.at = "delete" /\ sessions[t].expires < sweep.now
    BY EveryRowMoves DEF RowMoves
  <2>2. sweep.now \in Nat /\ time \in Nat /\ sessions[t].expires \in Nat
    BY <2>1, LiveParts DEF SesTypeOK, Rows, AtRest
  <2>3. QED
    BY <2>1, <2>2 DEF JobInv
<1>3. QED
  BY <1>1, <1>2, JobStep, SessionTypes, PTL DEF SesSpec, BeatenSessionsStay

-----------------------------------------------------------------------------
(***************************************************************************)
(* A token is handed out once, for one account, and does not come back     *)
(* after logout or cleanup, whatever a heartbeat had read before.          *)
(***************************************************************************)
THEOREM TokensHaveOneLife == SesSpec => ImplementsTokenLifecycle
<1>1. SesInit => Lifecycle!Init
  BY DEF SesInit, Lifecycle!Init, PhaseOf, HolderOf, NoSession
<1>2. SesTypeOK /\ [SesNext]_sesVars => [Lifecycle!Next]_<<PhaseOf, HolderOf>>
  <2> SUFFICES ASSUME SesTypeOK, [SesNext]_sesVars
               PROVE  Lifecycle!Next \/ UNCHANGED <<PhaseOf, HolderOf>>
    OBVIOUS
  <2>1. ASSUME NEW w \in Threads, ActivateInsert(w)
        PROVE  Lifecycle!Next
    <3> DEFINE u == CHOOSE v \in Fresh : TRUE
               h == <<thread[w].license, thread[w].account>>
    <3>1. u \in Tokens /\ sessions[u].state = "unused" /\ h \in Licenses \X Accounts
      BY <2>1, FreshParts, ThreadParts DEF ActivateInsert, NoSession
    <3>2. \A t \in Tokens : sessions'[t] = IF t = u
                                            THEN [state |-> "live", license |-> thread[w].license,
                                                  account |-> thread[w].account,
                                                  expires |-> thread[w].expires]
                                            ELSE sessions[t]
      BY <2>1, <3>1 DEF ActivateInsert, SesTypeOK
    <3>3. \A t \in Tokens :
             /\ sessions'[t].state = IF t = u THEN "live" ELSE sessions[t].state
             /\ <<sessions'[t].license, sessions'[t].account>>
                  = IF t = u THEN h ELSE <<sessions[t].license, sessions[t].account>>
      BY <3>2
    <3> HIDE DEF u, h
    <3>4. PhaseOf' = [PhaseOf EXCEPT ![u] = "live"]
      BY <3>1, <3>3 DEF PhaseOf
    <3>5. HolderOf' = [HolderOf EXCEPT ![u] = h]
      BY <3>1, <3>3 DEF HolderOf
    <3>6. Lifecycle!Grant(u, h)
      BY <3>1, <3>4, <3>5 DEF Lifecycle!Grant, PhaseOf
    <3>7. QED
      BY <3>1, <3>6 DEF Lifecycle!Next
  <2>2. ASSUME NEW S \in SUBSET Tokens, \A t \in S : sessions[t].state = "live",
               \A t \in Tokens : sessions'[t] = IF t \in S THEN Deleted(t) ELSE sessions[t]
        PROVE  Lifecycle!Next
    <3>1. \A t \in S : /\ Deleted(t).state = "gone"
                        /\ Deleted(t).license = sessions[t].license
                        /\ Deleted(t).account = sessions[t].account
      BY <2>2, LiveParts DEF Deleted, Rows
    <3>2. PhaseOf' = [t \in Tokens |-> IF t \in S THEN "gone" ELSE PhaseOf[t]]
      BY <2>2, <3>1 DEF PhaseOf
    <3>3. HolderOf' = HolderOf
      BY <2>2, <3>1 DEF HolderOf
    <3>4. Lifecycle!End(S)
      BY <2>2, <3>2, <3>3 DEF Lifecycle!End, PhaseOf
    <3>5. QED
      BY <3>4 DEF Lifecycle!Next
  <2>3. ASSUME NEW t \in Tokens, Logout(t) PROVE Lifecycle!Next
    <3>1. \A u \in Tokens : sessions'[u] = IF u \in {t} THEN Deleted(u) ELSE sessions[u]
      BY <2>3 DEF Logout, SesTypeOK
    <3>2. QED
      BY <2>2, <2>3, <3>1 DEF Logout, Authenticated
  <2>4. CASE SweepSessions
    <3> DEFINE S == {t \in Tokens : sessions[t].state = "live" /\ sessions[t].expires < sweep.now}
    <3>1. \A t \in Tokens : sessions'[t] = IF t \in S THEN Deleted(t) ELSE sessions[t]
      BY <2>4 DEF SweepSessions
    <3>2. QED
      BY <2>2, <3>1
  <2>5. ASSUME NEW w \in Threads, HeartbeatWrite(w) PROVE UNCHANGED <<PhaseOf, HolderOf>>
    <3>1. thread[w].token \in Tokens
      BY <2>5, ThreadParts DEF HeartbeatWrite
    <3>2. ASSUME NEW t \in Tokens
          PROVE  /\ sessions'[t].state = sessions[t].state
                 /\ sessions'[t].license = sessions[t].license
                 /\ sessions'[t].account = sessions[t].account
      <4>1. CASE t = thread[w].token /\ Authenticated(t)
        <5>1. sessions'[t] = [sessions[t] EXCEPT !.expires = thread[w].expires]
          BY <2>5, <4>1 DEF HeartbeatWrite, SesTypeOK
        <5>2. QED
          BY <4>1, <5>1, LiveParts DEF Authenticated, Rows
      <4>2. CASE ~(t = thread[w].token /\ Authenticated(t))
        BY <2>5, <3>1, <4>2 DEF HeartbeatWrite, SesTypeOK
      <4>3. QED
        BY <4>1, <4>2
    <3>3. QED
      BY <3>2 DEF PhaseOf, HolderOf
  <2>6. CASE UNCHANGED sessions
    BY <2>6 DEF PhaseOf, HolderOf
  <2>7. QED
    BY <2>1, <2>3, <2>4, <2>5, <2>6
       DEF SesNext, AdminNext, ClientNext, ThreadGoesOn, CreateLicense, ExtendLicense,
           RevokeLicense, BindAccount, UnbindAccount, SuspendAccount, ActivateLicense,
           ActivateBinding, HeartbeatRead, SnapshotCheck, SnapshotInsert, ThreadAbort,
         SweepStart, TimePasses, sesVars
<1>3. QED
  BY <1>1, <1>2, SessionTypes, PTL DEF SesSpec, ImplementsTokenLifecycle, Lifecycle!Spec

-----------------------------------------------------------------------------
\* What leaves the threads may enter the table, one for one.
LEMMA OneForOne ==
    ASSUME NEW P, NEW P2, NEW I, NEW I2, IsFiniteSet(P), IsFiniteSet(I),
           \/ P2 \subseteq P /\ I2 \subseteq I
           \/ \E w \in P : \E t : P2 \subseteq P \ {w} /\ I2 \subseteq I \cup {t}
    PROVE  Cardinality(P2) + Cardinality(I2) <= Cardinality(P) + Cardinality(I)
<1>1. Cardinality(P) \in Nat /\ Cardinality(I) \in Nat
  BY FS_CardinalityType
<1>2. CASE P2 \subseteq P /\ I2 \subseteq I
  <2>1. Cardinality(P2) <= Cardinality(P) /\ Cardinality(P2) \in Nat
    BY <1>2, FS_Subset, FS_CardinalityType
  <2>2. Cardinality(I2) <= Cardinality(I) /\ Cardinality(I2) \in Nat
    BY <1>2, FS_Subset, FS_CardinalityType
  <2>3. QED
    BY <1>1, <2>1, <2>2
<1>3. ASSUME NEW w \in P, NEW t, P2 \subseteq P \ {w}, I2 \subseteq I \cup {t}
      PROVE  Cardinality(P2) + Cardinality(I2) <= Cardinality(P) + Cardinality(I)
  <2>1. IsFiniteSet(P \ {w}) /\ Cardinality(P \ {w}) = Cardinality(P) - 1
    BY FS_RemoveElement
  <2>2. Cardinality(P2) <= Cardinality(P \ {w}) /\ Cardinality(P2) \in Nat
    BY <1>3, <2>1, FS_Subset, FS_CardinalityType
  <2>3. /\ IsFiniteSet(I \cup {t})
        /\ Cardinality(I \cup {t}) \in {Cardinality(I), Cardinality(I) + 1}
    BY FS_AddElement
  <2>4. Cardinality(I2) <= Cardinality(I \cup {t}) /\ Cardinality(I2) \in Nat
    BY <1>3, <2>3, FS_Subset, FS_CardinalityType
  <2>5. QED
    BY <1>1, <2>1, <2>2, <2>3, <2>4
<1>4. QED
  BY <1>2, <1>3

\* The session of an activation goes to the licence and account it has read.
LEMMA InsertedFor ==
    ASSUME SesTypeOK, NEW w \in Threads, ActivateInsert(w)
    PROVE  /\ thread[w].at = "bound"
           /\ \A v \in Threads : thread'[v] = IF v = w THEN AtRest ELSE thread[v]
           /\ \E u \in Tokens :
                 /\ \A t \in Tokens : t # u => sessions'[t] = sessions[t]
                 /\ sessions'[u].license = thread[w].license
                 /\ sessions'[u].account = thread[w].account
<1>1. (CHOOSE v \in Fresh : TRUE) \in Tokens
  BY FreshParts DEF ActivateInsert
<1>2. QED
  BY <1>1 DEF ActivateInsert, SesTypeOK

\* No other step hands out a session, or makes a thread carry more than it had
\* read.
LEMMA NothingElseIssued ==
    ASSUME SesTypeOK, [SesNext]_sesVars, \A w \in Threads : ~ActivateInsert(w)
    PROVE  /\ \A t \in Tokens : /\ sessions'[t].license = sessions[t].license
                                /\ sessions'[t].account = sessions[t].account
           /\ \A w \in Threads :
                 \/ thread'[w] = thread[w]
                 \/ thread'[w].at \notin {"licensed", "bound"}
                 \/ thread'[w].at = "licensed" /\ ~Blocked(thread'[w].license)
                 \/ /\ thread[w].at = "licensed" /\ thread'[w].at = "bound"
                    /\ thread'[w].license = thread[w].license
                    /\ thread'[w].account = thread[w].account
                    /\ bindings[thread[w].license][thread[w].account] = "bound"
<1>1. ASSUME NEW t \in Tokens
      PROVE  /\ sessions'[t].license = sessions[t].license
             /\ sessions'[t].account = sessions[t].account
  <2>1. ASSUME NEW w \in Threads, HeartbeatWrite(w)
        PROVE  /\ sessions'[t].license = sessions[t].license
               /\ sessions'[t].account = sessions[t].account
    <3>1. thread[w].token \in Tokens
      BY <2>1, ThreadParts DEF HeartbeatWrite
    <3>2. CASE t = thread[w].token /\ Authenticated(t)
      <4>1. sessions'[t] = [sessions[t] EXCEPT !.expires = thread[w].expires]
        BY <2>1, <3>2 DEF HeartbeatWrite, SesTypeOK
      <4>2. QED
        BY <3>2, <4>1, LiveParts DEF Authenticated, Rows
    <3>3. CASE ~(t = thread[w].token /\ Authenticated(t))
      BY <2>1, <3>1, <3>3 DEF HeartbeatWrite, SesTypeOK
    <3>4. QED
      BY <3>2, <3>3
  <2>2. sessions[t].state = "live" => /\ Deleted(t).license = sessions[t].license
                                      /\ Deleted(t).account = sessions[t].account
    BY LiveParts DEF Deleted, Rows
  <2>3. ASSUME NEW u \in Tokens, Logout(u)
        PROVE  /\ sessions'[t].license = sessions[t].license
               /\ sessions'[t].account = sessions[t].account
    BY <2>2, <2>3 DEF Logout, Authenticated, SesTypeOK
  <2>4. CASE SweepSessions
    BY <2>2, <2>4 DEF SweepSessions
  <2>5. CASE UNCHANGED sessions
    BY <2>5
  <2>6. QED
    BY <2>1, <2>3, <2>4, <2>5
       DEF SesNext, AdminNext, ClientNext, ThreadGoesOn, CreateLicense, ExtendLicense,
           RevokeLicense, BindAccount, UnbindAccount, SuspendAccount, ActivateLicense,
           ActivateBinding, HeartbeatRead, SnapshotCheck, SnapshotInsert, ThreadAbort,
         SweepStart, TimePasses, sesVars
<1> DEFINE Carries(w) ==
             \/ thread'[w] = thread[w]
             \/ thread'[w].at \notin {"licensed", "bound"}
             \/ thread'[w].at = "licensed" /\ ~Blocked(thread'[w].license)
             \/ /\ thread[w].at = "licensed" /\ thread'[w].at = "bound"
                /\ thread'[w].license = thread[w].license
                /\ thread'[w].account = thread[w].account
                /\ bindings[thread[w].license][thread[w].account] = "bound"
<1>2. ASSUME NEW w \in Threads
      PROVE  Carries(w)
  <2>1. ASSUME NEW v \in Threads, NEW l \in Licenses, NEW a \in Accounts, ActivateLicense(v, l, a)
        PROVE  Carries(w)
    BY <2>1 DEF ActivateLicense, SesTypeOK
  <2>2. ASSUME NEW v \in Threads, ActivateBinding(v)
        PROVE  Carries(w)
    BY <2>2 DEF ActivateBinding, SesTypeOK, AtRest
  <2>3. ASSUME NEW v \in Threads, NEW t \in Tokens, HeartbeatRead(v, t)
        PROVE  Carries(w)
    BY <2>3 DEF HeartbeatRead, SesTypeOK
  <2>4. ASSUME NEW v \in Threads, HeartbeatWrite(v) \/ ThreadAbort(v)
        PROVE  Carries(w)
    BY <2>4 DEF HeartbeatWrite, ThreadAbort, SesTypeOK, AtRest
  <2>5. CASE UNCHANGED thread
    BY <2>5
  <2>6. ASSUME NEW v \in Threads,
               \/ \E t \in Tokens, a \in Accounts : SnapshotCheck(v, t, a)
               \/ SnapshotInsert(v)
        PROVE  Carries(w)
    BY <2>6 DEF SnapshotCheck, SnapshotInsert, SesTypeOK, AtRest
  <2>7. QED
    BY <2>1, <2>2, <2>3, <2>4, <2>5, <2>6
       DEF SesNext, AdminNext, ClientNext, ThreadGoesOn, CreateLicense, ExtendLicense,
           RevokeLicense, BindAccount, UnbindAccount, SuspendAccount, Logout,
           SweepStart, SweepSessions, TimePasses, sesVars
<1>3. QED
  BY <1>1, <1>2

(***************************************************************************)
(* A revoked or expired licence and a binding that was removed give rise   *)
(* to no session but those of activations that had read them before.       *)
(***************************************************************************)
THEOREM BlockedMeansNothingNew == SesSpec => BlockedIssuesNothingNew
<1>1. ASSUME SesTypeOK, [SesNext]_sesVars, NEW l \in Licenses, Invalid(l)
      PROVE  Cardinality(Pending(l)') + Cardinality(Issued(l)')
               <= Cardinality(Pending(l)) + Cardinality(Issued(l))
  <2>1. IsFiniteSet(Pending(l)) /\ IsFiniteSet(Issued(l))
    BY SessionsConstantsOK, FS_Subset DEF Pending, Issued
  <2>2. ASSUME NEW w \in Threads, ActivateInsert(w)
        PROVE  \/ Pending(l)' \subseteq Pending(l) /\ Issued(l)' \subseteq Issued(l)
               \/ \E v \in Pending(l) : \E t : Pending(l)' \subseteq Pending(l) \ {v}
                              /\ Issued(l)' \subseteq Issued(l) \cup {t}
    <3>1. Pending(l)' \subseteq Pending(l) \ {w}
      BY <1>1, <2>2, InsertedFor DEF Pending, AtRest
    <3>2. PICK u \in Tokens :
                 /\ \A t \in Tokens : t # u => sessions'[t] = sessions[t]
                 /\ sessions'[u].license = thread[w].license
      BY <1>1, <2>2, InsertedFor
    <3>3. CASE thread[w].license = l
      <4>1. w \in Pending(l)
        BY <1>1, <2>2, <3>3, InsertedFor DEF Pending
      <4>2. Issued(l)' \subseteq Issued(l) \cup {u}
        BY <3>2 DEF Issued
      <4>3. QED
        BY <3>1, <4>1, <4>2
    <3>4. CASE thread[w].license # l
      <4>1. Issued(l)' \subseteq Issued(l)
        BY <3>2, <3>4 DEF Issued
      <4>2. QED
        BY <3>1, <4>1
    <3>5. QED
      BY <3>3, <3>4
  <2>3. ASSUME \A w \in Threads : ~ActivateInsert(w)
        PROVE  Pending(l)' \subseteq Pending(l) /\ Issued(l)' \subseteq Issued(l)
    <3>1. Blocked(l)
      BY <1>1 DEF Invalid, Blocked, SesTypeOK
    <3>2. QED
      BY <1>1, <2>3, <3>1, NothingElseIssued DEF Pending, Issued
  <2>4. QED
    BY <2>1, <2>2, <2>3, OneForOne
<1>2. ASSUME SesTypeOK, [SesNext]_sesVars, NEW l \in Licenses, NEW a \in Accounts,
             bindings[l][a] # "bound"
      PROVE  Cardinality(PendingFor(l, a)') + Cardinality(IssuedFor(l, a)')
               <= Cardinality(PendingFor(l, a)) + Cardinality(IssuedFor(l, a))
  <2>1. IsFiniteSet(PendingFor(l, a)) /\ IsFiniteSet(IssuedFor(l, a))
    BY SessionsConstantsOK, FS_Subset DEF PendingFor, IssuedFor
  <2>2. ASSUME NEW w \in Threads, ActivateInsert(w)
        PROVE  \/ /\ PendingFor(l, a)' \subseteq PendingFor(l, a)
                  /\ IssuedFor(l, a)' \subseteq IssuedFor(l, a)
               \/ \E v \in PendingFor(l, a) : \E t :
                     /\ PendingFor(l, a)' \subseteq PendingFor(l, a) \ {v}
                     /\ IssuedFor(l, a)' \subseteq IssuedFor(l, a) \cup {t}
    <3>1. PendingFor(l, a)' \subseteq PendingFor(l, a) \ {w}
      BY <1>2, <2>2, InsertedFor DEF PendingFor, AtRest
    <3>2. PICK u \in Tokens :
                 /\ \A t \in Tokens : t # u => sessions'[t] = sessions[t]
                 /\ sessions'[u].license = thread[w].license
                 /\ sessions'[u].account = thread[w].account
      BY <1>2, <2>2, InsertedFor
    <3>3. CASE thread[w].license = l /\ thread[w].account = a
      <4>1. w \in PendingFor(l, a)
        BY <1>2, <2>2, <3>3, InsertedFor DEF PendingFor
      <4>2. IssuedFor(l, a)' \subseteq IssuedFor(l, a) \cup {u}
        BY <3>2 DEF IssuedFor
      <4>3. QED
        BY <3>1, <4>1, <4>2
    <3>4. CASE ~(thread[w].license = l /\ thread[w].account = a)
      <4>1. IssuedFor(l, a)' \subseteq IssuedFor(l, a)
        BY <3>2, <3>4 DEF IssuedFor
      <4>2. QED
        BY <3>1, <4>1
    <3>5. QED
      BY <3>3, <3>4
  <2>3. ASSUME \A w \in Threads : ~ActivateInsert(w)
        PROVE  PendingFor(l, a)' \subseteq PendingFor(l, a) /\ IssuedFor(l, a)' \subseteq IssuedFor(l, a)
    BY <1>2, <2>3, NothingElseIssued DEF PendingFor, IssuedFor
  <2>4. QED
    BY <2>1, <2>2, <2>3, OneForOne
<1>3. SesTypeOK /\ [SesNext]_sesVars
      => [\A l \in Licenses :
            /\ Invalid(l) =>
                  Cardinality(Pending(l)') + Cardinality(Issued(l)')
                    <= Cardinality(Pending(l)) + Cardinality(Issued(l))
            /\ \A a \in Accounts :
                  bindings[l][a] # "bound" =>
                     Cardinality(PendingFor(l, a)') + Cardinality(IssuedFor(l, a)')
                       <= Cardinality(PendingFor(l, a)) + Cardinality(IssuedFor(l, a))]_sesVars
  BY <1>1, <1>2
<1>4. QED
  BY <1>3, SessionTypes, PTL DEF SesSpec, BlockedIssuesNothingNew

-----------------------------------------------------------------------------
(* Every session comes to its end.  ENABLED is beyond this prover, so the    *)
(* fairness of the sweep is stated with the guards of its two steps.           *)

\* What WF_sesVars(SweepStart) and WF_sesVars(SweepSessions) provide.
CleanupGoesOn ==
    /\ []<>~(sweep = AtRest) \/ []<><<SweepStart>>_sesVars
    /\ []<>~(sweep.at = "delete") \/ []<><<SweepSessions>>_sesVars

\* The bounds let every expiry pass before the time stops: of what is in the
\* table, and of what a heartbeat is about to write there.
ExpiryComes ==
    /\ \A t \in Tokens : sessions[t].state = "live" => sessions[t].expires < MaxTime
    /\ \A w \in Threads : thread[w].at = "beat" => thread[w].expires < MaxTime

LEMMA ExpiryComesStep == SesTypeOK /\ ExpiryComes /\ [SesNext]_sesVars => ExpiryComes'
<1> SUFFICES ASSUME SesTypeOK, ExpiryComes, [SesNext]_sesVars
             PROVE  ExpiryComes'
  OBVIOUS
<1>1. ASSUME NEW t \in Tokens, sessions'[t].state = "live"
      PROVE  sessions'[t].expires < MaxTime
  <2>1. ASSUME NEW w \in Threads, ActivateInsert(w) PROVE sessions'[t].expires < MaxTime
    <3> DEFINE u == CHOOSE v \in Fresh : TRUE
    <3>1. u \in Tokens /\ thread[w].expires < MaxTime
      BY <2>1, FreshParts DEF ActivateInsert, BeforeEnd
    <3>2. t # u => sessions'[t] = sessions[t]
      BY <2>1, <3>1 DEF ActivateInsert, SesTypeOK
    <3>3. t = u => sessions'[t].expires = thread[w].expires
      BY <2>1, <3>1 DEF ActivateInsert, SesTypeOK
    <3> HIDE DEF u
    <3> QED
      BY <1>1, <3>1, <3>2, <3>3 DEF ExpiryComes
  <2>2. ASSUME NEW w \in Threads, HeartbeatWrite(w) PROVE sessions'[t].expires < MaxTime
    <3>1. thread[w].token \in Tokens /\ thread[w].expires < MaxTime
      BY <2>2, ThreadParts DEF HeartbeatWrite, ExpiryComes
    <3>2. CASE t = thread[w].token /\ Authenticated(t)
      <4>1. sessions'[t] = [sessions[t] EXCEPT !.expires = thread[w].expires]
        BY <2>2, <3>2 DEF HeartbeatWrite, SesTypeOK
      <4>2. sessions'[t].expires = thread[w].expires
        BY <3>2, <4>1, LiveParts DEF Authenticated, Rows
      <4> QED
        BY <3>1, <4>2
    <3>3. CASE ~(t = thread[w].token /\ Authenticated(t))
      <4>1. sessions'[t] = sessions[t]
        BY <2>2, <3>1, <3>3 DEF HeartbeatWrite, SesTypeOK
      <4> QED
        BY <1>1, <4>1 DEF ExpiryComes
    <3> QED
      BY <3>2, <3>3
  <2>3. ASSUME NEW u \in Tokens, Logout(u) PROVE sessions'[t] = sessions[t]
    <3>1. Deleted(u).state = "gone"
      BY <2>3, LiveParts DEF Logout, Authenticated, Deleted, Rows
    <3> QED
      BY <1>1, <2>3, <3>1 DEF Logout, SesTypeOK
  <2>4. CASE SweepSessions
    <3>1. sessions[t].state = "live" => Deleted(t).state = "gone"
      BY LiveParts DEF Deleted, Rows
    <3> QED
      BY <1>1, <2>4, <3>1 DEF SweepSessions, ExpiryComes
  <2>5. sessions'[t] = sessions[t] => sessions'[t].expires < MaxTime
    BY <1>1 DEF ExpiryComes
  <2> QED
    BY <2>1, <2>2, <2>3, <2>4, <2>5
       DEF SesNext, AdminNext, ClientNext, ThreadGoesOn, CreateLicense, ExtendLicense,
           RevokeLicense, BindAccount, UnbindAccount, SuspendAccount, ActivateLicense,
           ActivateBinding, HeartbeatRead, SnapshotCheck, SnapshotInsert, ThreadAbort,
         SweepStart, TimePasses, sesVars
<1>2. ASSUME NEW w \in Threads, thread'[w].at = "beat"
      PROVE  thread'[w].expires < MaxTime
  <2>1. ASSUME NEW v \in Threads, NEW t \in Tokens, HeartbeatRead(v, t)
        PROVE  thread'[w].expires < MaxTime
    BY <1>2, <2>1 DEF HeartbeatRead, BeforeEnd, ExpiryComes, SesTypeOK
  <2>2. ASSUME NEW v \in Threads, NEW x, x.at # "beat", thread' = [thread EXCEPT ![v] = x]
        PROVE  thread'[w].expires < MaxTime
    BY <1>2, <2>2 DEF ExpiryComes, SesTypeOK
  <2>3. ASSUME NEW v \in Threads,
               \/ \E l \in Licenses, a \in Accounts : ActivateLicense(v, l, a)
               \/ \E t \in Tokens, a \in Accounts : SnapshotCheck(v, t, a)
               \/ ThreadGoesOn(v)
        PROVE  thread'[w].expires < MaxTime
    BY <2>2, <2>3
       DEF ActivateLicense, SnapshotCheck, ThreadGoesOn, ActivateBinding, ActivateInsert,
           HeartbeatWrite, SnapshotInsert, ThreadAbort, AtRest
  <2>4. CASE UNCHANGED thread
    BY <1>2, <2>4 DEF ExpiryComes
  <2> QED
    BY <2>1, <2>3, <2>4
       DEF SesNext, AdminNext, ClientNext, CreateLicense, ExtendLicense,
           RevokeLicense, BindAccount, UnbindAccount, SuspendAccount, Logout,
           SweepStart, SweepSessions, TimePasses, sesVars
<1> QED
  BY <1>1, <1>2 DEF ExpiryComes

\* A run of the sweep that started when the time had stopped.
LastRun == sweep.at = "delete" /\ sweep.now = MaxTime

\* Nothing but a logout or the cleanup ends a session, nothing but its own
\* statement ends a run of the sweep, and a stopped time has stopped.
LEMMA LiveStays ==
    ASSUME NEW t \in Tokens, SesTypeOK, [SesNext]_sesVars
    PROVE  /\ sessions[t].state = "live"
                 => (sessions[t].state = "live")' \/ (sessions[t].state = "gone")'
           /\ time = MaxTime => (time = MaxTime)'
           /\ sweep = AtRest => (sweep = AtRest)' \/ SweepStart
           /\ sweep.at = "delete" => SweepSessions \/ (sweep' = sweep)
<1>1. sessions[t].state = "live"
         => (sessions[t].state = "live")' \/ (sessions[t].state = "gone")'
  BY EveryRowMoves DEF RowMoves
<1>2. time = MaxTime => (time = MaxTime)'
  <2>1. TimePasses \/ time' = time
    BY DEF SesNext, AdminNext, ClientNext, ThreadGoesOn, CreateLicense, ExtendLicense,
         RevokeLicense, BindAccount, UnbindAccount, SuspendAccount, ActivateLicense,
         ActivateBinding, ActivateInsert, HeartbeatRead, HeartbeatWrite, Logout,
         SnapshotCheck, SnapshotInsert, ThreadAbort, SweepStart, SweepSessions, sesVars
  <2> QED
    BY <2>1, SessionsConstantsOK DEF TimePasses
<1>3. SweepStart \/ SweepSessions \/ sweep' = sweep
  BY DEF SesNext, AdminNext, ClientNext, ThreadGoesOn, CreateLicense, ExtendLicense,
         RevokeLicense, BindAccount, UnbindAccount, SuspendAccount, ActivateLicense,
         ActivateBinding, ActivateInsert, HeartbeatRead, HeartbeatWrite, Logout,
         SnapshotCheck, SnapshotInsert, ThreadAbort, TimePasses, sesVars
<1> QED
  BY <1>1, <1>2, <1>3 DEF SweepStart, SweepSessions, AtRest

(***************************************************************************)
(* A session whose EA has fallen silent is deleted in the end: under any    *)
(* constants, if the time gets to its bound and the sweep is run for ever.   *)
(***************************************************************************)
THEOREM SilentOnesEnd == SesSpec /\ <>(time = MaxTime) /\ CleanupGoesOn => SilentSessionsEnd
<1>1. SesSpec => []ExpiryComes
  <2>1. SesInit => ExpiryComes
    BY DEF SesInit, ExpiryComes, NoSession, AtRest
  <2> QED
    BY <2>1, ExpiryComesStep, SessionTypes, PTL DEF SesSpec
<1>2. SesTypeOK => (sweep = AtRest \/ sweep.at = "delete") /\ ~(sweep = AtRest /\ sweep.at = "delete")
  BY DEF SesTypeOK, AtRest
<1>3. time = MaxTime /\ SweepStart => LastRun'
  BY DEF SweepStart, LastRun
<1>4. ASSUME NEW t \in Tokens
      PROVE  SesSpec /\ <>(time = MaxTime) /\ CleanupGoesOn
             => (sessions[t].state = "live" ~> sessions[t].state = "gone")
  <2>1. SesTypeOK /\ [SesNext]_sesVars
        => /\ sessions[t].state = "live"
                 => (sessions[t].state = "live")' \/ (sessions[t].state = "gone")'
           /\ time = MaxTime => (time = MaxTime)'
           /\ sweep = AtRest => (sweep = AtRest)' \/ SweepStart
           /\ LastRun => LastRun' \/ SweepSessions
    BY LiveStays DEF LastRun
  <2>2. /\ SweepSessions => (sweep = AtRest)'
        /\ LastRun => sweep.at = "delete"
    BY DEF SweepSessions, LastRun
  <2>3. SesTypeOK /\ ExpiryComes /\ LastRun /\ sessions[t].state = "live" /\ SweepSessions
        => (sessions[t].state = "gone")'
    <3> SUFFICES ASSUME SesTypeOK, ExpiryComes, LastRun, sessions[t].state = "live", SweepSessions
                 PROVE  sessions'[t].state = "gone"
      OBVIOUS
    <3>1. sessions[t].expires < sweep.now
      BY DEF ExpiryComes, LastRun
    <3>2. Deleted(t).state = "gone"
      BY LiveParts DEF Deleted, Rows
    <3> QED
      BY <3>1, <3>2 DEF SweepSessions
  <2> QED
    BY <1>1, <1>2, <1>3, <2>1, <2>2, <2>3, SessionTypes, PTL DEF SesSpec, CleanupGoesOn
<1>5. QED
  BY <1>4 DEF SilentSessionsEnd
=============================================================================
