------------------------------ MODULE Sessions ------------------------------
(***************************************************************************)
(* Licences, the accounts bound to them and the sessions of their EAs.     *)
(* An activation reads the licence, then the binding, and then commits the *)
(* new session; a heartbeat reads the session and then commits its new     *)
(* expiry.  The administrator and the cleanup commit in between.           *)
(***************************************************************************)
EXTENDS Integers, FiniteSets

CONSTANTS
    Licenses,
    Accounts,  \* pairs of account_login and account_server
    Customers, \* those that an administrator binds; others may ask as well
    Tokens,    \* uuid4: each is drawn at most once
    Threads,   \* request threads of the API
    NoOne,
    Ttl,       \* session_ttl_minutes
    Terms,     \* the expires_at an administrator may ask for
    MaxTime    \* bound: when the clock stops

ASSUME SessionsConstantsOK ==
    /\ IsFiniteSet(Licenses) /\ IsFiniteSet(Accounts)
    /\ IsFiniteSet(Tokens) /\ IsFiniteSet(Threads)
    /\ Customers \subseteq Accounts
    /\ NoOne \notin Licenses \cup Accounts \cup Tokens
    /\ Ttl \in Nat
    /\ Terms \subseteq Nat
    /\ MaxTime \in Nat

VARIABLES
    time,
    licenses,  \* rows of licenses; suspended is a column nothing ever sets
    bindings,  \* rows of license_accounts
    sessions,  \* rows of sessions, per token
    snapshots, \* accounts with a row in position_snapshots
    thread,    \* what a request thread has read and not yet committed
    sweep      \* the third delete of weekly_cleanup

sesVars == <<time, licenses, bindings, sessions, snapshots, thread, sweep>>

NoLicense == [state |-> "absent", expires |-> 0]
NoSession == [state |-> "unused", license |-> NoOne, account |-> NoOne, expires |-> 0]
AtRest == [at |-> "idle"]

ThreadStates ==
    {AtRest}
    \cup [at : {"licensed"}, license : Licenses, account : Accounts]
    \cup [at : {"bound"}, license : Licenses, account : Accounts, expires : Nat]
    \cup [at : {"beat"}, token : Tokens, expires : Nat]
    \cup [at : {"snapshot"}, account : Accounts]

SesTypeOK ==
    /\ time \in Nat
    /\ licenses \in [Licenses -> [state : {"absent", "valid", "revoked"}, expires : Nat]]
    /\ bindings \in [Licenses -> [Accounts -> {"none", "bound", "suspended"}]]
    /\ sessions \in [Tokens -> {NoSession} \cup
                       [state : {"live", "gone"}, license : Licenses,
                        account : Accounts, expires : Nat]]
    /\ snapshots \subseteq Accounts
    /\ thread \in [Threads -> ThreadStates]
    /\ sweep \in {AtRest} \cup [at : {"delete"}, now : Nat]

SesInit ==
    /\ time = 0
    /\ licenses = [l \in Licenses |-> NoLicense]
    /\ bindings = [l \in Licenses |-> [a \in Accounts |-> "none"]]
    /\ sessions = [t \in Tokens |-> NoSession]
    /\ snapshots = {}
    /\ thread = [w \in Threads |-> AtRest]
    /\ sweep = AtRest

-----------------------------------------------------------------------------
(* The administrator: one committed statement each.                        *)

CreateLicense(l, e) ==
    /\ licenses[l].state = "absent"
    /\ licenses' = [licenses EXCEPT ![l] = [state |-> "valid", expires |-> e]]
    /\ UNCHANGED <<time, bindings, sessions, snapshots, thread, sweep>>

\* Whatever date is given, also an earlier one, and also for a revoked licence.
ExtendLicense(l, e) ==
    /\ licenses[l].state # "absent"
    /\ licenses' = [licenses EXCEPT ![l].expires = e]
    /\ UNCHANGED <<time, bindings, sessions, snapshots, thread, sweep>>

\* Only the flag: the sessions of the licence are left alone.
RevokeLicense(l) ==
    /\ licenses[l].state # "absent"
    /\ licenses' = [licenses EXCEPT ![l].state = "revoked"]
    /\ UNCHANGED <<time, bindings, sessions, snapshots, thread, sweep>>

\* A second row for the same pair breaks the unique constraint.
BindAccount(l, a) ==
    /\ licenses[l].state # "absent"
    /\ a \in Customers
    /\ bindings[l][a] = "none"
    /\ bindings' = [bindings EXCEPT ![l][a] = "bound"]
    /\ UNCHANGED <<time, licenses, sessions, snapshots, thread, sweep>>

UnbindAccount(l, a) ==
    /\ bindings[l][a] # "none"
    /\ bindings' = [bindings EXCEPT ![l][a] = "none"]
    /\ UNCHANGED <<time, licenses, sessions, snapshots, thread, sweep>>

\* suspend and unsuspend
SuspendAccount(l, a, how) ==
    /\ bindings[l][a] # "none"
    /\ bindings' = [bindings EXCEPT ![l][a] = how]
    /\ UNCHANGED <<time, licenses, sessions, snapshots, thread, sweep>>

AdminNext ==
    \E l \in Licenses :
        \/ \E e \in Terms : CreateLicense(l, e) \/ ExtendLicense(l, e)
        \/ RevokeLicense(l)
        \/ \E a \in Accounts :
              \/ BindAccount(l, a)
              \/ UnbindAccount(l, a)
              \/ \E how \in {"bound", "suspended"} : SuspendAccount(l, a, how)

-----------------------------------------------------------------------------
(* The EA's requests.                                                      *)

\* Bound: EAs fall silent while the clock can still pass what they have written.
BeforeEnd(e) == e < MaxTime

\* Slip (not the code): a revoked licence is still looked at by its date only.
SlipBlocked(l) ==
    \/ licenses[l].state = "absent"
    \/ licenses[l].expires <= time

\* activate raises license_not_found, license_blocked or license_expired.
Blocked(l) ==
    \/ licenses[l].state \in {"absent", "revoked"}
    \/ licenses[l].expires <= time

ActivateLicense(w, l, a) ==
    /\ thread[w] = AtRest
    /\ ~Blocked(l)
    /\ thread' = [thread EXCEPT ![w] = [at |-> "licensed", license |-> l, account |-> a]]
    /\ UNCHANGED <<time, licenses, bindings, sessions, snapshots, sweep>>

\* Slip (not the code): the time to live is taken off the time.
SlipActivateBinding(w) ==
    /\ thread[w].at = "licensed"
    /\ thread' = [thread EXCEPT ![w] =
                    [at |-> "bound", license |-> thread[w].license,
                     account |-> thread[w].account, expires |-> time - Ttl]]
    /\ UNCHANGED <<time, licenses, bindings, sessions, snapshots, sweep>>

\* The second SELECT; a missing or suspended binding is account_not_authorized.
ActivateBinding(w) ==
    LET l == thread[w].license
        a == thread[w].account
    IN  /\ thread[w].at = "licensed"
        /\ thread' = [thread EXCEPT ![w] =
                        IF bindings[l][a] = "bound"
                        THEN [at |-> "bound", license |-> l, account |-> a,
                              expires |-> time + Ttl]
                        ELSE AtRest]
        /\ UNCHANGED <<time, licenses, bindings, sessions, snapshots, sweep>>

\* str(uuid4()): one that nobody has; which one makes no difference.
Fresh == {t \in Tokens : sessions[t].state = "unused"}

\* INSERT and commit, whatever has become of licence and binding since.
ActivateInsert(w) ==
    /\ thread[w].at = "bound"
    /\ BeforeEnd(thread[w].expires)
    /\ Fresh # {}
    /\ sessions' = [sessions EXCEPT ![CHOOSE t \in Fresh : TRUE] =
                      [state |-> "live", license |-> thread[w].license,
                       account |-> thread[w].account, expires |-> thread[w].expires]]
    /\ thread' = [thread EXCEPT ![w] = AtRest]
    /\ UNCHANGED <<time, licenses, bindings, snapshots, sweep>>

\* The check of heartbeat, poll, report and snapshot: that the row is there.
Authenticated(t) == sessions[t].state = "live"

HeartbeatRead(w, t) ==
    /\ thread[w] = AtRest
    /\ Authenticated(t)
    /\ BeforeEnd(time + Ttl)
    /\ thread' = [thread EXCEPT ![w] =
                    [at |-> "beat", token |-> t, expires |-> time + Ttl]]
    /\ UNCHANGED <<time, licenses, bindings, sessions, snapshots, sweep>>

\* Slip (not the code): a row that was deleted meanwhile is written anew.
SlipHeartbeatWrite(w) ==
    LET t == thread[w].token
    IN  /\ thread[w].at = "beat"
        /\ sessions' = [sessions EXCEPT ![t].state = "live", ![t].expires = thread[w].expires]
        /\ thread' = [thread EXCEPT ![w] = AtRest]
        /\ UNCHANGED <<time, licenses, bindings, snapshots, sweep>>

\* The UPDATE by primary key: a row deleted meanwhile makes the commit fail.
HeartbeatWrite(w) ==
    LET t == thread[w].token
    IN  /\ thread[w].at = "beat"
        /\ sessions' = IF Authenticated(t)
                       THEN [sessions EXCEPT ![t].expires = thread[w].expires]
                       ELSE sessions
        /\ thread' = [thread EXCEPT ![w] = AtRest]
        /\ UNCHANGED <<time, licenses, bindings, snapshots, sweep>>

\* The row is gone; whose it was is history.
Deleted(t) == [sessions[t] EXCEPT !.state = "gone", !.expires = 0]

Logout(t) ==
    /\ Authenticated(t)
    /\ sessions' = [sessions EXCEPT ![t] = Deleted(t)]
    /\ UNCHANGED <<time, licenses, bindings, snapshots, thread, sweep>>

\* Slip (not the code): the account in the request is not compared.
SlipSnapshotCheck(w, t, a) ==
    /\ thread[w] = AtRest
    /\ Authenticated(t)
    /\ thread' = [thread EXCEPT ![w] = [at |-> "snapshot", account |-> a]]
    /\ UNCHANGED <<time, licenses, bindings, sessions, snapshots, sweep>>

\* A snapshot for another account than the session's is account_mismatch.
SnapshotCheck(w, t, a) ==
    /\ thread[w] = AtRest
    /\ Authenticated(t)
    /\ a = sessions[t].account
    /\ thread' = [thread EXCEPT ![w] = [at |-> "snapshot", account |-> a]]
    /\ UNCHANGED <<time, licenses, bindings, sessions, snapshots, sweep>>

\* INSERT and commit, whatever has become of the session since.
SnapshotInsert(w) ==
    /\ thread[w].at = "snapshot"
    /\ snapshots' = snapshots \cup {thread[w].account}
    /\ thread' = [thread EXCEPT ![w] = AtRest]
    /\ UNCHANGED <<time, licenses, bindings, sessions, sweep>>

\* The request dies, and what it has not committed is gone.
ThreadAbort(w) ==
    /\ thread[w] # AtRest
    /\ thread' = [thread EXCEPT ![w] = AtRest]
    /\ UNCHANGED <<time, licenses, bindings, sessions, snapshots, sweep>>

ThreadGoesOn(w) ==
    \/ ActivateBinding(w) \/ ActivateInsert(w) \/ HeartbeatWrite(w)
    \/ SnapshotInsert(w) \/ ThreadAbort(w)

ClientNext ==
    \/ \E w \in Threads :
          \/ \E l \in Licenses, a \in Accounts : ActivateLicense(w, l, a)
          \/ \E t \in Tokens : HeartbeatRead(w, t) \/ \E a \in Accounts : SnapshotCheck(w, t, a)
          \/ ThreadGoesOn(w)
    \/ \E t \in Tokens : Logout(t)

-----------------------------------------------------------------------------
(* The cleanup's third delete.                                             *)

\* Slip (not the code): the time is read when the module is imported.
SlipSweepStart ==
    /\ sweep = AtRest
    /\ sweep' = [at |-> "delete", now |-> 0]
    /\ UNCHANGED <<time, licenses, bindings, sessions, snapshots, thread>>

\* datetime.utcnow() becomes the parameter of the statement.
SweepStart ==
    /\ sweep = AtRest
    /\ sweep' = [at |-> "delete", now |-> time]
    /\ UNCHANGED <<time, licenses, bindings, sessions, snapshots, thread>>

\* Slip (not the code): the statement takes sessions that are about to run out.
SlipSweepSessions ==
    /\ sweep.at = "delete"
    /\ sessions' = [t \in Tokens |->
                      IF sessions[t].state = "live" /\ sessions[t].expires <= sweep.now
                      THEN Deleted(t)
                      ELSE sessions[t]]
    /\ sweep' = AtRest
    /\ UNCHANGED <<time, licenses, bindings, snapshots, thread>>

SweepSessions ==
    /\ sweep.at = "delete"
    /\ sessions' = [t \in Tokens |->
                      IF sessions[t].state = "live" /\ sessions[t].expires < sweep.now
                      THEN Deleted(t)
                      ELSE sessions[t]]
    /\ sweep' = AtRest
    /\ UNCHANGED <<time, licenses, bindings, snapshots, thread>>

TimePasses ==
    /\ time < MaxTime
    /\ time' = time + 1
    /\ UNCHANGED <<licenses, bindings, sessions, snapshots, thread, sweep>>

SesNext == AdminNext \/ ClientNext \/ SweepStart \/ SweepSessions \/ TimePasses

SesSpec == SesInit /\ [][SesNext]_sesVars

\* The clock runs, a request ends, and cron starts the job for ever.
SesFairness ==
    /\ WF_sesVars(TimePasses)
    /\ \A w \in Threads : WF_sesVars(ThreadGoesOn(w))
    /\ WF_sesVars(SweepStart)
    /\ WF_sesVars(SweepSessions)

SesLiveSpec == SesSpec /\ SesFairness

-----------------------------------------------------------------------------
\* No licence, a revoked one, or one that has run out.
Invalid(l) == licenses[l].state # "valid" \/ licenses[l].expires <= time

\* Activations that have read the licence, and the sessions that came of them.
Pending(l) == {w \in Threads : thread[w].at \in {"licensed", "bound"} /\ thread[w].license = l}
Issued(l) == {t \in Tokens : sessions[t].license = l}

\* The same from the binding on.
PendingFor(l, a) ==
    {w \in Threads : thread[w].at = "bound" /\ thread[w].license = l /\ thread[w].account = a}
IssuedFor(l, a) == {t \in Tokens : sessions[t].license = l /\ sessions[t].account = a}

\* After a licence is revoked or has run out, the only sessions still issued
\* for it are those of activations that had read it before; and after an
\* account is unbound or suspended, those that had read the binding: revoke,
\* unbind and suspend race with at most one request of each thread.
BlockedIssuesNothingNew ==
    [][\A l \in Licenses :
          /\ Invalid(l) =>
                Cardinality(Pending(l)') + Cardinality(Issued(l)')
                  <= Cardinality(Pending(l)) + Cardinality(Issued(l))
          /\ \A a \in Accounts :
                bindings[l][a] # "bound" =>
                   Cardinality(PendingFor(l, a)') + Cardinality(IssuedFor(l, a)')
                     <= Cardinality(PendingFor(l, a)) + Cardinality(IssuedFor(l, a))]_sesVars

\* A position snapshot is stored only for an account that held a session, and
\* that an administrator had bound: the binding is looked at by the activation
\* only, the token before the snapshot's commit, and neither when the other is.
SnapshotsAreOwn ==
    \A a \in snapshots : a \in Customers /\ \E t \in Tokens : sessions[t].account = a

\* The job, which computes its time before its statement runs, does not take a
\* session that a heartbeat has extended meanwhile: what it deletes has run out.
BeatenSessionsStay ==
    [][\A t \in Tokens :
          (sweep # sweep' /\ sessions[t].state = "live" /\ sessions'[t].state = "gone")
             => sessions[t].expires < time]_sesVars

\* A session whose EA has fallen silent is deleted in the end.
SilentSessionsEnd ==
    \A t \in Tokens : sessions[t].state = "live" ~> sessions[t].state = "gone"

\* TokenLifecycle, under the mapping that forgets the times.
PhaseOf == [t \in Tokens |-> sessions[t].state]
HolderOf == [t \in Tokens |-> <<sessions[t].license, sessions[t].account>>]

Lifecycle == INSTANCE TokenLifecycle
             WITH Holders <- Licenses \X Accounts, Nobody <- <<NoOne, NoOne>>,
                  phase <- PhaseOf, holder <- HolderOf

\* A token is handed out once, for one account, and does not come back after
\* logout or cleanup, whatever a heartbeat had read before.
ImplementsTokenLifecycle == Lifecycle!Spec
=============================================================================
