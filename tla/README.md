# A TLA+ model of the ai-trading-system

The repository is a trading platform for one symbol (XAUUSD).  A Python server
decides what to trade and keeps a queue of commands in a database table; an
Expert Advisor (EA) in a MetaTrader 5 terminal polls that queue over HTTP,
executes what it finds and reports back.  The decisions that matter for
correctness are small, but they are made by several processes that share only
a database, with terminals that crash and a network that loses answers.  This
directory models that part and checks it with TLC and TLAPS.

## 1. Inventory

| component | code | state | operations | what is hard | correct when | section |
|---|---|---|---|---|---|---|
| command queue | `services/command_publisher`, poll and report in `services/api_server/routers_client.py`, `models.py` | `trading_commands`, `trading_execution_reports`, `audit_events` | create OPEN / MODIFY_SL / CLOSE_FULL / CLOSE_PARTIAL, cancel-and-replace, expire, poll, report | several commits per handler, several engines and request threads, lost and repeated requests | reports stand, one live OPEN per account, closed is final and never served, active is closed in the end | 3 |
| retention | `infra/scripts/weekly_cleanup.py` | the same tables and `sessions` | one weekly run of three committed deletes | order of the deletes, rows written while it runs | nothing recent is orphaned; dated closed rows go | 4, 6 |
| EA client | `clients/mt5_ea/release/*.mq5` | token, timers, ledger of processed signals, positions | authenticate, heartbeat, poll, process, execute, close, report | terminal crash between order and ledger, files that do not open, restart, 403 | a signal is executed once more than the ledger failed it, at most | 5 |
| sessions and licences | `services/auth_license`, `services/api_server/admin_service.py` | licences, bindings, sessions, snapshots | activate, heartbeat, logout, create, extend, revoke, bind, unbind, suspend | an admin operation or the cleanup between two statements of a request | a session stands for a licence and binding that were valid when it was asked for, and ends | 6 |
| signal engine, AI orchestrator, event calendar service | `services/signal_engine`, `services/ai_orchestrator`, `services/event_calendar/service.py` | settings; they write the queue | entry checks, provider call with retries and fall-back, contract validation, OPEN | a check that is stale after a long review, the last attempt, failures around the commit | only reviewed candidates open, and every run ends | 7 |
| supervisor, risk rules | `services/position_supervisor`, `services/risk_manager`, the scripts that insert signals | none of their own; they write the queue | reversal close, move to break-even | runs repeated while the last command is under way, hand-moved stops, signals that change | a close is asked for contradicted positions only, and they end; stops asked for are behind the price | 7 |
| market feed | `services/market_feed`: service, HTTP and Wine providers | connection, attempts | fetch with retry, classify, probe | error classes by branch, dead connections | the error is that of the last answer; bars return with the bridge | 7 |
| event and ETF providers, ETF bias, mt5linux provider, market structure, EA health, notifier, audit store, review optimizer, settings, migrations, shadow scripts | the rest | caches, logs, configuration | fetches, formatting, deployment, stateless analysis | see section 8 | | not modelled |

Interaction: the signal engine and the supervisor call the publisher, which
writes the table; the API's poll and report handlers read and write the same
table on behalf of EAs, after looking up a session; the cleanup job deletes from
all of these tables.  There are no locks and no messages between the Python
processes: the database is the only meeting point, and each `commit()` is
where another process may come in between.  The API runs its handlers in a
thread pool, and they are synchronous functions with a database session each.

## 2. Structure and plan

| module | abstract specification | proofs | runs |
|---|---|---|---|
| `CommandQueue` (instances: `MCCommandQueue`, `MCQueuePairs`) | `CommandLifecycle` | `CommandQueueProofs`, `CommandQueueLaterCommits` | `queue_*` |
| `Retention`, `Sessions` (instance: `MCRecords`) | `TokenLifecycle` | `RetentionProofs`, `SessionsProofs` | `records`, `retention_undated` |
| `EAClient` | | `EAClientProofs` | `ea_*` |
| `EntryGate`, `Supervisor`, `MarketFeed` (instance: `MCDecisions`) | | `EntryGateProofs`, `SupervisorProofs`, `MarketFeedProofs` | `decisions`, `gate_fallback` |

The queue comes first because everything the system does to an account passes
through it; then what deletes from it, what executes it, who may ask it, and
what decides about it.  What could still be added: the queue composed with the
session check and the supervisor, so that duplicate CLOSE_FULL rows meet the
page limit; the monotonicity of stops and the supervisor's missing result as runs of
their own (section 8); and the market structure's pure functions against a reference.

What is proved.  Every property of the passing runs is also the subject of a theorem,
for every value of the constants that satisfies the named assumptions.  For an
invariant or an action property the theorem is `Spec => ...` (with what each section
says of the engines or threads).  Liveness needs care, because tlapm knows neither
`ENABLED` nor induction over numbers in a temporal proof:

- the fairness of the specification is written again in the proof module with the
  guard of the action in the place of `ENABLED`: `WF_v(A)` as
  `[]<>~Guard \/ []<><<A>>_v`, `SF_v(A)` as `[]<>Guard => []<><<A>>_v`, or something
  weaker that is enough.  Every action concerned changes its variables whenever its
  guard holds, so the two say the same; that they do is not itself proved;
- where the argument is that a count which only rises stops at its bound, the
  conclusion is a hypothesis: `<>(clock = MaxClock)` is what `WF_v(Tick)` gives,
  and `MishapsEnd` and `AttemptsEnd` say that crashes and attempts come to an end.
  The last two hold in every behaviour of the specification, as the lemmas
  `MishapsOnlyRise` and `AttemptsOnlyRise` show up to that counting.

What stays with TLC alone is therefore the step from `WF`/`SF` as the specifications
state them to these hypotheses; the runs check the properties under the former.

## 3. The command queue (`CommandQueue`, `CommandLifecycle`)

`CommandQueue.tla` has one action per database transaction.  A handler that
commits more than once is a process with a local record that says where it is:

| code | actions |
|---|---|
| `create_open_command`: `_cancel_pending_open` commits, then the INSERT commits | `OpenCancel`, `OpenInsert`; `OpenAbort` when it dies in between |
| `create_modify_sl_command`, `create_close_full_command`, `create_close_partial_command` | `CreateModifySl`, `CreateCloseFull`, `CreateClosePartial` |
| `expire_old_commands` | `ExpireOldCommands` (the code has no caller; the model lets it happen) |
| `poll_commands`: expiry UPDATE commits, then the SELECT | `PollExpire`, `PollFetch` |
| `report_execution`: check, report and status, audit event | `ReportCheck`, `ReportRecord`, `ReportAudit`; `WorkerAbort` when the request dies |
| the EA of the v1.1 contract, the wall clock (external) | `EAFill`, `EARefuse`, `EATooLate`, `EARepeat`, `Tick` |

State: `status` and `expires` are columns of the row (`expires_at_epoch`, and
`expires_at` for CLOSE_PARTIAL, which has no epoch columns); `created_at_epoch`
is `expires - Ttl`, since nothing changes either afterwards.  `reports` holds,
per command, the statuses of the rows of `trading_execution_reports` in commit
order, `audits` counts its audit events.  `opener` is history: which engine's
INSERT wrote an OPEN.  `inbox` is what poll responses carry, `outbox` is the set
of reports ever sent; a report in it may be taken up never, late, twice or in any
order, which is what a network with an EA that retries can do.  `engine` and
`worker` are the local variables of a handler that outlive a commit, among them
the time the handler read first and uses in every later statement.

The actions follow the code where a simplification would be tempting: the
report's write does not look at the status it has read before; a poll expires
every account's rows but returns its own account's; a row keeps its status when
it is served, so every later poll serves it again; expiry is strict in one
direction and delivery in the other, so a row at its very second is neither
expired nor served.

Left out: sessions (the poll's account is a parameter), payload columns, the
`reason` text, validation of requests that write nothing.  The statuses and
reports outside the protocol answer 400 and change nothing.

`CommandLifecycle.tla` says what the queue promises of a command without saying
how: it enters once, queued or parked, and is closed once; what is queued is
closed in the end.  `CommandQueue` implements it under the mapping `PhaseOf`.

### Runs

`MCCommandQueue.tla` only gives values to the constants; `MCQueuePairs.tla` adds a
variable that says which of two instances a behaviour belongs to.

| run | instance | shows |
|---|---|---|
| `queue_pairs`, threads | 1 account, 2 OPENs, 1 engine that may die, 2 threads, 1 report check per command | `TypeOK`, `LastReportWins`, `OneOpenPerEngine`, `AuditBehindReports`, `TerminalIsFinal` |
| `queue_pairs`, engines | 1 account, 2 OPENs, CLOSE_FULL, 2 engines that do not die, 1 thread, page of one row, no reports | `OneOpenPerEngine`, `PairHasSuccessor`, `UrgentServedFirst` |
| `queue_live` | 2 accounts, an OPEN, a CLOSE_FULL and a CLOSE_PARTIAL of an account whose EA is down, a MODIFY_SL of the other, refusals, 1 engine that may die, 1 thread | `ActiveEventuallyClosed`, `ImplementsLifecycle` |
| `queue_two_opens` | 2 engines, 1 account | violates `OneLiveOpen` |
| `queue_reported_twice` | 1 OPEN, 2 threads, 2 report checks | violates `RepeatsIgnored` |
| `queue_parked` | a CLOSE_PARTIAL | violates `ParkedEventuallyClosed` |

Three findings: the cancel and the INSERT of a replacement are separate commits,
so two engines that handle one account at once leave two live OPENs
(`queue_two_opens`; the docstrings promise replacement);
`report_execution` checks for a repeated report and commits later, so two threads that
handle two copies of a report both record and audit it (`queue_reported_twice`; the
contract and the implementation report promise that the server processes none twice); and
`create_close_partial_command` still writes the status PENDING of the previous
protocol, which no poll serves and no caller expires (`queue_parked`; the runbook
promises that commands expire).

### Bounds

`MaxClock` = 3 is the last value of the clock and a row lives one tick, so a row
can be written late, be served at once, reach its very second, and pass it;
`InTime` writes a row only when the clock can still pass its expiry, so that a
finite clock does not look like a liveness failure.  `MaxReports` bounds the
reports of a command *when a check starts*: with two threads two checks may
start together, which is the race that matters.  `PollLimit` = 1 stands for 20:
the page is full as soon as two rows are live, so `UrgentServedFirst` is about a
CLOSE_FULL that an OPEN must not keep off the page.  Two OPENs are what a
replacement and the race of two replacements need.  Two threads
are enough for every pair of handler steps to interleave; no property relates
three of them.  `RepeatsIgnored` needs a second report of a
command, the repeat itself.  `PairHasSuccessor` is about engines that do not die: one that
dies between its commits leaves neither OPEN, and no property says otherwise.  Symmetry is
used in `queue_pairs` only, among the two OPENs and among the threads.

### Fairness

`LiveSpec` assumes that the clock runs, that a request taken up goes on until it
finishes or dies (`WF` of its remaining steps), and that the EA of each account of
`RunningEAs` polls for ever: its timer sends polls without end and the thread
pool takes requests in the order in which they come, so such a poll is taken up
infinitely often if the pool is free infinitely often (`SF` of `PollExpire` by
some worker).  Nothing is assumed of EA actions, publishers, reports, or of
`expire_old_commands`, which nothing calls.  EAs outside `RunningEAs` are down.

### Proofs

`CommandQueueProofs.tla` and `CommandQueueLaterCommits.tla`, checked by tlapm from
nothing.  Only `ConstantsOK` is assumed of the constants, and what is said below, so
the results hold for any number of commands, accounts, engines, threads and for
any bounds.

- `TypeCorrect`: `TypeOK` is inductive.
- `RowMoves` lists all that one step can do to the row and the reports of a
  command: nothing, an INSERT into an absent row, a cancel or an expiry of an
  open one, or a report with its row.  `TerminalStaysFinal` and
  `LastReportStands` follow from it: a status that equals the last report is
  neither absent nor open, so no INSERT, cancel or expiry matches it.
- `OneOpenPerEngineHolds`: `OneOpenPerEngine` needs a strengthening, `OpensInv`
  (live OPENs were written by an engine of `Engines`, and none by an engine that is between its
  commits).  It survives `Tick`, which may only end the life of OPENs.
  `SingleEngineOneLiveOpen` (no run checks it) is the positive side of the first finding, and
  `LiveOpensBounded` its measure: live OPENs of an account map one to one into the
  engines, so there are never more of them, for finitely many engines.
- `ClosedStaysUnserved` (no run checks it): the SELECT looks at the status in its own
  transaction, so a row closed after the poll's first one is not delivered.
- `ImplementsLifecycleSafety`: initial states and steps map to those of
  `CommandLifecycle`; it needs that a report under way is about a row
  that exists (`ReportsKnown`).

- `UrgentFirst`: the fetch filters with the time its poll read before the expiry
  commit.  `TimesInv` says that such a time is never ahead of the clock, so what
  is live now is among the rows the page was chosen from.
- `CancelledAreReplaced`, if no engine is fragile: an engine between its commits will
  insert a row that outlives those it cancelled (`CancelInv`), as its time was read
  before its cancel and no earlier engine's time is ahead of the clock (`TimesInv`).
- `AuditNeverAhead`, for finitely many threads: recording a report adds one thread
  to those that owe an audit event, writing the event takes it away, and a death
  only makes them fewer.

- `ActiveOnesAreClosed`: if the clock runs out, one thread's requests end, and the
  polls of one EA, of whatever account, find a thread.  `ExpiryComes` says that every
  row in the table, and every row an engine is about to insert, expires before the
  clock stops; the poll that comes after that closes all rows that are still active.
- `ImplementsLifecycleFairly`: with the same hypotheses, no command stays queued,
  which is what the weak fairness of `CommandLifecycle`'s closing step asks for.

## 4. Retention (`Retention`)

`weekly_cleanup.py` computes one cutoff, seven days back, and then runs three
deletes, each with a commit: terminal commands by `executed_at`, terminal
reports by their own time if their command is still in the table, and sessions.

| code | actions |
|---|---|
| `create_open_command`, `_cancel_pending_open` | `Create`, `Replace` (a cancel writes `executed_at`) |
| the expiry in `poll_commands` | `PollExpire` (it does not) |
| `report_execution`: the check, then the commit of report and row | `ReportCheck`, `ReportRecord`, `WorkerAbort` |
| `run_cleanup`, one action per commit | `CleanCommands`, `CleanReports`, `CleanSessions`, `JobAbort` |

A row of `trading_commands` is here its status, `expires` and `executed_at`
(`NULL` until something writes it); a report is its command, status and time.
A thread between check and commit may find the row gone: the UPDATE matches no
row and the transaction, the report included, is undone.  The third delete is only
a step of the job: its effect is in `Sessions` (section 6).

| run | instance | shows |
|---|---|---|
| `records` | 1 command, 2 report threads, clock to 6 | `RetTypeOK`, `OrphansAreOld`, `ClosingReportKept`, `DeletedIsFinal`, `DatedEventuallyDeleted` |
| `retention_undated` | one report thread, clock to 5 | violates `ClosedEventuallyDeleted` |

The finding: commands that a poll expired have no `executed_at` and are never
deleted.  The reports of a deleted command are never
deleted either, since the commands go first: section 8.

Run `records` is shared with the sessions of section 6.  The two modules have no state in
common, and `MCRecords` lets one of them go on while the other rests in its initial state;
the fairness of each binds it in the behaviours in which it is the one that goes on.

A command lives one tick and a row is kept one tick (`Retain` stands for seven
days), so six ticks hold its creation, a late report, its ageing and several runs of the
job; `InTime` lets a row be written only while the clock can still carry it past
retention.  Commands do not interact in this job, except by being in the same
statement, so one command with two report threads is enough.  `RetFairness` assumes
that the clock runs, that somebody polls, and that the job, which is started
every week, gets through its first two deletes again and again although runs
of it may die (`SF` of `CleanCommands` and `CleanReports`).

`RetentionProofs.tla` proves `RetentionTypes`, `DeletedStaysDeleted`,
`OrphansStayOld` and `ClosingReportsStay` for every value of the constants.
`OrphansAreOld` needs `DatesInv`: no report is later than its row's
`executed_at`, so what goes with the row's date is old by its own.
`ClosingReportKept` needs `CutoffInv` besides: a job that has passed its first
delete has left no terminal row with an `executed_at` before its cutoff,
whatever threads commit meanwhile, so the second delete takes no closing
report of a row that is still there.  `DatedAreDeleted` is the liveness: `TimeLeft`, the
bound says that every date has the time to grow old before the clock stops; from then on
no row gets a date, and the first delete of a later run takes all that have one.

## 5. The EA (`EAClient`)

The released EA is one thread: `OnInit`, then `OnTimer` every few seconds.  It
speaks the signal protocol that precedes the command queue: its server is
external here and may repeat a signal, withdraw it, and forget the session.  The
API server of this repository answers its poll with `commands` that have a
`signal_id` but no `action`; of these the EA does nothing
(`ProcessSignals`, line 372), which is why some signals are `Actionless`.

| code | actions |
|---|---|
| `RestoreLocalState`, `Authenticate` in `OnInit` | `RestoreLocalState`, `Authenticate`, `AuthenticateFails` |
| `OnTimer`: authenticate if the token is empty, heartbeat, poll | `OnTimer`, `Authenticate`, `Heartbeat`, `PollSignals`, `PollFails` |
| `IsDuplicateSignal`, `ProcessSignals` | `PollSignals` up to the order, `PollUnread` when the ledger does not open for reading; then `ExecuteOpen` or `ExecuteClose` |
| `AppendProcessedSignal`, `MarkSignalProcessed` | `MarkSignalProcessed`; `MarkRewrites` when only the second `FileOpen` succeeds, which empties the file; `MarkFails` when neither does |
| `ReportExecution` | `ReportExecution` |
| the terminal dies | `Crash` |

`pc` is the next request, order or file write; `live` is the pair of inputs
`Inp_AllowTrading`, `Inp_ShadowMode`, which may differ after a restart.  The
`ledger` is the CSV file as its reader sees it: fields in a row, of
which `IsDuplicateSignal` compares some, by position.  `AppendProcessedSignal`
writes five fields a row and a five-field header; `RestoreLocalState` writes a
header that is one string, in another encoding, and how many fields the ANSI
reader finds in it is left open (`HeaderWidths`, one to four; a file
recognised as Unicode gives one).  `fills` and `lapses` are history: a lapse of a
signal is each time the ledger fails it, that is

- a crash between its order and its line, or an append that opens the file in neither way;
- an append of another signal that rewrites the file and so drops its line;
- a run that processes it although it has its line, because the file does not open for
  reading or has the header that `OnInit` writes.

| run | instance | shows |
|---|---|---|
| `ea_client` | an opening and a closing signal, two crashes or files that do not open, one forgotten session | `EATypeOK`, `AtMostOncePerLapse`, `HeadIsProcessed` |
| `ea_ledger` | two signals | violates `LedgerPreventsDuplicates` |
| `ea_session` | two signals, one forgotten session | violates `RefusedTokenIsReplaced` |

Two findings.  `OnInit` creates the file before the first append, so the header is
the string and no id is ever compared (`ea_ledger`; the EA's README has the file prevent
duplicates).  Only a file that an append has rewritten (the five-field header) or created
(no header) is read by its rows: `AtMostOncePerLapse` says for every kind of file that
there are no second fills but those the list above explains.  And a refused token is kept:
`OnTimer` authenticates only when it has none, and no refusal takes it away (`ea_session`;
the contract's error table has a client re-authenticate).

`MaxRows` = 2 lets a signal be written twice, which is what a ledger that
does not work makes of it, and never holds back a first execution; `MaxMishaps` = 2
gives each failure after each other, a rewritten file that does not open included, and
`MaxLosses` = 1 a refused token.  The crash
of the terminal is also what a removed and re-attached EA looks like.
`HeadIsProcessed` assumes that the terminal is started again, that a handler goes on
(its requests have time-outs of five seconds, so each succeeds or fails), and
that authentication and the poll, sent again and again, succeed some time (`SF`).
It excludes a session that the server has forgotten, which is the second finding; it
excludes a signal that the ledger has failed, whose line is missing; and it is about the first signal of an
answer, because the EA looks at no other.

`EAClientProofs.tla` proves, for any signals and header widths:
`ReadableLedger`, the reader finds exactly the rows of a file with the
five-field header (an argument about positions modulo five);
`LineLedgerFindsNothing`, it finds nothing at all in one with the string;
`EATypes`; and from `FillsInv`, which ties a fill to its line, to a lapse, or
to the step between the two, `FilledOncePerLapse`.  `HeadsAreProcessed` is the liveness, for `MaxRows > 0` (a
bound of zero would forbid the first line).  If the head waited for ever, the EA would
some time have its token for good; then it polls again and again, a signal without a
line is a duplicate in neither kind of ledger (`WaitingCanPoll`), and the execution an
answered poll starts can end, once mishaps have, only with its line.

## 6. Sessions and licences (`Sessions`, `TokenLifecycle`)

| code | actions |
|---|---|
| `activate`: the licence's SELECT, the binding's SELECT, the INSERT's commit | `ActivateLicense`, `ActivateBinding`, `ActivateInsert` |
| `heartbeat`: the session's SELECT, the UPDATE's commit | `HeartbeatRead`, `HeartbeatWrite` (a row deleted in between makes the commit fail) |
| `logout`; `submit_position_snapshot`: the session's check, the INSERT's commit | `Logout`; `SnapshotCheck`, `SnapshotInsert` |
| a request that dies | `ThreadAbort` |
| `create_license`, `extend_license`, `revoke_license`, `bind_account`, `unbind_account`, `suspend_account` | `CreateLicense`, `ExtendLicense`, `RevokeLicense`, `BindAccount`, `UnbindAccount`, `SuspendAccount` |
| the cleanup's third delete: its time, its statement | `SweepStart`, `SweepSessions` |

The column `suspended` of a licence is set by nothing and left out, as are
customers with their seat limit, which no operation reads.  No request compares a
session's expiry with the time: a session lives until logout or cleanup, and the
model has it so.

Run `records`, in its other half: one licence, a customer and an account nobody binds, two tokens,
one thread, terms before and after the clock's end.  A property relates the
steps of one request to what others commit in between; the administrator, logout
and the job commit without a thread of the model, so one thread is enough for each
request to meet them, and the theorems hold for any number.  `BlockedIssuesNothingNew` counts: after a
licence is revoked or has run out, and after an account is unbound or suspended,
only the activations that had read the row before still bring forth sessions.
`SnapshotsAreOwn` relates the snapshot table to bindings that were made once.
`BeatenSessionsStay`: the job's statement takes nothing that a heartbeat extended
since the job read its time.  `SilentSessionsEnd` assumes `WF` of the clock, of the
rest of a request, and of the job, which cron starts for ever; `BeforeEnd` is
the bound that lets an EA fall silent before the clock ends.
`ImplementsTokenLifecycle` maps a session to its state and its holder: a token is
handed out once, for one account, and never comes back.

`SessionsProofs.tla` proves all of these; `SilentOnesEnd`, the liveness, needs only the
job and the clock: `ExpiryComes` bounds what a heartbeat may still write.
`BlockedMeansNothingNew` has the lemmas about cardinalities: each step moves at most one
member between two finite sets.  `SnapshotsStayOwn` needs that whatever is under
way behind the binding, or holds a session, belongs to a customer.

## 7. Decisions (`EntryGate`, `Supervisor`, `MarketFeed`)

These three share no state in the code, only the queue they write to.
`MCDecisions` puts them side by side: one of them moves while the others rest in
one initial state, so the run explores each by itself and their properties are
checked together at the cost of the sum, not the product, of their
states.  The fairness of a part is that of the part alone: `WF` of a provider's
step is taken only where the others rest, as they do in every
state in which it has begun.  Nothing in the repository but the tests calls the signal engine, the
supervisor, the calendar and the feed; that they are called again and
again, and the supervisor by one caller at a time, is an assumption about the
deployment.

### The entry gate

| code | actions |
|---|---|
| the calendar's `run`, the checks of the signal engine's `run` | `Ask` with `EventBlock`, `BlocksAt`, `EventTime`, `AfterChecks` |
| `get_provider`, the loop of `DeepSeekProvider.generate`, `MockProvider.generate` | `ReviewStep`, `Answer`, `CallFails` with `LastAttempt`, `BackOff`, `MockReview` |
| the orchestrator's `run`, `_validate_contract`; the engine's look at the decision | `Answer`, `Judge` |
| the call of the publisher and its `except` | `Publish`, `PublishFails` |
| clock, kill switch (external) | `Tick`, `ThrowKillSwitch` |

An orchestrator error has no `"response"`, and the engine's access to it raises
`KeyError`: such a run ends as `raised`, and so does one whose payload has no entry or
values the risk rules cannot read.  The entry conditions other than event and kill
switch (symbol, regime, trigger, spread) may each block: `Ask` leaves that open.  Symbols, risk
figures and prompts are left out.  An event without a time is put a week from now,
and so is a caller's missing `now`; both are modelled.  In the instance a
window is the hour (two ticks) before a hard event at 3; the clock goes to 4, so
that a candidate can be asked about before, in and after it; one event has no
time and one an impact that the calendar's provider uses ("high"), which blocks
nothing.  The settings are two attempts, none, and the mock.  Candidates do not
interact, so one is enough.

`OpensReviewed`: with a provider and attempts configured, a candidate that must be
reviewed does not open without its approval.  `ReviewsEnd` assumes `WF` of a run's steps:
a request ends, if only by the time-outs of httpx, which are per operation.

The finding (`gate_fallback`): the comment and the log line behind the loop of attempts
say that the mock provider takes over when all of them have failed.  The last attempt
raises, so the mock follows only no attempt at all; `FallbackToMock` is violated by the
failure of the last call.  That the code is safer than its comment is `OpensReviewed`.

What the model has and no property bounds: calendar and kill switch are looked at before
the review and not again, so an OPEN may be published in a window that began
meanwhile, or with the switch on; and a run whose publisher raised after its commit says
that it has no command.

### The supervisor and the risk rules

| code | actions |
|---|---|
| `run` up to rule 1 | `RunStart` (the payload is a copy of the position; its stop may be the first or the present one) |
| `_get_latest_ai_signal` and its `except` | `ReadSignal`, `ReadSignalFails` |
| `_check_direction_reversal` | `NoReversal`, `PublishClose`, `PublishCloseFails` (an exception before the commit or after it) |
| `_check_profit_protection`, `breakeven_action` | `Protect` with `RuleTwo`, `Protection`, `Progressed`, `ProtectiveSl`, `PayloadStops` |
| the initial stop in `risk_manager` | `InitialSl` |
| `inject_test_signal.py`, `send_directed_test_signal.py` | `InsertSignal` |
| market, broker, EA, trader (external) | `PriceMove`, `Open`, `ExecuteClose`, `ExecuteModify`, `DropCommand`, `MoveStopByHand` |

Prices are integers in steps of the fee buffer's resolution, the trigger of 0.8 R
is the comparison `5 * profit >= 4 * risk`.  Plans are any: a structure stop may lie
as near as it likes, or on the wrong side, in which case the broker refuses the order.
Stops may be moved by hand to any price on the broker's side.  A stop at the entry makes
the divisor zero: `Protection` raises.  Rows of the queue are a set, a copy of a row being
the same member, and a command may stay behind when it is executed: that is its copy.
`position_ref`, the ticket, is a column of the row and not part of the poll's answer
(`routers_client.py:180-227`), and no payload has it.  `ExecuteClose` therefore closes any
of the positions there are, as `CloseAllPositions` of the EA does until an order
fails, and `ExecuteModify` sets the stop of any of them.

`ClosesAreContradicted`: while a position is open, a CLOSE_FULL row that names it means
that a newest signal contradicted it in its life (the `contrary` history), however late
the run that had read the signal committed and whatever else was closed and opened
meanwhile.  What such a row closes when it is executed is not promised.
`MovesStayBehindPrice`: a run asks for a stop that is behind the price it was given, from
the first stop and from one that was moved, except where 0.8 of the risk is within the
fee buffer; there the new stop may be past the price, and the instance has such a plan.
`ContradictedEnd` assumes, for each position, `SF` of a run's start, of the signal's read and
of publishing the close: every position is supervised again and again, and the
database does not fail for ever.  It must be said of each position: a caller that
looks at one of two positions only satisfies the fairness of the steps as such, and the other
position stays open.  It also assumes `SF` of `EverythingCloses`: an EA that is told to close
while something is open does, some time, close everything.

Run `decisions` has two positions: a buy with its stop from the distance and a sell with a
structure stop that lies within the buffer.  The prices are the entry, one
above it, at which the buy's move is due and the sell is stopped, and one below, at which
the sell's move is due and a buy is stopped whose stop was moved.  Both may
be open at once, each before or after any step about the other.  After the first signal
every signal has a side (`SignalsHaveSides` of `MCDecisions`).

### The market feed

| code | actions |
|---|---|
| `Service.run`, `_fetch_http` | `FeedStart`, `FetchStart`, `FeedEnd`, `FeedReturn` |
| `_fetch_with_retry`, `_classify_error`, `fetch_bars` | `Request` with `WaitsAgain`, `Retried`, `Reported`; `FetchEnd` |
| `MT5WineProvider.get_bars`, `_connect`, `health_probe` | `WineStart`, `WineConnect`, `WineBars`, `WineNoBars`, `WineRaises`, `WineGivesUp`, `WineProbe` |
| the bridge (external) | `BridgeChange` |

An answer is one of fifteen kinds, by the branch of the code it takes: among them a 200
with an `error` instead of bars, reported as `API error` and not as empty; a 3xx, which is an
`HTTP_FAIL` and not retried; and a 401 or 403 whose JSON is no object, which is a
`BAD_PAYLOAD`.  A 401 or 403
is raised inside the `try` whose last `except` catches it, so it is retried, against
the comment above it (line 297); a `Retry-After` leaves no error behind.
`ErrorIsOfLastAnswer` says that each timeframe is reported with the
class of its last answer all the same.  `WineRecovers`: once the bridge serves
bars for good, bars come back again and again, because an exception gives up the
connection that died; it assumes only `WF` of the provider's steps, and is
checked from a bridge that is down.  Three HTTP attempts give a first, a middle and a
last one, two timeframes a mixed result, two Wine attempts one that finds the
dead connection and one that replaces it.

### Proofs

For any candidates, events, settings, positions, prices, attempts:
`EntryGateProofs` proves the two invariants of the gate (`AttemptsLeft`, that a
call belongs to an attempt of the loop, is what types need; `GateInv` says what a candidate
in each place was answered by).
`SupervisorProofs` has `SupInv`: a CLOSE_FULL row, or a run that saw a reversal, is about a
position that has been opened and is contradicted or no longer open.
`MoveBehindPrice` is the arithmetic: from any stop, progress past the trigger
puts the protective stop behind the price, or the risk is at most 5/4 of the buffer.
`ClosesWereContradicted` and `MovesAreBehind` follow.  `MarketFeedProofs` has `FeedInv`: a
loop with no attempt left holds the class of its last answer, since the last attempt never
waits.

The liveness of the three.  `TurnsEnd`: from any attempt a run that goes on ends, or
comes to the next one, which the settings still allow; `ReviewsComeToAnEnd` follows
for runs whose attempts end.  `ContradictedOnesEnd`, for any number of positions: a
contradicted position is supervised some time, that run reads the signal and
publishes unless the signal changed (`ChainSteps`), and a command to close that stays or
comes back is executed on everything some time.
`BarsReturn`: whatever place the Wine provider is in when the bridge begins to serve,
each of its steps leads to a living connection and from there to bars, for any number
of attempts (`WineStepsOn`).

## 8. Not modelled, and disagreements without a run

- Event and ETF providers: two caches that no decision reads.  The event
  provider's impacts are high, medium and low, the gate's only one is "hard".  The
  ETF provider's first symbol of a refresh marks the whole cache as fresh.
- The mt5linux provider, which no service calls; market structure, EA health and
  the other stateless helpers; `trailing_action`, which nothing calls.
- Prompts, message texts, volumes, take-profit levels, deployment, migrations,
  the shadow scripts' offline reports, and the older copy of the feed.
- The result of a supervisor's run that has committed a CLOSE_FULL names a variable that only
  the other branch assigns (`position_supervisor/service.py:105`): the run raises
  `UnboundLocalError` where `tests/contracts/test_commercial_v11.py:436-437` expects its
  command ids.  `PublishClose` ends the run, and `ContradictedEnd` covers what its caller
  does again.
- A CLOSE_FULL or MODIFY_SL does not say which position it is for (`position_ref` is not
  delivered), though the runbook has the EA find the position by it
  (`docs/runbook/ea_execution_lifecycle.md:184`): a late copy closes what is open then.
- The runbook promises that a stop is never loosened (`docs/runbook/ea_execution_lifecycle.md`,
  lines 185-187 of the EA, 380-382 of the supervisor).  The supervisor does not compare its
  level with the present stop and the EA in this repository handles no MODIFY_SL, so a
  stop that a trader has moved further may be put back.
- "Terminal state execution reports older than 7 days"
  (`docs/COMMERCIAL_V11_IMPLEMENTATION_REPORT.md:206`, also `weekly_cleanup.py:7`) are
  deleted only if their command is still in the table, and the same run has deleted
  that first: the reports of a deleted command stay for ever.
- "don't retry these" says a comment of 401 and 403 (`mt5_http_provider.py:297`).  They
  are retried: the exception is raised inside the `try` whose last `except` catches it.
- New entries are blocked before a hard event (`docs/events/event_handling_stage2.md:12`):
  the check comes before the review and not again before the publication.
- The `stabilization_required` flag of the calendar, which
  `docs/events/event_handling_stage2.md` asks for (line 14), is computed and read
  by nothing.
- `send_directed_test_signal.py` has a CLOSE that carries no side, so it
  contradicts nothing.

## 9. Conventions

Names beginning with `Slip` are wrong versions of the definition that
follows; no action uses them.  They record, for each property, a plausible
mistake which that property notices.
