----------------------------- MODULE EntryGate ------------------------------
(***************************************************************************)
(* The way of an entry candidate to an OPEN command: the event calendar    *)
(* and the kill switch are read into a payload, the signal engine checks   *)
(* that payload, a language model reviews the candidate, and the command   *)
(* is published.  Candidates are under way at the same time, the clock and *)
(* the kill switch go on, and the model's service may time out, refuse or  *)
(* answer outside its contract.                                            *)
(***************************************************************************)
EXTENDS Integers

CONSTANTS
    Candidates,   \* calls of the signal engine
    Events,       \* rows of the event calendar
    When,         \* per event: its time, NoTime when the row has none
    NoTime,
    Impact,       \* per event: "hard" or anything else
    Hour, Week,   \* in ticks of the clock
    Settings,     \* what provider and ai_max_retries may be set to
    MaxClock      \* bound

VARIABLES
    settings,     \* read once and cached for the life of the process
    clock,
    killSwitch,
    cand,         \* per candidate: what its run knows
    opened        \* candidates with a row in trading_commands

gateVars == <<settings, clock, killSwitch, cand, opened>>

Passing == {"approve", "adjust"}
Decisions == Passing \cup {"restrict", "reject"}

\* A decision that breaks the contract is "invalid"; a candidate that was not
\* reviewed has "skipped".
Reviews == Decisions \cup {"invalid", "skipped"}

ASSUME GateConstantsOK ==
    /\ NoTime \notin Int
    /\ When \in [Events -> Nat \cup {NoTime}]
    /\ Hour \in Nat /\ Week \in Nat /\ Hour > 0
    /\ Settings \subseteq [provider : {"deepseek", "mock"}, retries : Nat]
    /\ MaxClock \in Nat

NewCandidate ==
    [at |-> "new", review |-> "required", attempt |-> 0, by |-> "none",
     decision |-> "skipped"]

GateTypeOK ==
    /\ settings \in Settings
    /\ clock \in 0..MaxClock
    /\ killSwitch \in {"on", "off"}
    /\ cand \in [Candidates ->
          [at : {"new", "review", "call", "sleep", "decide", "publish",
                 "approved", "blocked", "raised"},
           review : {"required", "skipped"}, attempt : 0..settings.retries,
           by : {"none", "mock", "deepseek"}, decision : Reviews]]
    /\ opened \subseteq Candidates

GateInit ==
    /\ settings \in Settings
    /\ clock = 0
    /\ killSwitch = "off"
    /\ cand = [c \in Candidates |-> NewCandidate]
    /\ opened = {}

-----------------------------------------------------------------------------
(* The event calendar.                                                     *)

\* An event without a time is a week away from the real clock.
EventTime(e) == IF When[e] = NoTime THEN clock + Week ELSE When[e]

BlocksAt(time, now) == -Hour <= now - time /\ now - time <= 0

EventBlock(now) == \E e \in Events : Impact[e] = "hard" /\ BlocksAt(EventTime(e), now)

-----------------------------------------------------------------------------
(* The signal engine, up to the review.                                    *)

AfterChecks(review) == IF review = "required" THEN "review" ELSE "publish"

\* The payload is put together from the calendar and the kill switch and is
\* checked at once; symbol, regime, trigger or spread may block it as well.  A
\* caller that gives the calendar no "now" asks about the time in a week, and
\* one that sets ai_review_required to false skips the review.  After the
\* checks a payload without an entry, or with values the risk rules cannot
\* read, ends the run with an exception.
Ask(c) ==
    /\ cand[c].at = "new"
    /\ \E review \in {"required", "skipped"}, asked \in {clock, clock + Week},
          at \in {"blocked", "raised", "review", "publish"} :
          /\ at # "blocked" => /\ ~ EventBlock(asked) /\ killSwitch = "off"
                              /\ at \in {"raised", AfterChecks(review)}
          /\ cand' = [cand EXCEPT ![c] = [@ EXCEPT !.at = at, !.review = review]]
    /\ UNCHANGED <<settings, clock, killSwitch, opened>>

-----------------------------------------------------------------------------
(* The review.                                                             *)

Decide(c, provider, decision) ==
    cand' = [cand EXCEPT ![c].at = "decide", ![c].by = provider, ![c].decision = decision]

\* MockProvider.generate for a candidate_signal_reviewer.
MockReview(c) == Decide(c, "mock", "approve")

\* The loop over attempts; past its end comes the mock provider.
ReviewStep(c) ==
    /\ cand[c].at = "review"
    /\ IF settings.provider = "deepseek" /\ cand[c].attempt < settings.retries
       THEN cand' = [cand EXCEPT ![c].at = "call"]
       ELSE MockReview(c)
    /\ UNCHANGED <<settings, clock, killSwitch, opened>>

\* Slip (not the code): the answer's action is taken for its decision.
SlipAnswer(c) ==
    /\ cand[c].at = "call"
    /\ Decide(c, "deepseek", "proceed")
    /\ UNCHANGED <<settings, clock, killSwitch, opened>>

\* An answer that can be read; _validate_contract looks at its decision.
Answer(c) ==
    /\ cand[c].at = "call"
    /\ \E decision \in Decisions \cup {"invalid"} : Decide(c, "deepseek", decision)
    /\ UNCHANGED <<settings, clock, killSwitch, opened>>

\* Slip (not the code): no attempt is taken for the last one.
SlipLastAttempt(attempt) == FALSE

LastAttempt(attempt) == attempt = settings.retries - 1

\* A time-out, an HTTP error or an answer that cannot be read: the last attempt
\* raises, which becomes an answer without a "response" and then a KeyError.
CallFails(c) ==
    /\ cand[c].at = "call"
    /\ cand' = [cand EXCEPT ![c].at =
          IF LastAttempt(cand[c].attempt) THEN "raised" ELSE "sleep"]
    /\ UNCHANGED <<settings, clock, killSwitch, opened>>

\* Slip (not the code): the attempt is not counted.
SlipBackOff(c) ==
    /\ cand[c].at = "sleep"
    /\ cand' = [cand EXCEPT ![c].at = "review"]
    /\ UNCHANGED <<settings, clock, killSwitch, opened>>

BackOff(c) ==
    /\ cand[c].at = "sleep"
    /\ cand' = [cand EXCEPT ![c].at = "review", ![c].attempt = @ + 1]
    /\ UNCHANGED <<settings, clock, killSwitch, opened>>

\* A contract error has no "response" either.
Judge(c) ==
    /\ cand[c].at = "decide"
    /\ cand' = [cand EXCEPT ![c].at =
          CASE cand[c].decision \in Passing -> "publish"
            [] cand[c].decision = "invalid" -> "raised"
            [] OTHER -> "blocked"]
    /\ UNCHANGED <<settings, clock, killSwitch, opened>>

-----------------------------------------------------------------------------
(* The command.                                                            *)

\* Told in the result, or, when an exception comes after the commit, not.
Publish(c) ==
    /\ cand[c].at = "publish"
    /\ opened' = opened \cup {c}
    /\ cand' = [cand EXCEPT ![c].at = "approved"]
    /\ UNCHANGED <<settings, clock, killSwitch>>

\* An exception, or no account to publish for: approved without a command.
PublishFails(c) ==
    /\ cand[c].at = "publish"
    /\ cand' = [cand EXCEPT ![c].at = "approved"]
    /\ UNCHANGED <<settings, clock, killSwitch, opened>>

Tick ==
    /\ clock < MaxClock
    /\ clock' = clock + 1
    /\ UNCHANGED <<settings, killSwitch, cand, opened>>

ThrowKillSwitch ==
    /\ killSwitch' = IF killSwitch = "on" THEN "off" ELSE "on"
    /\ UNCHANGED <<settings, clock, cand, opened>>

Process(c) ==
    \/ ReviewStep(c) \/ Answer(c) \/ CallFails(c) \/ BackOff(c) \/ Judge(c)
    \/ Publish(c) \/ PublishFails(c)

GateNext ==
    \/ \E c \in Candidates : Ask(c) \/ Process(c)
    \/ Tick
    \/ ThrowKillSwitch

GateSpec == GateInit /\ [][GateNext]_gateVars

\* A run goes on by itself; a request to the model's service ends, if only with
\* a time-out.
GateFairness == \A c \in Candidates : WF_gateVars(Process(c))

-----------------------------------------------------------------------------
(* Properties.                                                             *)

\* A candidate that must be reviewed gets an OPEN only on an approval that the
\* configured provider gave: running out of attempts never leads to the mock
\* provider, which approves everything.
OpensReviewed ==
    \A c \in opened :
        cand[c].review = "required" =>
        /\ cand[c].decision \in Passing
        /\ settings.provider = "deepseek" /\ settings.retries > 0 => cand[c].by = "deepseek"

\* "Fallback to mock if all retries fail": the failure of a call, the last one
\* included, does not end the review.  It does: the last attempt raises, and
\* the mock provider is what follows no attempt at all.
FallbackToMock ==
    [][\A c \in Candidates : CallFails(c) => cand[c].at' # "raised"]_gateVars

\* Every run of the signal engine ends, however often the provider fails.
ReviewsEnd ==
    \A c \in Candidates :
        cand[c].at = "review" ~> cand[c].at \in {"approved", "blocked", "raised"}

=============================================================================
