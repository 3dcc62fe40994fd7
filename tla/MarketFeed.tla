----------------------------- MODULE MarketFeed -----------------------------
(***************************************************************************)
(* Two providers of price bars.  The feed service asks the HTTP provider   *)
(* once per timeframe, and each request is retried by the kind of answer   *)
(* it gets.  The Wine provider keeps one connection to a bridge that goes  *)
(* down, comes back, and may have no bars to give.                         *)
(***************************************************************************)
EXTENDS Integers, Sequences

CONSTANTS
    Timeframes,  \* how many timeframes the service is asked for
    Retry,       \* MT5_HTTPAPI_RETRY
    Attempts     \* retries of the Wine provider

VARIABLES
    feed,    \* a run of the service, and the results it has so far
    fetch,   \* the loop of _fetch_with_retry
    bridge,  \* "down", "up" without bars, or "serving" them
    wine     \* the Wine provider, with a get_bars that may be under way

feedVars == <<feed, fetch, bridge, wine>>

ASSUME FeedConstantsOK ==
    Timeframes \in Nat /\ Retry \in Nat \ {0} /\ Attempts \in Nat \ {0}

-----------------------------------------------------------------------------
(* The kinds of answer and what they are reported as.                      *)

\* "refused" is 401 or 403, "misfit" one whose JSON is not an object; "wait" and
\* "limited" are 429 with Retry-After and without; "client" is any other 4xx and
\* "redirect" a 3xx; "garbled" is a refusal whose body is not JSON or a
\* Retry-After that is not a number: both end in a ValueError.
Retried == {"refused", "misfit", "wait", "limited", "server", "timeout", "transport"}

\* A 200: "text" is no JSON, "empty" has no bars, "fault" an "error" instead of
\* them, and "bad" has unreadable ones.
Bodies == {"bars", "text", "empty", "fault", "bad"}

Answers == Retried \cup Bodies \cup {"client", "redirect", "garbled"}

\* _classify_error with the except clauses of the loop and of fetch_bars.  A
\* refusal is caught as BAD_PAYLOAD inside the loop; the AUTH class stays in
\* its text and is what fetch_bars goes by.
Reported(answer) ==
    CASE answer = "refused" -> "AUTH"
      [] answer \in {"wait", "limited"} -> "RATE_LIMIT"
      [] answer = "server" -> "UPSTREAM_ERROR"
      [] answer = "client" -> "UNKNOWN_ERROR"
      [] answer = "timeout" -> "TIMEOUT"
      [] answer \in {"transport", "redirect"} -> "HTTP_FAIL"
      [] answer \in {"text", "bad", "misfit"} -> "BAD_PAYLOAD"
      [] answer = "empty" -> "EMPTY_DATA"
      [] answer = "fault" -> "API error"
      [] answer = "garbled" -> "unclassified"
      [] answer = "bars" -> "ok"
      [] answer = "unsent" -> "CONFIG_ERROR"

Reports == {Reported(a) : a \in Answers \cup {"unsent"}}

Result(report, answer) == [report |-> report, answer |-> answer]
Results == [report : Reports \cup {"none"}, answer : Answers \cup {"unsent"}]

\* answer is a history: what the last request of the timeframe was answered.
FeedTypeOK ==
    /\ feed.at \in {"idle", "asking", "success", "error"}
    /\ feed.auth \in {"ok", "missing"}
    /\ feed.results \in Seq(Results) /\ Len(feed.results) <= Timeframes
    /\ fetch \in [at : {"idle", "loop", "over"}, attempt : 0..Retry,
                  error : Reports \cup {"none"}, answer : Answers \cup {"unsent"}]
    /\ bridge \in {"down", "up", "serving"}
    /\ wine \in [at : {"idle", "loop"}, attempt : 0..Attempts,
                 conn : {"none", "live", "dead"}, got : {"none", "bars", "empty"},
                 reason : {"none", "NO_BARS", "CONNECTION_FAIL", "TIMEOUT", "EXCEPTION", "UNKNOWN"}]

IdleFetch == [at |-> "idle", attempt |-> 0, error |-> "none", answer |-> "unsent"]

IdleFeed(auth) == [at |-> "idle", auth |-> auth, results |-> <<>>]
IdleWine == [at |-> "idle", attempt |-> 0, conn |-> "none", got |-> "none", reason |-> "none"]

FeedInit ==
    /\ feed \in {IdleFeed("ok"), IdleFeed("missing")}
    /\ fetch = IdleFetch
    /\ bridge = "down"
    /\ wine = IdleWine

-----------------------------------------------------------------------------
(* The feed service and the HTTP provider.                                 *)

\* The Wine source answers with an error here, as a source unknown does.
FeedStart ==
    /\ feed.at = "idle"
    /\ feed' \in {[feed EXCEPT !.at = "asking"], [feed EXCEPT !.at = "error"]}
    /\ UNCHANGED <<fetch, bridge, wine>>

Pending == feed.at = "asking" /\ Len(feed.results) < Timeframes

\* _get_auth_headers may find nothing to send, and no request is made.
FetchStart ==
    /\ Pending
    /\ fetch.at = "idle"
    /\ IF feed.auth = "ok"
       THEN /\ fetch' = [IdleFetch EXCEPT !.at = "loop"]
            /\ UNCHANGED feed
       ELSE /\ feed' = [feed EXCEPT !.results =
                           Append(@, Result("CONFIG_ERROR", "unsent"))]
            /\ UNCHANGED fetch
    /\ UNCHANGED <<bridge, wine>>

\* Slip (not the code): the last attempt waits for Retry-After too.
SlipWaitsAgain(answer, attempt) == answer = "wait"

WaitsAgain(answer, attempt) == answer = "wait" /\ attempt < Retry - 1

\* One request and its except clause.  A wait continues without an error.
Request ==
    /\ fetch.at = "loop"
    /\ fetch.attempt < Retry
    /\ \E answer \in Answers :
          fetch' =
            IF WaitsAgain(answer, fetch.attempt)
            THEN [fetch EXCEPT !.answer = answer, !.attempt = @ + 1]
            ELSE IF answer \in Retried
            THEN [fetch EXCEPT !.answer = answer, !.attempt = @ + 1,
                               !.error = Reported(answer)]
            ELSE [fetch EXCEPT !.answer = answer, !.at = "over",
                               !.error = Reported(answer)]
    /\ UNCHANGED <<feed, bridge, wine>>

\* The loop was left, or has no attempt left: fetch_bars has its result.
FetchEnd ==
    /\ \/ fetch.at = "over"
       \/ fetch.at = "loop" /\ fetch.attempt = Retry
    /\ feed' = [feed EXCEPT !.results = Append(@, Result(fetch.error, fetch.answer))]
    /\ fetch' = IdleFetch
    /\ UNCHANGED <<bridge, wine>>

Succeeded == \E i \in DOMAIN feed.results : feed.results[i].report = "ok"

FeedEnd ==
    /\ feed.at = "asking"
    /\ ~ Pending
    /\ feed' = [feed EXCEPT !.at = IF Succeeded THEN "success" ELSE "error"]
    /\ UNCHANGED <<fetch, bridge, wine>>

FeedReturn ==
    /\ feed.at \in {"success", "error"}
    /\ feed' = [feed EXCEPT !.at = "idle", !.results = <<>>]
    /\ UNCHANGED <<fetch, bridge, wine>>

-----------------------------------------------------------------------------
(* The Wine provider.                                                      *)

BridgeChange ==
    \E b \in {"down", "up", "serving"} \ {bridge} :
        /\ bridge' = b
        /\ wine' = IF b = "down" /\ wine.conn = "live"
                   THEN [wine EXCEPT !.conn = "dead"] ELSE wine
        /\ UNCHANGED <<feed, fetch>>

\* Slip (not the code): a healthy probe is taken as a first attempt made.
SlipGetBars(conn) ==
    wine' = [wine EXCEPT !.at = "loop", !.attempt = 1 + Attempts, !.conn = conn]

GetBars(conn) ==
    wine' = [wine EXCEPT !.at = "loop", !.attempt = 0, !.conn = conn, !.got = "none"]

WineStart ==
    /\ wine.at = "idle"
    /\ GetBars(wine.conn)
    /\ UNCHANGED <<feed, fetch, bridge>>

\* health_probe connects anew, whatever connection there is.
WineProbe ==
    /\ wine.at = "idle"
    /\ IF bridge = "down" THEN wine' = [wine EXCEPT !.got = "empty"] ELSE GetBars("live")
    /\ UNCHANGED <<feed, fetch, bridge>>

Trying == wine.at = "loop" /\ wine.attempt < Attempts

\* A failed connect goes on at once and leaves the reason of an earlier failure.
WineConnect ==
    /\ Trying
    /\ wine.conn = "none"
    /\ wine' = IF bridge = "down" THEN [wine EXCEPT !.attempt = @ + 1]
               ELSE [wine EXCEPT !.conn = "live"]
    /\ UNCHANGED <<feed, fetch, bridge>>

WineBars ==
    /\ Trying
    /\ wine.conn = "live" /\ bridge = "serving"
    /\ wine' = [wine EXCEPT !.at = "idle", !.got = "bars", !.reason = "none"]
    /\ UNCHANGED <<feed, fetch, bridge>>

WineNoBars ==
    /\ Trying
    /\ wine.conn = "live" /\ bridge = "up"
    /\ wine' = [wine EXCEPT !.attempt = @ + 1, !.reason = "NO_BARS"]
    /\ UNCHANGED <<feed, fetch, bridge>>

\* Slip (not the code): the connection is kept after an exception.
SlipAfterException(conn) == conn

AfterException(conn) == "none"

\* A dead connection raises, and so does a terminal that does not answer.
WineRaises ==
    /\ Trying
    /\ wine.conn = "dead" \/ (wine.conn = "live" /\ bridge = "up")
    /\ \E reason \in {"CONNECTION_FAIL", "TIMEOUT", "EXCEPTION"} :
          wine' = [wine EXCEPT !.attempt = @ + 1, !.reason = reason,
                               !.conn = AfterException(wine.conn)]
    /\ UNCHANGED <<feed, fetch, bridge>>

WineGivesUp ==
    /\ wine.at = "loop"
    /\ wine.attempt = Attempts
    /\ wine' = [wine EXCEPT !.at = "idle", !.got = "empty",
                            !.reason = IF @ = "none" THEN "UNKNOWN" ELSE @]
    /\ UNCHANGED <<feed, fetch, bridge>>

WineStep ==
    \/ WineStart \/ WineProbe \/ WineConnect \/ WineBars \/ WineNoBars
    \/ WineRaises \/ WineGivesUp

HttpNext == FeedStart \/ FetchStart \/ Request \/ FetchEnd \/ FeedEnd \/ FeedReturn
WineNext == BridgeChange \/ WineStep
FeedNext == HttpNext \/ WineNext

FeedSpec == FeedInit /\ [][FeedNext]_feedVars

\* The callers ask again and again, and an attempt ends.
FeedFairness == WF_feedVars(WineStep)

-----------------------------------------------------------------------------
(* Properties.                                                             *)

\* What the service returns for a timeframe is the class of the last answer the
\* provider got for it: no error of an earlier attempt is left standing when a
\* later one was answered differently, and none is missing.  Whether the last
\* attempt should have been made is another question: a refusal is retried.
ErrorIsOfLastAnswer ==
    \A i \in DOMAIN feed.results :
        feed.results[i].report = Reported(feed.results[i].answer)

\* Once the bridge serves bars for good the Wine provider returns bars again
\* and again: no connection to an earlier life of the bridge is kept.
WineRecovers == <>[](bridge = "serving") => []<>(wine.got = "bars")

=============================================================================
