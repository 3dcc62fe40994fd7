-------------------------- MODULE MarketFeedProofs --------------------------
(***************************************************************************)
(* Proofs about MarketFeed, for any number of timeframes and attempts.     *)
(***************************************************************************)
EXTENDS MarketFeed, TLAPS

(* ------------------------------- Types ---------------------------------- *)

Feeds == [at : {"idle", "asking", "success", "error"}, auth : {"ok", "missing"},
          results : Seq(Results)]
Fetches == [at : {"idle", "loop", "over"}, attempt : 0..Retry,
            error : Reports \cup {"none"}, answer : Answers \cup {"unsent"}]
Wines == [at : {"idle", "loop"}, attempt : 0..Attempts,
          conn : {"none", "live", "dead"}, got : {"none", "bars", "empty"},
          reason : {"none", "NO_BARS", "CONNECTION_FAIL", "TIMEOUT", "EXCEPTION", "UNKNOWN"}]

LEMMA FeedMoves ==
    ASSUME NEW f \in Feeds
    PROVE  /\ [f EXCEPT !.at = "asking"] \in Feeds
           /\ [f EXCEPT !.at = "success"] \in Feeds
           /\ [f EXCEPT !.at = "error"] \in Feeds
BY DEF Feeds

LEMMA FeedAppends ==
    ASSUME NEW f \in Feeds, NEW r \in Results
    PROVE  [f EXCEPT !.results = Append(@, r)] \in Feeds
<1>1. f.results \in Seq(Results)
  BY DEF Feeds
<1>2. Append(f.results, r) \in Seq(Results)
  BY <1>1
<1> QED
  BY <1>2 DEF Feeds

LEMMA FeedReturns ==
    ASSUME NEW f \in Feeds
    PROVE  [f EXCEPT !.at = "idle", !.results = <<>>] \in Feeds
<1>1. <<>> \in Seq(Results)
  OBVIOUS
<1> QED
  BY <1>1 DEF Feeds

LEMMA FetchAnswered ==
    ASSUME NEW f \in Fetches, NEW answer \in Answers, NEW error \in Reports, f.attempt < Retry
    PROVE  /\ [f EXCEPT !.answer = answer, !.attempt = @ + 1] \in Fetches
           /\ [f EXCEPT !.answer = answer, !.attempt = @ + 1, !.error = error] \in Fetches
           /\ [f EXCEPT !.answer = answer, !.at = "over", !.error = error] \in Fetches
<1>1. f.attempt + 1 \in 0..Retry
  BY FeedConstantsOK DEF Fetches
<1> QED
  BY <1>1 DEF Fetches

LEMMA WineGoesOn ==
    ASSUME NEW w \in Wines, NEW conn \in {"none", "live", "dead"},
           NEW reason \in {"none", "NO_BARS", "CONNECTION_FAIL", "TIMEOUT", "EXCEPTION", "UNKNOWN"}
    PROVE  /\ [w EXCEPT !.conn = conn] \in Wines
           /\ [w EXCEPT !.got = "empty"] \in Wines
           /\ [w EXCEPT !.at = "loop", !.attempt = 0, !.conn = conn, !.got = "none"] \in Wines
           /\ [w EXCEPT !.at = "idle", !.got = "bars", !.reason = "none"] \in Wines
           /\ [w EXCEPT !.at = "idle", !.got = "empty", !.reason = reason] \in Wines
<1>1. 0 \in 0..Attempts
  BY FeedConstantsOK
<1> QED
  BY <1>1 DEF Wines

LEMMA WineTries ==
    ASSUME NEW w \in Wines, w.attempt < Attempts, NEW conn \in {"none", "live", "dead"},
           NEW reason \in {"none", "NO_BARS", "CONNECTION_FAIL", "TIMEOUT", "EXCEPTION", "UNKNOWN"}
    PROVE  /\ [w EXCEPT !.attempt = @ + 1] \in Wines
           /\ [w EXCEPT !.attempt = @ + 1, !.reason = reason] \in Wines
           /\ [w EXCEPT !.attempt = @ + 1, !.reason = reason, !.conn = conn] \in Wines
<1>1. w.attempt + 1 \in 0..Attempts
  BY FeedConstantsOK DEF Wines
<1> QED
  BY <1>1 DEF Wines

(* ---------------------- The inductive invariant ------------------------- *)

\* A fetch belongs to a run that still waits for a result, and what it leaves
\* the loop with is the class of its last answer: an answer that is waited for
\* without an error is never the last one.
FeedInv ==
    /\ feed \in Feeds
    /\ Len(feed.results) <= Timeframes
    /\ fetch \in Fetches
    /\ bridge \in {"down", "up", "serving"}
    /\ wine \in Wines
    /\ fetch.at = "idle" => fetch = IdleFetch
    /\ fetch.at # "idle" => Pending
    /\ fetch.at = "over" => fetch.error = Reported(fetch.answer)
    /\ fetch.at = "loop" /\ fetch.attempt = Retry => fetch.error = Reported(fetch.answer)
    /\ ErrorIsOfLastAnswer

LEMMA FeedInvTypes == FeedInv => FeedTypeOK
BY DEF FeedInv, FeedTypeOK, Feeds, Fetches, Wines

LEMMA FeedInvInit == FeedInit => FeedInv
<1> SUFFICES ASSUME FeedInit PROVE FeedInv
  OBVIOUS
<1>1. feed \in Feeds /\ feed.results = <<>>
  <2>1. <<>> \in Seq(Results)
    OBVIOUS
  <2>2. PICK auth \in {"ok", "missing"} : feed = IdleFeed(auth)
    BY DEF FeedInit
  <2>3. IdleFeed(auth) \in Feeds
    BY <2>1, Zenon DEF IdleFeed, Feeds
  <2> QED
    BY <2>2, <2>3 DEF IdleFeed
<1>2. fetch \in Fetches
  BY FeedConstantsOK DEF FeedInit, Fetches, IdleFetch
<1>3. wine \in Wines
  BY FeedConstantsOK DEF FeedInit, Wines, IdleWine
<1>4. fetch = IdleFetch /\ fetch.at = "idle" /\ bridge = "down"
  BY DEF FeedInit, IdleFetch
<1>5. ErrorIsOfLastAnswer
  BY <1>1 DEF ErrorIsOfLastAnswer
<1> QED
  BY <1>1, <1>2, <1>3, <1>4, <1>5, FeedConstantsOK DEF FeedInv

\* A result that is appended is the class of its answer, and one more fits.
LEMMA AppendKeeps ==
    ASSUME FeedInv, Pending, NEW answer \in Answers \cup {"unsent"},
           NEW report \in Reports \cup {"none"}, report = Reported(answer),
           feed' = [feed EXCEPT !.results = Append(@, Result(report, answer))]
    PROVE  /\ feed' \in Feeds
           /\ Len(feed'.results) <= Timeframes
           /\ ErrorIsOfLastAnswer'
<1>1. Result(report, answer) \in Results
  BY DEF Result, Results
<1>2. feed \in Feeds /\ feed.results \in Seq(Results)
  BY DEF FeedInv, Feeds
<1>3. feed' \in Feeds
  BY <1>1, <1>2, FeedAppends
<1>4. feed'.results = Append(feed.results, Result(report, answer))
  BY <1>2 DEF Feeds
<1>5. Len(feed'.results) = Len(feed.results) + 1
  BY <1>1, <1>2, <1>4
<1>6. Len(feed'.results) <= Timeframes
  BY <1>2, <1>5, FeedConstantsOK DEF Pending
<1>7. ASSUME NEW i \in DOMAIN feed'.results
      PROVE  feed'.results[i].report = Reported(feed'.results[i].answer)
  <2>1. CASE i = Len(feed.results) + 1
    BY <1>1, <1>2, <1>4, <2>1 DEF Result
  <2>2. CASE i \in DOMAIN feed.results
    <3>1. feed'.results[i] = feed.results[i]
      BY <1>1, <1>2, <1>4, <2>2
    <3> QED
      BY <2>2, <3>1 DEF FeedInv, ErrorIsOfLastAnswer
  <2> QED
    BY <1>1, <1>2, <1>4, <1>7, <2>1, <2>2
<1> QED
  BY <1>3, <1>6, <1>7 DEF ErrorIsOfLastAnswer

LEMMA HttpStep == ASSUME FeedInv, HttpNext PROVE FeedInv'
<1>1. UNCHANGED <<bridge, wine>>
  BY DEF HttpNext, FeedStart, FetchStart, Request, FetchEnd, FeedEnd, FeedReturn
<1>2. CASE FeedStart
  <2>1. feed' \in Feeds /\ feed'.results = feed.results /\ feed.at = "idle"
    BY <1>2, FeedMoves DEF FeedStart, FeedInv, Feeds
  <2> QED
    BY <1>1, <1>2, <2>1 DEF FeedStart, FeedInv, Pending, ErrorIsOfLastAnswer
<1>3. CASE FetchStart /\ feed.auth = "ok"
  <2>1. fetch' = [IdleFetch EXCEPT !.at = "loop"] /\ UNCHANGED feed /\ Pending
    BY <1>3 DEF FetchStart
  <2>2. fetch' \in Fetches /\ fetch'.at = "loop" /\ fetch'.attempt = 0
    BY <2>1, FeedConstantsOK DEF IdleFetch, Fetches
  <2> QED
    BY <1>1, <2>1, <2>2, FeedConstantsOK DEF FeedInv, Pending, ErrorIsOfLastAnswer
<1>4. CASE FetchStart /\ feed.auth # "ok"
  <2>1. /\ feed' = [feed EXCEPT !.results = Append(@, Result("CONFIG_ERROR", "unsent"))]
        /\ Pending /\ UNCHANGED fetch /\ fetch.at = "idle"
    BY <1>4 DEF FetchStart
  <2>2. Reported("unsent") = "CONFIG_ERROR"
    BY DEF Reported
  <2>3. "CONFIG_ERROR" \in Reports
    BY <2>2 DEF Reports
  <2>4. /\ feed' \in Feeds /\ Len(feed'.results) <= Timeframes /\ ErrorIsOfLastAnswer'
    BY <2>1, <2>2, <2>3, AppendKeeps
  <2> QED
    BY <1>1, <2>1, <2>4 DEF FeedInv, IdleFetch
<1>5. CASE Request
  <2> PICK answer \in Answers :
        fetch' = IF WaitsAgain(answer, fetch.attempt)
                 THEN [fetch EXCEPT !.answer = answer, !.attempt = @ + 1]
                 ELSE IF answer \in Retried
                 THEN [fetch EXCEPT !.answer = answer, !.attempt = @ + 1,
                                    !.error = Reported(answer)]
                 ELSE [fetch EXCEPT !.answer = answer, !.at = "over",
                                    !.error = Reported(answer)]
    BY <1>5 DEF Request
  <2>1. /\ fetch \in Fetches /\ fetch.at = "loop" /\ fetch.attempt < Retry
        /\ UNCHANGED feed /\ Pending
    BY <1>5 DEF Request, FeedInv
  <2>2. Reported(answer) \in Reports
    BY DEF Reports
  <2>3. fetch' \in Fetches
    BY <2>1, <2>2, FetchAnswered
  <2>4. fetch'.at # "idle" /\ (fetch'.at = "over" => fetch'.error = Reported(fetch'.answer))
    BY <2>1 DEF Fetches
  <2>5. fetch'.at = "loop" /\ fetch'.attempt = Retry => fetch'.error = Reported(fetch'.answer)
    <3>1. CASE WaitsAgain(answer, fetch.attempt)
      <4>1. fetch'.attempt = fetch.attempt + 1 /\ fetch.attempt < Retry - 1
            /\ fetch.attempt \in Int
        BY <2>1, <3>1 DEF WaitsAgain, Fetches
      <4> QED
        BY <4>1, FeedConstantsOK
    <3>2. CASE ~ WaitsAgain(answer, fetch.attempt)
      BY <2>1, <3>2 DEF Fetches
    <3> QED
      BY <3>1, <3>2
  <2> QED
    BY <1>1, <2>1, <2>3, <2>4, <2>5 DEF FeedInv, Pending, ErrorIsOfLastAnswer
<1>6. CASE FetchEnd
  <2>1. /\ feed' = [feed EXCEPT !.results = Append(@, Result(fetch.error, fetch.answer))]
        /\ fetch' = IdleFetch /\ fetch.at # "idle"
        /\ fetch.error = Reported(fetch.answer)
    BY <1>6 DEF FetchEnd, FeedInv
  <2>2. /\ Pending
        /\ fetch.error \in Reports \cup {"none"} /\ fetch.answer \in Answers \cup {"unsent"}
    BY <2>1 DEF FeedInv, Fetches
  <2>3. feed' \in Feeds /\ Len(feed'.results) <= Timeframes /\ ErrorIsOfLastAnswer'
    BY <2>1, <2>2, AppendKeeps
  <2>4. IdleFetch \in Fetches /\ IdleFetch.at = "idle"
    BY FeedConstantsOK DEF IdleFetch, Fetches
  <2> QED
    BY <1>1, <2>1, <2>3, <2>4 DEF FeedInv
<1>7. CASE FeedEnd
  <2>1. feed' \in Feeds /\ feed'.results = feed.results /\ ~ Pending /\ UNCHANGED fetch
    BY <1>7, FeedMoves DEF FeedEnd, FeedInv, Feeds
  <2> QED
    BY <1>1, <2>1 DEF FeedInv, ErrorIsOfLastAnswer
<1>8. CASE FeedReturn
  <2>1. /\ feed' \in Feeds /\ feed'.results = <<>> /\ UNCHANGED fetch
        /\ ~ Pending
    BY <1>8, FeedReturns DEF FeedReturn, FeedInv, Feeds, Pending
  <2> QED
    BY <1>1, <2>1, FeedConstantsOK DEF FeedInv, ErrorIsOfLastAnswer
<1> QED
  BY <1>2, <1>3, <1>4, <1>5, <1>6, <1>7, <1>8 DEF HttpNext, FetchStart

LEMMA WineKeeps == ASSUME FeedInv, WineNext PROVE FeedInv'
<1>1. UNCHANGED <<feed, fetch>>
  BY DEF WineNext, BridgeChange, WineStep, WineStart, WineProbe, WineConnect, WineBars,
         WineNoBars, WineRaises, WineGivesUp
<1>2. wine \in Wines /\ bridge \in {"down", "up", "serving"}
  BY DEF FeedInv
<1>3. wine' \in Wines /\ bridge' \in {"down", "up", "serving"}
  <2>1. CASE BridgeChange
    BY <1>2, <2>1, WineGoesOn DEF BridgeChange
  <2>2. CASE WineStart
    <3>1. wine.conn \in {"none", "live", "dead"}
      BY <1>2 DEF Wines
    <3> QED
      BY <1>2, <2>2, <3>1, WineGoesOn DEF WineStart, GetBars
  <2>3. CASE WineProbe
    BY <1>2, <2>3, WineGoesOn DEF WineProbe, GetBars
  <2>4. CASE WineConnect
    BY <1>2, <2>4, WineGoesOn, WineTries DEF WineConnect, Trying
  <2>5. CASE WineBars
    BY <1>2, <2>5, WineGoesOn DEF WineBars
  <2>6. CASE WineNoBars
    BY <1>2, <2>6, WineTries DEF WineNoBars, Trying
  <2>7. CASE WineRaises
    BY <1>2, <2>7, WineTries DEF WineRaises, Trying, AfterException
  <2>8. CASE WineGivesUp
    <3>1. wine.reason \in {"none", "NO_BARS", "CONNECTION_FAIL", "TIMEOUT", "EXCEPTION", "UNKNOWN"}
      BY <1>2 DEF Wines
    <3> QED
      BY <1>2, <2>8, <3>1, WineGoesOn DEF WineGivesUp
  <2> QED
    BY <2>1, <2>2, <2>3, <2>4, <2>5, <2>6, <2>7, <2>8 DEF WineNext, WineStep
<1> QED
  BY <1>1, <1>3 DEF FeedInv, Pending, ErrorIsOfLastAnswer

THEOREM FeedInvHolds == FeedSpec => []FeedInv
<1>1. FeedInv /\ [FeedNext]_feedVars => FeedInv'
  <2>1. FeedInv /\ UNCHANGED feedVars => FeedInv'
    BY DEF feedVars, FeedInv, Pending, ErrorIsOfLastAnswer
  <2> QED
    BY <2>1, HttpStep, WineKeeps DEF FeedNext
<1> QED
  BY <1>1, FeedInvInit, PTL DEF FeedSpec

(* ------------------------------ Theorems -------------------------------- *)

\* The types of both providers are kept by every step.
THEOREM FeedTypes == FeedSpec => []FeedTypeOK
BY FeedInvHolds, FeedInvTypes, PTL

\* Whatever the answers of the attempts, a timeframe is reported with the class
\* of the last one.
THEOREM LastAnswerIsReported == FeedSpec => []ErrorIsOfLastAnswer
<1>1. FeedInv => ErrorIsOfLastAnswer
  BY DEF FeedInv
<1> QED
  BY <1>1, FeedInvHolds, PTL

(* ------------------------------ Recovery -------------------------------- *)

\* What WF_feedVars(WineStep) provides: in every state one of the steps of
\* WineStep can be taken, so that fairness means one is, again and again.
WineGoesOnForEver == []<><<WineStep>>_feedVars

\* Where the Wine provider is: called or not, with an attempt left or not, and
\* with what connection.
WineRests(conn) == wine.at = "idle" /\ wine.conn = conn
WineTrying(conn) == Trying /\ wine.conn = conn
WineIsOut(conn) == wine.at = "loop" /\ wine.attempt = Attempts /\ wine.conn = conn
GotBars == wine.got = "bars"

LEMMA WinePlaces ==
  FeedInv => \E conn \in {"none", "live", "dead"} :
                WineRests(conn) \/ WineTrying(conn) \/ WineIsOut(conn)
BY FeedConstantsOK DEF FeedInv, Wines, WineRests, WineTrying, WineIsOut, Trying

\* While the bridge serves, its connections neither die nor change by anything
\* but a step of the provider.
LEMMA OthersLeaveWine ==
  ASSUME [FeedNext]_feedVars, bridge = "serving", bridge' = "serving", ~WineStep
  PROVE  wine' = wine
BY DEF FeedNext, HttpNext, WineNext, BridgeChange, FeedStart, FetchStart, Request, FetchEnd,
       FeedEnd, FeedReturn, feedVars

\* Where a step leads from each place, while the bridge serves.
LEMMA WineStepsOn ==
  ASSUME FeedInv, WineStep, bridge = "serving"
  PROVE  /\ \A conn \in {"none", "live", "dead"} :
               /\ WineRests(conn) => WineTrying(conn)' \/ WineTrying("live")'
               /\ WineIsOut(conn) => WineRests(conn)'
         /\ WineTrying("none") => WineTrying("live")'
         /\ WineTrying("live") => GotBars'
         /\ WineTrying("dead") => WineTrying("none")' \/ WineIsOut("none")'
<1> DEFINE Goal ==
        /\ \A conn \in {"none", "live", "dead"} :
              /\ WineRests(conn) => WineTrying(conn)' \/ WineTrying("live")'
              /\ WineIsOut(conn) => WineRests(conn)'
        /\ WineTrying("none") => WineTrying("live")'
        /\ WineTrying("live") => GotBars'
        /\ WineTrying("dead") => WineTrying("none")' \/ WineIsOut("none")'
<1> SUFFICES Goal
  OBVIOUS
<1> USE DEF WineRests, WineTrying, WineIsOut, Trying, GotBars
<1>1. wine \in Wines /\ Attempts \in Nat \ {0}
  BY FeedConstantsOK DEF FeedInv
<1>2. ASSUME wine.at = "idle", NEW conn \in {"none", "live", "dead"}, GetBars(conn)
      PROVE  WineTrying(conn)'
  BY <1>1, <1>2 DEF GetBars, Wines
<1>3. CASE WineStart
  <2>1. wine.at = "idle" /\ GetBars(wine.conn)
    BY <1>3 DEF WineStart
  <2>2. wine.conn \in {"none", "live", "dead"}
    BY <1>1 DEF Wines
  <2>3. ASSUME NEW conn \in {"none", "live", "dead"}, wine.conn = conn
        PROVE  WineTrying(conn)'
    BY <1>2, <2>1, <2>3
  <2> QED
    BY <2>1, <2>3
<1>4. CASE WineProbe
  <2>1. wine.at = "idle" /\ GetBars("live")
    BY <1>4 DEF WineProbe
  <2>2. WineTrying("live")'
    BY <1>2, <2>1
  <2> QED
    BY <2>1, <2>2
<1>5. CASE WineConnect
  BY <1>1, <1>5 DEF WineConnect, Wines
<1>6. CASE WineBars \/ WineNoBars
  BY <1>1, <1>6 DEF WineBars, WineNoBars, Wines
<1>7. CASE WineRaises
  BY <1>1, <1>7 DEF WineRaises, AfterException, Wines
<1>8. CASE WineGivesUp
  BY <1>1, <1>8 DEF WineGivesUp, Wines
<1> QED
  BY <1>3, <1>4, <1>5, <1>6, <1>7, <1>8 DEF WineStep

(***************************************************************************)
(* Once the bridge serves for good, bars are returned again and again,      *)
(* whatever the connection was and however many attempts there are: a dead  *)
(* one is given up at its first exception, and a live one is not lost.       *)
(***************************************************************************)
THEOREM BarsReturn == FeedSpec /\ WineGoesOnForEver => WineRecovers
<1> DEFINE Serves == bridge = "serving"
           RN == WineRests("none")
           RL == WineRests("live")
           RD == WineRests("dead")
           TN == WineTrying("none")
           TL == WineTrying("live")
           TD == WineTrying("dead")
           ON == WineIsOut("none")
           OL == WineIsOut("live")
           OD == WineIsOut("dead")
<1>1. FeedInv => RN \/ RL \/ RD \/ TN \/ TL \/ TD \/ ON \/ OL \/ OD
  BY WinePlaces
<1>2. FeedInv /\ Serves /\ Serves' /\ [FeedNext]_feedVars =>
        /\ RN => RN' \/ TN' \/ TL'
        /\ RL => RL' \/ TL'
        /\ RD => RD' \/ TD' \/ TL'
        /\ TN => TN' \/ TL'
        /\ TL => TL' \/ GotBars'
        /\ TD => TD' \/ TN' \/ ON'
        /\ ON => ON' \/ RN'
        /\ OL => OL' \/ RL'
        /\ OD => OD' \/ RD'
  <2> SUFFICES ASSUME FeedInv, Serves, Serves', [FeedNext]_feedVars
               PROVE  /\ RN => RN' \/ TN' \/ TL'
                      /\ RL => RL' \/ TL'
                      /\ RD => RD' \/ TD' \/ TL'
                      /\ TN => TN' \/ TL'
                      /\ TL => TL' \/ GotBars'
                      /\ TD => TD' \/ TN' \/ ON'
                      /\ ON => ON' \/ RN'
                      /\ OL => OL' \/ RL'
                      /\ OD => OD' \/ RD'
    OBVIOUS
  <2>1. CASE WineStep
    BY <2>1, WineStepsOn
  <2>2. CASE ~WineStep
    <3>1. wine' = wine
      BY <2>2, OthersLeaveWine
    <3> QED
      BY <3>1 DEF WineRests, WineTrying, WineIsOut, Trying
  <2> QED
    BY <2>1, <2>2
<1>3. FeedInv /\ Serves /\ <<WineStep>>_feedVars =>
        /\ RN => TN' \/ TL'
        /\ RL => TL'
        /\ RD => TD' \/ TL'
        /\ TN => TL'
        /\ TL => GotBars'
        /\ TD => TN' \/ ON'
        /\ ON => RN'
        /\ OL => RL'
        /\ OD => RD'
  BY WineStepsOn
<1> HIDE DEF Serves, RN, RL, RD, TN, TL, TD, ON, OL, OD
<1>4. FeedSpec /\ WineGoesOnForEver /\ <>[]Serves => []<>GotBars
  BY <1>1, <1>2, <1>3, FeedInvHolds, PTL DEF FeedSpec, WineGoesOnForEver
<1> QED
  BY <1>4 DEF WineRecovers, Serves, GotBars

=============================================================================
