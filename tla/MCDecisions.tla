----------------------------- MODULE MCDecisions ----------------------------
(***************************************************************************)
(* Instance of the entry gate, the supervisor and the market feed.  They   *)
(* share no state in the code, so one of them runs while the others rest   *)
(* in an initial state, and the run explores each by itself.               *)
(***************************************************************************)
EXTENDS EntryGate, Supervisor, MarketFeed, TLC

CONSTANTS t1, t2, c1, cpi, undated, talk, NoValue

\* One buy whose stop comes from the distance, one sell whose stop comes from
\* the structure and lies so near that the trigger is within the fee buffer.
MCPlan ==
    t1 :> [side |-> "buy", entry |-> 10, distance |-> 2, structure |-> NoValue]
 @@ t2 :> [side |-> "sell", entry |-> 10, distance |-> 5, structure |-> 11]
MCPrices == {9, 10, 12}

\* Bound: after the first, every signal has a side.
SignalsHaveSides == latest' \in {latest} \cup Sides

\* The window of the dated event is its own tick and the two before.  An event
\* without a time is in its window only for a caller without "now".
MCWhen == cpi :> 3 @@ undated :> NoValue @@ talk :> 1
MCImpact == cpi :> "hard" @@ undated :> "hard" @@ talk :> "high"
MockSettings == [provider |-> "mock", retries |-> 2]
MCSettings ==
    {[provider |-> "deepseek", retries |-> 2], [provider |-> "deepseek", retries |-> 0],
     MockSettings}

\* At rest is one initial state of each, so that none is explored twice.
GateAtRest == GateInit /\ settings = MockSettings
SupAtRest == SupInit /\ price = 10
WineAtRest == bridge = "down" /\ wine = IdleWine
HttpAtRest == feed = IdleFeed("ok") /\ fetch = IdleFetch
FeedAtRest == FeedInit /\ feed.auth = "ok"

MCInit ==
    /\ GateInit /\ SupAtRest /\ FeedInit
    /\ GateAtRest \/ FeedAtRest

GateRests == GateAtRest /\ UNCHANGED gateVars
SupRests == SupAtRest /\ UNCHANGED supVars
FeedRests == FeedAtRest /\ UNCHANGED feedVars

MCNext ==
    \/ GateNext /\ SupRests /\ FeedRests
    \/ SupNext /\ SignalsHaveSides /\ GateRests /\ FeedRests
    \/ HttpNext /\ WineAtRest /\ GateRests /\ SupRests
    \/ WineNext /\ HttpAtRest /\ GateRests /\ SupRests

MCSpec ==
    /\ MCInit /\ [][MCNext]_<<gateVars, supVars, feedVars>>
    /\ GateFairness /\ SupFairness
    /\ WF_feedVars(WineStep /\ HttpAtRest /\ GateAtRest /\ SupAtRest)

=============================================================================
