--------------------------- MODULE EntryGateProofs --------------------------
(***************************************************************************)
(* Proofs about EntryGate, for any candidates, events and settings.        *)
(***************************************************************************)
EXTENDS EntryGate, TLAPS

(* ------------------------------- Types ---------------------------------- *)

Records(retries, reviews) ==
    [at : {"new", "review", "call", "sleep", "decide", "publish",
           "approved", "blocked", "raised"},
     review : {"required", "skipped"}, attempt : 0..retries,
     by : {"none", "mock", "deepseek"}, decision : reviews]

LEMMA DecidedRecord ==
    ASSUME NEW n, NEW reviews, NEW r \in Records(n, reviews), NEW d \in reviews
    PROVE  [r EXCEPT !.at = "decide", !.by = "deepseek", !.decision = d]
              \in Records(n, reviews)
BY DEF Records

LEMMA AskedRecord ==
    ASSUME NEW n, NEW reviews, NEW r \in Records(n, reviews),
           NEW at \in {"blocked", "raised", "review", "publish"},
           NEW review \in {"required", "skipped"}
    PROVE  [r EXCEPT !.at = at, !.review = review] \in Records(n, reviews)
BY DEF Records

\* A call or a pause belongs to an attempt of the loop, and no pause follows
\* the last one.
AttemptsLeft(c) ==
    /\ cand[c].at = "call" => cand[c].attempt < settings.retries
    /\ cand[c].at = "sleep" => cand[c].attempt < settings.retries - 1
    /\ cand[c].at \in {"new", "review"} /\ settings.retries > 0 =>
          cand[c].attempt < settings.retries

GateTypeInv == GateTypeOK /\ \A c \in Candidates : AttemptsLeft(c)

LEMMA GateTypesInit == GateInit => GateTypeInv
BY GateConstantsOK DEF GateInit, GateTypeInv, GateTypeOK, AttemptsLeft, NewCandidate, Reviews

\* What the checks of the signal engine do to a candidate.
LEMMA Asked ==
    ASSUME NEW c \in Candidates, Ask(c)
    PROVE  \E at \in {"blocked", "raised", "review", "publish"}, review \in {"required", "skipped"} :
              /\ cand' = [cand EXCEPT ![c] = [cand[c] EXCEPT !.at = at, !.review = review]]
              /\ at = "publish" => review = "skipped"
BY Zenon DEF Ask, AfterChecks

LEMMA GateTypesStep == GateTypeInv /\ [GateNext]_gateVars => GateTypeInv'
<1> SUFFICES ASSUME GateTypeInv, [GateNext]_gateVars PROVE GateTypeInv'
  OBVIOUS
<1> USE GateConstantsOK DEF GateTypeInv, GateTypeOK, AttemptsLeft, Reviews, Decisions, Passing
<1>1. ASSUME NEW c \in Candidates, Ask(c) PROVE GateTypeInv'
  <2>1. PICK at \in {"blocked", "raised", "review", "publish"}, review \in {"required", "skipped"} :
           cand' = [cand EXCEPT ![c] = [cand[c] EXCEPT !.at = at, !.review = review]]
    BY <1>1, Asked, Zenon
  <2>2. [cand[c] EXCEPT !.at = at, !.review = review] \in Records(settings.retries, Reviews)
    <3>1. cand[c] \in Records(settings.retries, Reviews)
      BY DEF Records
    <3> QED
      BY <3>1, AskedRecord
  <2>3. UNCHANGED <<settings, clock, killSwitch, opened>> /\ cand[c].at = "new"
    BY <1>1 DEF Ask
  <2>4. GateTypeOK'
    <3>1. cand' \in [Candidates -> Records(settings.retries, Reviews)]
      <4> HIDE DEF Reviews
      <4> QED
        BY <2>1, <2>2 DEF Records
    <3> QED
      BY <2>3, <3>1 DEF Records
  <2>5. ASSUME NEW e \in Candidates PROVE AttemptsLeft(e)'
    <3>1. CASE e = c
      BY <2>1, <2>3, <3>1
    <3>2. CASE e # c
      BY <2>1, <2>3, <3>2
    <3> QED
      BY <3>1, <3>2
  <2> QED
    BY <2>4, <2>5
<1>2. ASSUME NEW c \in Candidates, ReviewStep(c) PROVE GateTypeInv'
  BY <1>2 DEF ReviewStep, MockReview, Decide
<1>3. ASSUME NEW c \in Candidates, Answer(c) PROVE GateTypeInv'
  <2>1. PICK d \in Reviews : Decide(c, "deepseek", d)
    BY <1>3 DEF Answer
  <2>2. cand' = [cand EXCEPT ![c] =
             [cand[c] EXCEPT !.at = "decide", !.by = "deepseek", !.decision = d]]
    BY <2>1 DEF Decide
  <2>3. UNCHANGED <<settings, clock, killSwitch, opened>>
    BY <1>3 DEF Answer
  <2>4. GateTypeOK'
    <3>1. cand[c] \in Records(settings.retries, Reviews)
      BY DEF Records
    <3>2. [cand[c] EXCEPT !.at = "decide", !.by = "deepseek", !.decision = d]
             \in Records(settings.retries, Reviews)
      BY <3>1, DecidedRecord
    <3>3. cand' \in [Candidates -> Records(settings.retries, Reviews)]
      <4> HIDE DEF Reviews
      <4> QED
        BY <2>2, <3>2 DEF Records
    <3> QED
      BY <2>3, <3>3 DEF Records
  <2>5. ASSUME NEW e \in Candidates PROVE AttemptsLeft(e)'
    <3>1. CASE e = c
      BY <2>2, <2>3, <3>1
    <3>2. CASE e # c
      BY <2>2, <2>3, <3>2
    <3> QED
      BY <3>1, <3>2
  <2> QED
    BY <2>4, <2>5
<1>4. ASSUME NEW c \in Candidates, CallFails(c) PROVE GateTypeInv'
  BY <1>4 DEF CallFails, LastAttempt
<1>5. ASSUME NEW c \in Candidates, BackOff(c) PROVE GateTypeInv'
  BY <1>5 DEF BackOff
<1>6. ASSUME NEW c \in Candidates, Judge(c) PROVE GateTypeInv'
  BY <1>6 DEF Judge
<1>7. ASSUME NEW c \in Candidates, Publish(c) PROVE GateTypeInv'
  BY <1>7 DEF Publish
<1>8. ASSUME NEW c \in Candidates, PublishFails(c) PROVE GateTypeInv'
  BY <1>8 DEF PublishFails
<1>9. CASE Tick
  BY <1>9 DEF Tick
<1>10. CASE ThrowKillSwitch
  BY <1>10 DEF ThrowKillSwitch
<1>11. CASE UNCHANGED gateVars
  BY <1>11 DEF gateVars
<1> QED
  BY <1>1, <1>2, <1>3, <1>4, <1>5, <1>6, <1>7, <1>8, <1>9, <1>10, <1>11
  DEF GateNext, Process

\* The types of the entry gate hold in every state.
THEOREM GateTypes == GateSpec => []GateTypeOK
<1>1. GateTypeInv => GateTypeOK
  BY DEF GateTypeInv
<1> QED
  BY GateTypesInit, GateTypesStep, <1>1, PTL DEF GateSpec

(* ------------------------------ Reviews --------------------------------- *)

\* What a candidate that is past its review or its publication brings with it.
ConfiguredAnswer(c) ==
    settings.provider = "deepseek" /\ settings.retries > 0 => cand[c].by = "deepseek"

ReviewHeld(c) ==
    /\ cand[c].at = "decide" => ConfiguredAnswer(c)
    /\ cand[c].at \in {"publish", "approved"} /\ cand[c].review = "required" =>
          cand[c].decision \in Passing /\ ConfiguredAnswer(c)

RowHeld(c) == c \in opened => cand[c].at = "approved"

GateInv ==
    /\ GateTypeInv
    /\ \A c \in Candidates : ReviewHeld(c) /\ RowHeld(c)

LEMMA GateInvInit == GateInit => GateInv
BY GateTypesInit DEF GateInit, GateInv, NewCandidate, ReviewHeld, RowHeld

LEMMA GateInvStep == GateInv /\ [GateNext]_gateVars => GateInv'
<1> SUFFICES ASSUME GateInv, [GateNext]_gateVars PROVE GateInv'
  OBVIOUS
<1>0. GateTypeInv'
  BY GateTypesStep DEF GateInv
<1> USE <1>0, GateConstantsOK
    DEF GateInv, GateTypeInv, GateTypeOK, AttemptsLeft, ReviewHeld, RowHeld,
        ConfiguredAnswer, Passing
<1>1. ASSUME NEW c \in Candidates, Ask(c) PROVE GateInv'
  <2>1. ASSUME NEW d \in Candidates, d # c PROVE ReviewHeld(d)' /\ RowHeld(d)'
    BY <1>1, <2>1 DEF Ask
  <2>2. ReviewHeld(c)' /\ RowHeld(c)'
    <3>1. PICK at \in {"blocked", "raised", "review", "publish"}, review \in {"required", "skipped"} :
             /\ cand' = [cand EXCEPT ![c] = [cand[c] EXCEPT !.at = at, !.review = review]]
             /\ at = "publish" => review = "skipped"
      BY <1>1, Asked, Zenon
    <3>2. cand'[c] = [cand[c] EXCEPT !.at = at, !.review = review] /\ opened' = opened
      BY <1>1, <3>1 DEF Ask
    <3>3. cand[c] \in Records(settings.retries, Reviews) /\ cand[c].at = "new"
      BY <1>1 DEF Ask, Records
    <3>4. cand'[c].at = at /\ cand'[c].review = review
      BY <3>2, <3>3 DEF Records
    <3> QED
      BY <3>1, <3>2, <3>3, <3>4
  <2> QED
    BY <2>1, <2>2
<1>2. ASSUME NEW c \in Candidates, ReviewStep(c) PROVE GateInv'
  BY <1>2 DEF ReviewStep, MockReview, Decide
<1>3. ASSUME NEW c \in Candidates, Answer(c) PROVE GateInv'
  BY <1>3 DEF Answer, Decide
<1>4. ASSUME NEW c \in Candidates, CallFails(c) PROVE GateInv'
  BY <1>4 DEF CallFails
<1>5. ASSUME NEW c \in Candidates, BackOff(c) PROVE GateInv'
  BY <1>5 DEF BackOff
<1>6. ASSUME NEW c \in Candidates, Judge(c) PROVE GateInv'
  BY <1>6 DEF Judge
<1>7. ASSUME NEW c \in Candidates, Publish(c) PROVE GateInv'
  BY <1>7 DEF Publish
<1>8. ASSUME NEW c \in Candidates, PublishFails(c) PROVE GateInv'
  BY <1>8 DEF PublishFails
<1>9. CASE Tick
  BY <1>9 DEF Tick
<1>10. CASE ThrowKillSwitch
  BY <1>10 DEF ThrowKillSwitch
<1>11. CASE UNCHANGED gateVars
  BY <1>11 DEF gateVars
<1> QED
  BY <1>1, <1>2, <1>3, <1>4, <1>5, <1>6, <1>7, <1>8, <1>9, <1>10, <1>11
  DEF GateNext, Process

LEMMA GateInvAlways == GateSpec => []GateInv
BY GateInvInit, GateInvStep, PTL DEF GateSpec

\* An OPEN for a candidate that had to be reviewed rests on an approval, and on
\* one of the configured provider.
THEOREM OnlyReviewedOpen == GateSpec => []OpensReviewed
<1>1. GateInv => OpensReviewed
  BY DEF GateInv, GateTypeInv, GateTypeOK, OpensReviewed, ReviewHeld, RowHeld, ConfiguredAnswer
<1> QED
  BY <1>1, GateInvAlways, PTL

(* ------------------------------ Liveness -------------------------------- *)

UnderWay(c) == cand[c].at \in {"review", "call", "sleep", "decide", "publish"}
Ended(c) == cand[c].at \in {"approved", "blocked", "raised"}

\* What WF_gateVars(Process(c)) provides: a run that is under way can always
\* take one of its steps, and each of them changes where it is.
RunGoesOn(c) == []<>~UnderWay(c) \/ []<><<Process(c)>>_gateVars

\* The attempts of a candidate come to an end.
AttemptsEnd(c) == <>[][cand'[c].attempt = cand[c].attempt]_gateVars

\* Nothing but the pause between two attempts counts one, the count never falls,
\* and the number that is set bounds it: of a behaviour of the specification,
\* AttemptsEnd says no more than that a count which only rises stops at its bound.
LEMMA AttemptsOnlyRise ==
    ASSUME GateTypeInv, [GateNext]_gateVars, NEW c \in Candidates
    PROVE  /\ cand'[c].attempt \in {cand[c].attempt, cand[c].attempt + 1}
           /\ cand'[c].attempt # cand[c].attempt =>
                 cand[c].at = "sleep" /\ cand'[c].attempt < settings.retries
<1> USE GateConstantsOK DEF GateTypeInv, GateTypeOK, AttemptsLeft
<1>0. settings.retries \in Nat /\ cand[c].attempt \in Nat
  OBVIOUS
<1>1. ASSUME NEW d \in Candidates, BackOff(d)
      PROVE  /\ cand'[c].attempt \in {cand[c].attempt, cand[c].attempt + 1}
             /\ cand'[c].attempt # cand[c].attempt =>
                   cand[c].at = "sleep" /\ cand'[c].attempt < settings.retries
  <2>1. CASE d = c
    BY <1>0, <1>1, <2>1 DEF BackOff
  <2>2. CASE d # c
    BY <1>1, <2>2 DEF BackOff
  <2> QED
    BY <2>1, <2>2
<1>2. ASSUME NEW d \in Candidates, Ask(d) \/ Process(d), ~BackOff(d)
      PROVE  cand'[c].attempt = cand[c].attempt
  <2>1. CASE d = c
    <3>1. CASE Ask(d)
      <4>1. PICK at \in {"blocked", "raised", "review", "publish"}, review \in {"required", "skipped"} :
               cand' = [cand EXCEPT ![c] = [cand[c] EXCEPT !.at = at, !.review = review]]
        BY <2>1, <3>1, Asked
      <4>2. cand'[c] = [cand[c] EXCEPT !.at = at, !.review = review]
        BY <4>1
      <4>3. cand[c] \in Records(settings.retries, Reviews)
        BY DEF Records
      <4> QED
        BY <4>2, <4>3 DEF Records
    <3>2. CASE Process(d)
      BY <1>2, <2>1, <3>2 DEF Process, ReviewStep, MockReview, Answer, Decide, CallFails,
         Judge, Publish, PublishFails
    <3> QED
      BY <1>2, <3>1, <3>2
  <2>2. CASE d # c
    BY <1>2, <2>2 DEF Process, Ask, ReviewStep, MockReview, Answer, Decide, CallFails,
       Judge, Publish, PublishFails
  <2> QED
    BY <2>1, <2>2
<1>3. Tick \/ ThrowKillSwitch \/ UNCHANGED gateVars => cand' = cand
  BY DEF Tick, ThrowKillSwitch, gateVars
<1> QED
  BY <1>1, <1>2, <1>3 DEF GateNext

\* Where a run goes from each of its places, by its own steps,
LEMMA ProcessSteps ==
    ASSUME GateTypeInv, NEW c \in Candidates, Process(c)
    PROVE  /\ cand[c].at = "review" => cand'[c].at \in {"call", "decide"}
           /\ cand[c].at = "call" => cand'[c].at \in {"sleep", "decide", "raised"}
           /\ cand[c].at = "sleep" =>
                 cand'[c].at = "review" /\ cand'[c].attempt = cand[c].attempt + 1
           /\ cand[c].at = "decide" => cand'[c].at \in {"publish", "blocked", "raised"}
           /\ cand[c].at = "publish" => cand'[c].at = "approved"
BY DEF Process, ReviewStep, MockReview, Answer, Decide, CallFails, BackOff, Judge,
   Publish, PublishFails, GateTypeInv, GateTypeOK

\* while no other step moves it.
LEMMA OthersLeaveCandidate ==
    ASSUME GateTypeInv, [GateNext]_gateVars, NEW c \in Candidates,
           cand[c].at # "new", ~Process(c)
    PROVE  cand'[c] = cand[c]
<1>1. ASSUME NEW d \in Candidates, d # c, Ask(d) \/ Process(d) PROVE cand'[c] = cand[c]
  BY <1>1 DEF Process, Ask, ReviewStep, MockReview, Answer, Decide, CallFails, BackOff,
     Judge, Publish, PublishFails, GateTypeInv, GateTypeOK
<1>2. ~Ask(c)
  BY DEF Ask
<1>3. Tick \/ ThrowKillSwitch \/ UNCHANGED gateVars => cand' = cand
  BY DEF Tick, ThrowKillSwitch, gateVars
<1> QED
  BY <1>1, <1>2, <1>3 DEF GateNext

\* Together: where a run may be found after any step, and after one of its own.
LEMMA ReviewSteps ==
    ASSUME GateTypeInv, [GateNext]_gateVars, NEW c \in Candidates
    PROVE  /\ cand[c].at = "review" => cand'[c].at \in {"review", "call", "decide"}
           /\ cand[c].at = "call" => cand'[c].at \in {"call", "sleep", "decide", "raised"}
           /\ cand[c].at = "sleep" =>
                 \/ cand'[c].at = "sleep"
                 \/ cand'[c].at = "review" /\ cand'[c].attempt = cand[c].attempt + 1
           /\ cand[c].at = "decide" => cand'[c].at \in {"decide", "publish", "blocked", "raised"}
           /\ cand[c].at = "publish" => cand'[c].at \in {"publish", "approved"}
           /\ UnderWay(c) /\ cand[c].at # "sleep" => cand'[c].attempt = cand[c].attempt
<1>1. UnderWay(c) => cand[c].at # "new"
  BY DEF UnderWay
<1>2. CASE ~UnderWay(c)
  BY <1>2 DEF UnderWay
<1>3. CASE UnderWay(c) /\ ~Process(c)
  BY <1>1, <1>3, OthersLeaveCandidate DEF UnderWay
<1>4. CASE UnderWay(c) /\ Process(c)
  BY <1>4, ProcessSteps, AttemptsOnlyRise
<1> QED
  BY <1>2, <1>3, <1>4

(***************************************************************************)
(* One turn of the loop: from any attempt a run ends, or comes to the next *)
(* attempt, which is still one of those the settings allow.  How often the *)
(* provider fails before does not matter.                                  *)
(***************************************************************************)
THEOREM TurnsEnd ==
  ASSUME NEW c \in Candidates, NEW k \in Nat
  PROVE  GateSpec /\ RunGoesOn(c) =>
           (UnderWay(c) /\ cand[c].attempt = k
             ~> \/ Ended(c)
                \/ /\ cand[c].at = "review" /\ cand[c].attempt = k + 1
                   /\ k + 1 < settings.retries)
<1> DEFINE R == cand[c].at = "review"
           C == cand[c].at = "call"
           Z == cand[c].at = "sleep"
           D == cand[c].at = "decide"
           P == cand[c].at = "publish"
           N == cand[c].attempt = k
           E == Ended(c)
           T == /\ cand[c].at = "review" /\ cand[c].attempt = k + 1
                /\ k + 1 < settings.retries
           U == UnderWay(c)
<1>1. U <=> R \/ C \/ Z \/ D \/ P
  BY DEF UnderWay
<1>2. GateTypeInv /\ GateTypeInv' /\ [GateNext]_gateVars =>
        /\ R /\ N => (R' \/ C' \/ D') /\ N'
        /\ C /\ N => (C' \/ Z' \/ D' \/ E') /\ N'
        /\ Z /\ N => (Z' /\ N') \/ T'
        /\ D /\ N => (D' \/ P' \/ E') /\ N'
        /\ P /\ N => (P' \/ E') /\ N'
  <2> SUFFICES ASSUME GateTypeInv, GateTypeInv', [GateNext]_gateVars
               PROVE  /\ R /\ N => (R' \/ C' \/ D') /\ N'
                      /\ C /\ N => (C' \/ Z' \/ D' \/ E') /\ N'
                      /\ Z /\ N => (Z' /\ N') \/ T'
                      /\ D /\ N => (D' \/ P' \/ E') /\ N'
                      /\ P /\ N => (P' \/ E') /\ N'
    OBVIOUS
  <2>1. Z /\ N => (Z' /\ N') \/ T'
    <3>1. settings' = settings
      BY Zenon DEF GateNext, Process, Ask, ReviewStep, Answer, CallFails, BackOff, Judge,
         Publish, PublishFails, Tick, ThrowKillSwitch, gateVars
    <3>2. settings.retries \in Nat /\ cand[c].attempt \in Nat
      BY GateConstantsOK DEF GateTypeInv, GateTypeOK
    <3>3. cand[c].at = "sleep" /\ cand'[c].at = "sleep" => cand'[c] = cand[c]
      BY ProcessSteps, OthersLeaveCandidate
    <3> QED
      BY <3>1, <3>2, <3>3, ReviewSteps, AttemptsOnlyRise
  <2> QED
    BY <2>1, ReviewSteps DEF UnderWay, Ended
<1>3. GateTypeInv /\ <<Process(c)>>_gateVars =>
        /\ R => C' \/ D'
        /\ C => Z' \/ D' \/ E'
        /\ Z => R'
        /\ D => P' \/ E'
        /\ P => E'
  BY ProcessSteps DEF Ended
<1>4. /\ ~(R /\ Z) /\ ~(R /\ C) /\ ~(R /\ D) /\ ~(C /\ D) /\ ~(C /\ Z) /\ ~(Z /\ D) /\ ~(D /\ P)
      /\ ~(P /\ R) /\ ~(P /\ C) /\ ~(P /\ Z)
      /\ ~(E /\ U)
  BY DEF Ended, UnderWay
<1>5. GateSpec => []GateTypeInv
  BY GateTypesInit, GateTypesStep, PTL DEF GateSpec
<1>6. RunGoesOn(c) => []<>~U \/ []<><<Process(c)>>_gateVars
  BY DEF RunGoesOn
<1> HIDE DEF R, C, Z, D, P, N, E, T, U
<1>7. GateSpec /\ RunGoesOn(c) => (U /\ N ~> E \/ T)
  BY <1>1, <1>2, <1>3, <1>4, <1>5, <1>6, PTL DEF GateSpec
<1> QED
  BY <1>7, PTL DEF U, N, E, T

\* Every run of the signal engine ends, however often the provider fails, if
\* it goes on.
THEOREM ReviewsComeToAnEnd ==
  GateSpec /\ (\A c \in Candidates : RunGoesOn(c) /\ AttemptsEnd(c)) => ReviewsEnd
<1>1. ASSUME NEW c \in Candidates
      PROVE  GateSpec /\ RunGoesOn(c) /\ AttemptsEnd(c) =>
               (cand[c].at = "review" ~> cand[c].at \in {"approved", "blocked", "raised"})
  <2> DEFINE R == cand[c].at = "review"
             C == cand[c].at = "call"
             Z == cand[c].at = "sleep"
             D == cand[c].at = "decide"
             P == cand[c].at = "publish"
             E == cand[c].at \in {"approved", "blocked", "raised"}
             U == UnderWay(c)
             Still == cand'[c].attempt = cand[c].attempt
  <2>1. U <=> R \/ C \/ Z \/ D \/ P
    BY DEF UnderWay
  <2>2. GateTypeInv /\ [GateNext]_gateVars =>
          /\ R => R' \/ C' \/ D'
          /\ C => C' \/ Z' \/ D' \/ E'
          /\ Z => Z' \/ R'
          /\ D => D' \/ P' \/ E'
          /\ P => P' \/ E'
    BY ReviewSteps
  <2>3. GateTypeInv /\ <<Process(c)>>_gateVars =>
          /\ R => C' \/ D'
          /\ C => Z' \/ D' \/ E'
          /\ ~(Z /\ [Still]_gateVars)
          /\ D => P' \/ E'
          /\ P => E'
    <3>1. GateTypeInv => cand[c].attempt # cand[c].attempt + 1
      BY GateConstantsOK DEF GateTypeInv, GateTypeOK
    <3>2. <<Process(c)>>_gateVars => ~(UNCHANGED gateVars)
      OBVIOUS
    <3> QED
      BY <3>1, <3>2, ProcessSteps
  <2>4. GateTypeInv /\ [GateNext]_gateVars /\ Z /\ [Still]_gateVars => Z'
    BY ReviewSteps, GateConstantsOK DEF GateTypeInv, GateTypeOK, gateVars
  <2>5. /\ ~(R /\ C) /\ ~(R /\ D) /\ ~(C /\ D) /\ ~(C /\ Z) /\ ~(Z /\ D) /\ ~(D /\ P)
        /\ ~(E /\ U)
    BY DEF UnderWay
  <2>6. GateSpec => []GateTypeInv
    BY GateTypesInit, GateTypesStep, PTL DEF GateSpec
  <2>7. RunGoesOn(c) => []<>~U \/ []<><<Process(c)>>_gateVars
    BY DEF RunGoesOn
  <2>8. AttemptsEnd(c) => <>[][Still]_gateVars
    BY DEF AttemptsEnd
  <2> HIDE DEF R, C, Z, D, P, E, U, Still
  <2>9. GateSpec /\ RunGoesOn(c) /\ AttemptsEnd(c) => (R ~> E)
    BY <2>1, <2>2, <2>3, <2>4, <2>5, <2>6, <2>7, <2>8, PTL DEF GateSpec
  <2> QED
    BY <2>9 DEF R, E
<1> QED
  BY <1>1 DEF ReviewsEnd

=============================================================================
