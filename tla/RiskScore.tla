----------------------------- MODULE RiskScore -----------------------------
(***************************************************************************)
(* Risk checks of a borrower against a mandate: the engine of the web app, *)
(* with its history and commitments (risk-engine.ts), the scorer that      *)
(* stands for the private computation (arcium-risk-compute.ts), and the    *)
(* one of the demo data; and the interest a line accrues (interest.ts).    *)
(*                                                                         *)
(* Ratios are kept as fractions and rounded where the code rounds, halves  *)
(* up, as Math.round does for what is not negative.  A check carries the   *)
(* moment of a millisecond clock, which other checks may share.            *)
(***************************************************************************)
EXTENDS Integers, Sequences, FiniteSets, FiniteSetsExt

CONSTANTS
    RiskInputs,   \* records [inventory, exposure, drawdown, venues]
    Mandates,     \* records [maxDrawdown, maxDailySpend]
    Moments,      \* what the clock shows
    MaxChecks,    \* bounds the model only
    SlotsPerYear  \* 2.5 slots per second for 365 days

ASSUME RiskAssumption ==
    /\ \A x \in RiskInputs : {x.inventory, x.exposure, x.drawdown, x.venues} \subseteq Nat
    /\ \A m \in Mandates : {m.maxDrawdown, m.maxDailySpend} \subseteq Nat
    /\ MaxChecks \in Nat /\ SlotsPerYear \in Nat \ {0}

VARIABLES
    inForce,    \* the mandate of the engine
    checks,     \* its history of [input, mandate, result]
    lastResult

riskVars == <<inForce, checks, lastResult>>

NoResult == [none |-> TRUE]

\* num / den rounded, den > 0.
Rounded(num, den) == (2 * num + den) \div (2 * den)

-----------------------------------------------------------------------------
(* computeRiskScore of risk-engine.ts. *)

Threshold == 7500
Weight == 4000         \* of the exposure, and of the drawdown
VenueWeight == 2000
Scale == 2 * Weight + VenueWeight

\* Slip: a ratio above one counts for what it is.
ShareUncapped(part, whole, weight) ==
    IF whole = 0 THEN weight ELSE Rounded(part * weight, whole)

\* A ratio is at most one, and one when there is nothing to compare with.
Share(part, whole, weight) ==
    IF whole = 0 \/ part > whole THEN weight ELSE Rounded(part * weight, whole)

VenueBps(venues) == Rounded((5 - Min({venues, 5})) * VenueWeight, 5)

RiskResult(x, m, at) ==
    LET exposureBps  == Share(x.exposure, x.inventory, Weight)
        drawdownBps  == Share(x.drawdown, m.maxDrawdown, Weight)
        score        == exposureBps + drawdownBps + VenueBps(x.venues)
        drawdownOk   == x.drawdown <= m.maxDrawdown
        dailySpendOk == x.exposure <= 10 * m.maxDailySpend
        passed       == score < Threshold /\ drawdownOk /\ dailySpendOk
        told         == [score |-> score, exposureBps |-> exposureBps,
                         drawdownBps |-> drawdownBps, passed |-> passed,
                         dailySpendOk |-> dailySpendOk]
    IN  [told |-> told, drawdownOk |-> drawdownOk, at |-> at,
         commitment |-> <<x, told, at>>]

\* verifyRiskCommitment: a hash over the input, the serialized part of the result and
\* the time.  drawdownOk and the mandate are not hashed; the venues' part is, and is
\* left out here as the score and the other two parts determine it.
VerifyRiskCommitment(commitment, x, result) == commitment = <<x, result.told, result.at>>

\* The reasons a RiskCheckFailedError gives.
Reasons(result) ==
    (IF result.told.score >= Threshold THEN {"score"} ELSE {})
    \cup (IF ~result.drawdownOk THEN {"drawdown"} ELSE {})
    \cup (IF ~result.told.dailySpendOk THEN {"daily spend"} ELSE {})

-----------------------------------------------------------------------------
(* The other scorers, for a mandate that allows some drawdown. *)

\* The demo's: one rounding, no cap; an inventory of nothing is infinite risk.
DemoScore(x, m) ==
    Rounded(Weight * 5 * x.exposure * m.maxDrawdown + Weight * 5 * x.drawdown * x.inventory
              + VenueWeight * (5 - Min({x.venues, 5})) * x.inventory * m.maxDrawdown,
            5 * x.inventory * m.maxDrawdown)
DemoPasses(x, m) ==
    /\ x.inventory > 0 /\ DemoScore(x, m) < Threshold
    /\ x.drawdown <= m.maxDrawdown

\* The private computation's: parts of other weights, capped as a whole.
PrivateExposure == 4000
PrivateDrawdown == 1200
PrivateVenues == 400

PrivateScore(x, m) ==
    LET inventory == IF x.inventory = 0 THEN 1 ELSE x.inventory
        exposure  == IF x.inventory = 0 THEN 1 ELSE x.exposure
    IN  Min({Scale,
             Rounded(PrivateExposure * 5 * exposure * m.maxDrawdown
                       + PrivateDrawdown * 5 * x.drawdown * inventory
                       + PrivateVenues * (5 - Min({x.venues, 5})) * inventory * m.maxDrawdown,
                     5 * inventory * m.maxDrawdown)})
PrivatePasses(x, m) == PrivateScore(x, m) < Threshold /\ x.drawdown <= m.maxDrawdown

\* accruedInterestUsd, in cents; a slot that went back accrues nothing.
AccruedCents(principal, bps, opened, current) ==
    Rounded(principal * bps * Max({0, current - opened}), 100 * SlotsPerYear)

-----------------------------------------------------------------------------
(* The RiskEngine object. *)

RiskInit == inForce \in Mandates /\ checks = <<>> /\ lastResult = NoResult

SetMandate(m) == m # inForce /\ inForce' = m /\ UNCHANGED <<checks, lastResult>>

\* check; checkOrThrow records as well, and throws when the result did not pass.
Check(x, at) ==
    LET result == RiskResult(x, inForce, at) IN
    /\ Len(checks) < MaxChecks
    /\ checks' = Append(checks, [input |-> x, mandate |-> inForce, result |-> result])
    /\ lastResult' = result
    /\ UNCHANGED inForce

ResetHistory ==
    /\ checks # <<>>
    /\ checks' = <<>> /\ lastResult' = NoResult
    /\ UNCHANGED inForce

RiskNext ==
    \/ \E m \in Mandates : SetMandate(m)
    \/ \E x \in RiskInputs, at \in Moments : Check(x, at)
    \/ ResetHistory

RiskSpec == RiskInit /\ [][RiskNext]_riskVars

-----------------------------------------------------------------------------

RiskTypeOK ==
    /\ inForce \in Mandates
    /\ Len(checks) <= MaxChecks
    /\ \A i \in 1..Len(checks) : checks[i].input \in RiskInputs

NoRiskier(x, y) ==
    /\ x.inventory >= y.inventory /\ x.exposure <= y.exposure
    /\ x.drawdown <= y.drawdown /\ x.venues >= y.venues

\* A borrower with more inventory and venues and less exposure and drawdown never
\* scores worse under one mandate, over the roundings, the caps and an inventory of
\* nothing; no score leaves its scale; and the mandate that counts is the one that
\* was in force, not a later one.
ScoreOrdersRisk ==
    \A i, j \in 1..Len(checks) :
        LET c == checks[i]  d == checks[j] IN
        /\ c.result.told.score \in 0..Scale
        /\ Reasons(c.result) = {} <=> c.result.told.passed
        /\ c.mandate = d.mandate /\ NoRiskier(c.input, d.input) =>
              /\ c.result.told.score <= d.result.told.score
              /\ d.result.told.passed => c.result.told.passed

\* A commitment is opened by its own input and result.  Another check that opens it
\* was made at the same moment of the same borrower and scored and judged alike; it is
\* the same result if its mandate is.  The mandate is not in the commitment: a refusal
\* may be opened by one with other reasons, a pass only by a check without any.
CommitmentsTellTheCheck ==
    \A i, j \in 1..Len(checks) :
        LET c == checks[i]  d == checks[j] IN
        /\ VerifyRiskCommitment(c.result.commitment, c.input, c.result)
        /\ VerifyRiskCommitment(c.result.commitment, d.input, d.result) =>
              /\ d.input = c.input /\ d.result.at = c.result.at
              /\ c.mandate = d.mandate => d.result = c.result
              /\ Reasons(c.result) = {} <=> Reasons(d.result) = {}

\* The demo's score is the engine's, give or take the point of rounding three parts
\* apart, of what the engine passes with its exposure within the inventory; and the
\* private computation passes it too.
ScorersAgree ==
    \A i \in 1..Len(checks) :
        LET x == checks[i].input  m == checks[i].mandate IN
        checks[i].result.told.passed /\ x.exposure <= x.inventory
            /\ m.maxDrawdown > 0 /\ x.inventory > 0 =>
            /\ DemoScore(x, m) \in (checks[i].result.told.score - 1)
                                     ..(checks[i].result.told.score + 1)
            /\ PrivatePasses(x, m)

\* Interest on a principal never falls as slots pass, and an early slot sample
\* accrues nothing (here of the exposure, at the drawdown's rate, by number of checks).
InterestGrows ==
    \A i, j \in 1..Len(checks) :
        LET cents(n) == AccruedCents(checks[i].input.exposure, checks[i].input.drawdown, 1, n)
        IN  /\ cents(0) = 0
            /\ i <= j => cents(i) <= cents(j)

\* The scores mean what the mandate says: see the four parts.
RiskIsJudgedAlike ==
    ScoreOrdersRisk /\ CommitmentsTellTheCheck /\ ScorersAgree /\ InterestGrows

=============================================================================
