---------------------------- MODULE SpendGateway ----------------------------
(***************************************************************************)
(* The x402 spend gateway: a spend line with a daily limit, payment        *)
(* challenges issued against it, and the charges of paid calls.  Many      *)
(* challenges may be open at a time, on several resources and over several *)
(* days; issuing one reserves nothing, and it never expires.               *)
(*                                                                         *)
(* The functions are pure: the caller keeps the line, and a call that      *)
(* throws leaves it.  Hashes, proofs, messages and the settlement mode are *)
(* left out.                                                               *)
(***************************************************************************)
EXTENDS Integers, FiniteSets, Functions

CONSTANTS
    Resources,  \* the resources a request may name
    Nonces,     \* the nonces of challenges
    MaxUsd,     \* the largest amount; bounds the model only
    MaxDay      \* the last day; bounds the model only

ASSUME GatewayAssumption == MaxUsd \in Nat /\ MaxDay \in Nat \ {0}

VARIABLES
    spend,       \* the spend line, with limit 0 before it is authorized
    challenges,  \* the challenges issued
    day          \* the day it is

gatewayVars == <<spend, challenges, day>>

Amounts == 1..MaxUsd
Days == 1..MaxDay
Challenge == [resource : Resources, amountUsd : Amounts, nonce : Nonces]

\* A receipt is a challenge that was charged, and the day; `n` tells the charges
\* of a challenge that was charged more than once apart.
SpendReceipt == [paid : Challenge, day : Days, n : Nat]

GatewayInit ==
    /\ spend = [dailyLimitUsd |-> 0, allowed |-> {}, usedTodayUsd |-> 0, receipts |-> {}]
    /\ challenges = {}
    /\ day = 1

-----------------------------------------------------------------------------

Authorize(limit, allowed) ==
    /\ spend.dailyLimitUsd = 0
    /\ allowed # {}
    /\ spend' = [spend EXCEPT !.dailyLimitUsd = limit, !.allowed = allowed]
    /\ UNCHANGED <<challenges, day>>

\* validateSpend.
ValidSpend(resource, amount) ==
    /\ resource \in spend.allowed
    /\ spend.usedTodayUsd + amount <= spend.dailyLimitUsd

CreateChallenge(resource, amount, nonce) ==
    /\ ValidSpend(resource, amount)
    /\ challenges' = challenges \cup
          {[resource |-> resource, amountUsd |-> amount, nonce |-> nonce]}
    /\ UNCHANGED <<spend, day>>

\* Slip: the line keeps what it had used.
ChargeUncounted(c) ==
    /\ c \in challenges
    /\ ValidSpend(c.resource, c.amountUsd)
    /\ spend' = [spend EXCEPT !.receipts =
          @ \cup {[paid |-> c, day |-> day, n |-> Cardinality(@)]}]
    /\ UNCHANGED <<challenges, day>>

\* chargePaidApiCall validates again, for the line as it is now.  It does not ask
\* whether the challenge was charged before.
Charge(c) ==
    /\ c \in challenges
    /\ ValidSpend(c.resource, c.amountUsd)
    /\ spend' = [spend EXCEPT
          !.usedTodayUsd = @ + c.amountUsd,
          !.receipts = @ \cup {[paid |-> c, day |-> day, n |-> Cardinality(@)]}]
    /\ UNCHANGED <<challenges, day>>

NextDay ==
    /\ day < MaxDay
    /\ day' = day + 1
    /\ UNCHANGED <<spend, challenges>>

GatewayNext ==
    \/ \E n \in Amounts, allowed \in SUBSET Resources : Authorize(n, allowed)
    \/ \E r \in Resources, a \in Amounts, n \in Nonces : CreateChallenge(r, a, n)
    \/ \E c \in challenges : Charge(c)
    \/ NextDay

GatewaySpec == GatewayInit /\ [][GatewayNext]_gatewayVars

-----------------------------------------------------------------------------

ChargedUsd(receipts) ==
    SumFunctionOnSet([r \in receipts |-> r.paid.amountUsd], receipts)
ReceiptsOf(d) == {r \in spend.receipts : r.day = d}

GatewayTypeOK ==
    /\ spend.dailyLimitUsd \in 0..MaxUsd
    /\ spend.usedTodayUsd \in 0..MaxUsd
    /\ spend.allowed \subseteq Resources
    /\ spend.receipts \subseteq SpendReceipt
    /\ challenges \subseteq Challenge

\* "daily spend cap": whatever was challenged before, and however the calls
\* interleave, the charges of a day stay within the limit.
DailyCapHolds ==
    \A d \in Days : ChargedUsd(ReceiptsOf(d)) <= spend.dailyLimitUsd

\* The used amount is what the receipts add up to: a charge and its receipt are
\* one step, none is lost and none counted twice.
UsedMatchesReceipts == spend.usedTodayUsd = ChargedUsd(spend.receipts)

\* The two of them: charges are counted once each, and together keep the cap.
SpendingIsCounted == DailyCapHolds /\ UsedMatchesReceipts

\* The cap is a daily one and the counter is named usedTodayUsd: it should be what
\* the charges of the current day add up to.
UsedTodayIsOfToday == spend.usedTodayUsd = ChargedUsd(ReceiptsOf(day))

=============================================================================
