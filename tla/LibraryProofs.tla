---------------------------- MODULE LibraryProofs ----------------------------
(***************************************************************************)
(* Proofs about the libraries that keep no network and no chain: the       *)
(* credit engine and the spend gateway, for every set of markets, note     *)
(* sizes, rates, resources and nonces, and for limits, slots, days and     *)
(* numbers of receipts of any size; the sealed envelopes and the risk      *)
(* scores, for every set of payloads, borrowers and mandates.              *)
(*                                                                         *)
(* The engine rests on one inductive invariant, EngineInv: the values have *)
(* their types, no more is repaid than drawn and no more drawn than lent,  *)
(* and the status tells the debt.  PaidInv adds the dollars and HistoryInv *)
(* the draws.  The gateway rests on GatewayInv: its counter is the sum of  *)
(* its receipts, which tell each other apart by their numbers.             *)
(*                                                                         *)
(* EnvelopesInv says which fields a letter of each scheme has and what its *)
(* ciphertext was sealed over: a field taken from another letter then does *)
(* not open with it, or its receipt does not vouch for it.                 *)
(* RiskInv says that a check is what RiskResult makes of its input and its *)
(* mandate.  The scores are compared without the divisions: a rounded      *)
(* quotient, times its denominator, is within half of it of the numerator  *)
(* (RoundedIs), and numerators over one denominator are compared.          *)
(***************************************************************************)
EXTENDS CreditEngine, SpendGateway, Envelopes, RiskScore, FiniteSums

Application ==
    [status : {"pending"}, limitNotes : Notes, noteSizeUsd : NoteSizes,
     interestBps : Rates, allowedMarkets : SUBSET Markets, maturitySlot : EngineSlots]

Credit ==
    [status : {"active", "closed", "delinquent"}, limitNotes : Notes,
     noteSizeUsd : NoteSizes, interestBps : Rates, allowedMarkets : SUBSET Markets,
     maturitySlot : EngineSlots, drawnNotes : Nat, repaidNotes : Nat,
     defaultedNotes : Nat, exposureUsd : Nat, repaymentDueUsd : Nat,
     totalRepaidUsd : Nat, receipts : Seq(RiskReceipt), drawHistory : Seq(Draw)]

\* What every call keeps of a line.
Sound(c) ==
    /\ c.repaidNotes <= c.drawnNotes
    /\ c.drawnNotes <= c.limitNotes
    /\ c.defaultedNotes <= c.drawnNotes
    /\ c.status = "closed" => c.repaidNotes = c.drawnNotes
    /\ c.status = "active" => c.drawnNotes = 0 \/ c.repaidNotes < c.drawnNotes
    /\ c.status = "delinquent" =>
          /\ c.repaidNotes < c.drawnNotes
          /\ c.drawnNotes - c.repaidNotes <= c.defaultedNotes

EngineInv ==
    /\ application = NoApplication \/ application \in Application
    /\ credit = NoCredit \/ (credit \in Credit /\ Sound(credit))

-----------------------------------------------------------------------------
(* Amounts.                                                                *)

\* A line never owes a negative number of notes.
LEMMA OutstandingIsDifference ==
    ASSUME NEW c \in Credit, Sound(c)
    PROVE  /\ OutstandingNotes(c) = c.drawnNotes - c.repaidNotes
           /\ OutstandingNotes(c) \in Nat
BY DEF Sound, Credit, OutstandingNotes

\* The product of two natural numbers is one (a size times a number of notes).
LEMMA ProductIsNat ==
    ASSUME NEW a \in Nat, NEW b \in Nat
    PROVE  a * b \in Nat
OBVIOUS

\* So is the rounded quotient.
LEMMA QuotientIsNat ==
    ASSUME NEW a \in Nat
    PROVE  a \div 10000 \in Nat
OBVIOUS

\* What is due for some notes is a number of dollars.
LEMMA DueIsNat ==
    ASSUME NEW n \in Nat, NEW s \in Nat, NEW b \in Nat
    PROVE  NotesDue(n, s, b) \in Nat
<1> DEFINE p == n * s
           i == p * b
<1>1. p \in Nat /\ i \in Nat
  BY ProductIsNat
<1>2. (i + 9999) \div 10000 \in Nat
  <2> HIDE DEF i
  <2> QED BY <1>1, QuotientIsNat
<1> QED BY <1>1, <1>2 DEF NotesDue

\* Numbers of notes are positive, sizes and rates are natural numbers.
LEMMA NotesArePositive ==
    ASSUME NEW n \in Notes
    PROVE  n \in Nat /\ n > 0
BY EngineAssumption, SMTT(30) DEF Notes

\* Note sizes are numbers of dollars.
LEMMA SizesAreNumbers ==
    ASSUME NEW size \in NoteSizes
    PROVE  size \in Nat
BY EngineAssumption, SMTT(30)

\* Rates are numbers of basis points.
LEMMA RatesAreNumbers ==
    ASSUME NEW bps \in Rates
    PROVE  bps \in Nat
BY EngineAssumption, SMTT(30)

\* So are the two in a credit line.
LEMMA TermsAreNumbers ==
    ASSUME NEW c \in Credit
    PROVE  c.noteSizeUsd \in Nat /\ c.interestBps \in Nat
<1>1. c.noteSizeUsd \in NoteSizes
  BY DEF Credit
<1>2. c.interestBps \in Rates
  BY DEF Credit
<1>3. c.noteSizeUsd \in Nat
  BY <1>1, SizesAreNumbers
<1>4. c.interestBps \in Nat
  BY <1>2, RatesAreNumbers
<1> QED BY <1>3, <1>4

\* recalculateLine changes the two amounts and nothing else.
LEMMA RecalculatedKeeps ==
    ASSUME NEW c \in Credit, Sound(c)
    PROVE  Recalculated(c) \in Credit /\ Sound(Recalculated(c))
<1> DEFINE out == OutstandingNotes(c)
<1>1. out \in Nat
  BY OutstandingIsDifference
<1>2. c.noteSizeUsd \in Nat /\ c.interestBps \in Nat
  BY TermsAreNumbers
<1>3. out * c.noteSizeUsd \in Nat
  BY <1>1, <1>2, ProductIsNat
<1>4. NotesDue(out, c.noteSizeUsd, c.interestBps) \in Nat
  BY <1>1, <1>2, DueIsNat
<1> HIDE DEF out
<1>5. Recalculated(c) =
        [c EXCEPT !.exposureUsd = out * c.noteSizeUsd,
                  !.repaymentDueUsd = NotesDue(out, c.noteSizeUsd, c.interestBps)]
  BY DEF Recalculated, out
<1>6. Recalculated(c) \in Credit
  BY <1>3, <1>4, <1>5 DEF Credit
<1>7. Sound(Recalculated(c))
  BY <1>5 DEF Credit, Sound
<1> QED BY <1>6, <1>7

\* Each call hands out a sound line, given one.
LEMMA ApprovedIsSound ==
    ASSUME NEW a \in Application
    PROVE  Approved(a) \in Credit /\ Sound(Approved(a))
<1> DEFINE new ==
        [status |-> "active", limitNotes |-> a.limitNotes,
         noteSizeUsd |-> a.noteSizeUsd, interestBps |-> a.interestBps,
         allowedMarkets |-> a.allowedMarkets, maturitySlot |-> a.maturitySlot,
         drawnNotes |-> 0, repaidNotes |-> 0, defaultedNotes |-> 0,
         exposureUsd |-> 0, repaymentDueUsd |-> 0, totalRepaidUsd |-> 0,
         receipts |-> << >>, drawHistory |-> << >>]
<1>1. new \in Credit
  BY DEF Application, Credit
<1>2. Sound(new)
  BY EngineAssumption, SMTT(30) DEF Application, Sound, Notes
<1>3. Approved(a) = Recalculated(new)
  BY DEF Approved
<1> HIDE DEF new
<1> QED BY <1>1, <1>2, <1>3, RecalculatedKeeps

\* A draw within the limit keeps the line sound.
LEMMA DrawnIsSound ==
    ASSUME NEW c \in Credit, Sound(c), c.status = "active",
           NEW n \in Notes, NEW m \in Markets, NEW now \in EngineSlots,
           c.drawnNotes + n <= c.limitNotes
    PROVE  Drawn(c, n, m, now) \in Credit /\ Sound(Drawn(c, n, m, now))
<1> DEFINE next == [c EXCEPT
        !.drawnNotes = @ + n,
        !.drawHistory = Append(@, [notes |-> n, market |-> m, at |-> now])]
<1>1. n > 0 /\ c.drawnNotes + n \in Nat
  BY NotesArePositive DEF Credit
<1>2. Append(c.drawHistory, [notes |-> n, market |-> m, at |-> now]) \in Seq(Draw)
  BY DEF Credit, Draw
<1>3. next \in Credit
  BY <1>1, <1>2 DEF Credit
<1>4. Sound(next)
  BY <1>1 DEF Credit, Sound, Notes
<1>5. Drawn(c, n, m, now) = Recalculated(next)
  BY DEF Drawn
<1> HIDE DEF next
<1> QED BY <1>3, <1>4, <1>5, RecalculatedKeeps

\* A line that is repaid in full is closed, whatever it was before.
LEMMA RepaidIsSound ==
    ASSUME NEW c \in Credit, Sound(c), NEW n \in Notes, n <= OutstandingNotes(c)
    PROVE  Repaid(c, n) \in Credit /\ Sound(Repaid(c, n))
<1> DEFINE status == StatusAfterRepay(c, n)
           paid == NotesDue(n, c.noteSizeUsd, c.interestBps)
           next == [c EXCEPT !.repaidNotes = @ + n, !.status = status,
                             !.totalRepaidUsd = @ + paid]
<1>1. n \in Nat /\ n > 0
  BY NotesArePositive
<1>2. paid \in Nat
  <2>1. c.noteSizeUsd \in Nat /\ c.interestBps \in Nat
    BY TermsAreNumbers
  <2> QED BY <1>1, <2>1, DueIsNat
<1>3. status \in {"active", "closed", "delinquent"}
  BY DEF StatusAfterRepay, Credit
<1>4. c.repaidNotes + n <= c.drawnNotes
  BY <1>1, OutstandingIsDifference DEF Credit
<1>5. c.status # "closed"
  BY <1>1, <1>4 DEF Sound, Credit
<1>6. next = [c EXCEPT !.repaidNotes = @ + n,
                       !.status = StatusAfterRepay(c, n),
                       !.totalRepaidUsd = @ + NotesDue(n, c.noteSizeUsd, c.interestBps)]
  OBVIOUS
<1>7. Repaid(c, n) = Recalculated(next)
  BY <1>6 DEF Repaid
<1>8. Sound(next)
  BY <1>1, <1>4, <1>5, SMTT(30) DEF StatusAfterRepay, Sound, Credit
<1>9. next \in Credit
  <2>1. c.repaidNotes + n \in Nat /\ c.totalRepaidUsd + paid \in Nat
    BY <1>1, <1>2 DEF Credit
  <2> HIDE DEF status, paid
  <2> QED BY <1>3, <2>1 DEF Credit
<1> HIDE DEF next
<1> QED BY <1>7, <1>8, <1>9, RecalculatedKeeps

\* So does a settlement, early or late.
LEMMA SettledIsSound ==
    ASSUME NEW c \in Credit, Sound(c), NEW now \in EngineSlots
    PROVE  Settled(c, now) \in Credit /\ Sound(Settled(c, now))
<1> DEFINE closed == [c EXCEPT !.status = "closed"]
           late == [c EXCEPT !.status = "delinquent", !.defaultedNotes = OutstandingNotes(c)]
<1>1. OutstandingNotes(c) = c.drawnNotes - c.repaidNotes /\ OutstandingNotes(c) \in Nat
  BY OutstandingIsDifference
<1>2. CASE c.status = "closed" \/ now <= c.maturitySlot
  <2>1. Settled(c, now) = Recalculated(c)
    BY <1>2 DEF Settled
  <2> QED BY <2>1, RecalculatedKeeps
<1>3. CASE /\ ~(c.status = "closed" \/ now <= c.maturitySlot)
           /\ OutstandingNotes(c) = 0
  <2>1. Settled(c, now) = Recalculated(closed)
    BY <1>3 DEF Settled
  <2>2. closed \in Credit /\ Sound(closed)
    BY <1>1, <1>3, SMTT(30) DEF Credit, Sound
  <2> HIDE DEF closed
  <2> QED BY <2>1, <2>2, RecalculatedKeeps
<1>4. CASE /\ ~(c.status = "closed" \/ now <= c.maturitySlot)
           /\ OutstandingNotes(c) # 0
  <2>1. Settled(c, now) = Recalculated(late)
    BY <1>4 DEF Settled
  <2>2. late \in Credit
    BY <1>1 DEF Credit
  <2>3. Sound(late)
    BY <1>1, <1>4 DEF Credit, Sound
  <2> HIDE DEF late
  <2> QED BY <2>1, <2>2, <2>3, RecalculatedKeeps
<1> QED BY <1>2, <1>3, <1>4

\* A risk receipt changes no amount.
LEMMA WithReceiptIsSound ==
    ASSUME NEW c \in Credit, Sound(c), NEW start \in EngineSlots,
           NEW end \in EngineSlots, NEW now \in EngineSlots
    PROVE  WithReceipt(c, start, end, now) \in Credit /\ Sound(WithReceipt(c, start, end, now))
<1>1. Append(c.receipts, [start |-> start, end |-> end, at |-> now]) \in Seq(RiskReceipt)
  BY DEF Credit, RiskReceipt
<1> QED BY <1>1 DEF WithReceipt, Credit, Sound

-----------------------------------------------------------------------------
(* The invariant.                                                          *)

\* Every step keeps the line of its type and sound.
LEMMA EngineInvHolds == EngineSpec => []EngineInv
<1>1. EngineInit => EngineInv
  BY DEF EngineInit, EngineInv
<1>2. EngineInv /\ [EngineNext]_engineVars => EngineInv'
  <2> SUFFICES ASSUME EngineInv, [EngineNext]_engineVars
               PROVE  EngineInv'
    OBVIOUS
  <2>1. credit.status # "none" => credit \in Credit /\ Sound(credit)
    BY DEF EngineInv, NoCredit
  <2>2. CASE UNCHANGED engineVars
    BY <2>2 DEF EngineInv, engineVars
  <2>3. ASSUME NEW n \in Notes, NEW size \in NoteSizes, NEW bps \in Rates,
               NEW allowed \in SUBSET Markets, NEW m \in EngineSlots,
               CreateApplication(n, size, bps, allowed, m)
        PROVE  EngineInv'
    <3>1. application' \in Application
      BY <2>3 DEF CreateApplication, Application
    <3> QED BY <2>3, <3>1 DEF CreateApplication, EngineInv
  <2>4. ASSUME NEW now \in EngineSlots, ApproveLine(now)
        PROVE  EngineInv'
    <3>1. application \in Application
      BY <2>4 DEF ApproveLine, EngineInv, NoApplication
    <3>2. credit' \in Credit /\ Sound(credit')
      BY <2>4, <3>1, ApprovedIsSound DEF ApproveLine
    <3> QED BY <2>4, <3>2 DEF ApproveLine, EngineInv
  <2>5. ASSUME NEW now \in EngineSlots, SettleLine(now)
        PROVE  EngineInv'
    <3>1. credit' \in Credit /\ Sound(credit')
      BY <2>1, <2>5, SettledIsSound DEF SettleLine
    <3> QED BY <2>5, <3>1 DEF SettleLine, EngineInv
  <2>6. ASSUME NEW n \in Notes, NEW m \in Markets, NEW now \in EngineSlots,
               DrawNotes(n, m, now)
        PROVE  EngineInv'
    <3>1. credit \in Credit /\ Sound(credit)
      BY <2>1, <2>6 DEF DrawNotes, DrawAllowed
    <3>2. credit' \in Credit /\ Sound(credit')
      BY <2>6, <3>1, DrawnIsSound DEF DrawNotes, DrawAllowed
    <3> QED BY <2>6, <3>2 DEF DrawNotes, EngineInv
  <2>7. ASSUME NEW n \in Notes, RepayNotes(n)
        PROVE  EngineInv'
    <3>1. credit' \in Credit /\ Sound(credit')
      BY <2>1, <2>7, RepaidIsSound DEF RepayNotes
    <3> QED BY <2>7, <3>1 DEF RepayNotes, EngineInv
  <2>8. ASSUME NEW s \in Signers, NEW start \in EngineSlots, NEW end \in EngineSlots,
               NEW now \in EngineSlots, PostRiskReceipt(s, start, end, now)
        PROVE  EngineInv'
    <3>1. credit' \in Credit /\ Sound(credit')
      BY <2>1, <2>8, WithReceiptIsSound DEF PostRiskReceipt
    <3> QED BY <2>8, <3>1 DEF PostRiskReceipt, EngineInv
  <2> QED BY <2>2, <2>3, <2>4, <2>5, <2>6, <2>7, <2>8 DEF EngineNext
<1> QED BY <1>1, <1>2, PTL DEF EngineSpec

\* The status of a line tells its debt (engine index.ts:198, 246, 284), for every
\* limit and through every order of draws, repayments and settlements.
THEOREM StatusAlwaysTellsDebt == EngineSpec => []StatusTellsDebt
<1>1. EngineInv => StatusTellsDebt
  <2> SUFFICES ASSUME EngineInv, credit.status # "none"
               PROVE  StatusTellsDebt
    BY DEF StatusTellsDebt
  <2>1. credit \in Credit /\ Sound(credit)
    BY DEF EngineInv, NoCredit
  <2>2. /\ OutstandingNotes(credit) = credit.drawnNotes - credit.repaidNotes
        /\ OutstandingNotes(credit) \in Nat
    BY <2>1, OutstandingIsDifference
  <2> QED BY <2>1, <2>2 DEF StatusTellsDebt, Sound, Credit
<1> QED BY <1>1, EngineInvHolds, PTL

\* The line and the application hold values of their types (index.ts:13-91):
\* no counter exceeds the limit asked for and no amount is negative.
THEOREM EngineTypeCorrect == EngineSpec => []EngineTypeOK
<1>1. EngineInv => EngineTypeOK
  <2> SUFFICES ASSUME EngineInv
               PROVE  EngineTypeOK
    OBVIOUS
  <2>1. application.status \in {"none", "pending"}
    BY DEF EngineInv, NoApplication, Application
  <2>2. credit.status \in {"none", "active", "closed", "delinquent"}
    BY DEF EngineInv, NoCredit, Credit
  <2>3. ASSUME credit.status # "none"
        PROVE  /\ credit.drawnNotes \in 0..MaxNotes
               /\ credit.repaidNotes \in 0..MaxNotes
               /\ credit.defaultedNotes \in 0..MaxNotes
               /\ credit.exposureUsd \in Nat
               /\ credit.repaymentDueUsd \in Nat
               /\ credit.totalRepaidUsd \in Nat
               /\ credit.drawHistory \in Seq(Draw)
               /\ credit.receipts \in Seq(RiskReceipt)
    <3>1. credit \in Credit /\ Sound(credit)
      BY <2>3 DEF EngineInv, NoCredit
    <3>2. credit.limitNotes \in 1..MaxNotes /\ MaxNotes \in Nat
      BY <3>1, EngineAssumption DEF Credit, Notes
    <3>3. /\ credit.drawnNotes \in Nat /\ credit.repaidNotes \in Nat
          /\ credit.defaultedNotes \in Nat
      BY <3>1 DEF Credit
    <3>4. /\ credit.drawnNotes \in 0..MaxNotes
          /\ credit.repaidNotes \in 0..MaxNotes
          /\ credit.defaultedNotes \in 0..MaxNotes
      BY <3>1, <3>2, <3>3 DEF Sound
    <3> QED BY <3>1, <3>4 DEF Credit
  <2> QED BY <2>1, <2>2, <2>3 DEF EngineTypeOK
<1> QED BY <1>1, EngineInvHolds, PTL

-----------------------------------------------------------------------------
(* What no call may do.                                                    *)

\* The call that a step makes of a line that exists.
LEMMA LineSteps ==
    ASSUME EngineInv, credit.status # "none", EngineNext
    PROVE  \/ UNCHANGED credit
           \/ \E n \in Notes, m \in Markets, now \in EngineSlots : DrawNotes(n, m, now)
           \/ \E n \in Notes : RepayNotes(n)
           \/ \E now \in EngineSlots : SettleLine(now)
           \/ \E start, end, now \in EngineSlots : credit' = WithReceipt(credit, start, end, now)
BY DEF EngineNext, CreateApplication, ApproveLine, PostRiskReceipt

\* A closed line keeps its debt and its status, and a delinquent one is not lent
\* to again and stays so until it is paid, whatever is called next
\* (index.ts:198, 246).
THEOREM EndedLinesAreNotRevived == EngineSpec => EndedLinesStayEnded
<1> DEFINE Final ==
        credit.status = "closed" =>
            /\ credit'.status = "closed"
            /\ credit'.drawnNotes = credit.drawnNotes
            /\ credit'.totalRepaidUsd = credit.totalRepaidUsd
           Recovers ==
        credit.status = "delinquent" =>
            /\ credit'.drawnNotes = credit.drawnNotes
            /\ credit'.status = "delinquent" \/ OutstandingNotes(credit') = 0
            /\ credit'.defaultedNotes <= credit.defaultedNotes
<1>1. EngineInv /\ [EngineNext]_engineVars => [Final]_engineVars /\ [Recovers]_engineVars
  <2> SUFFICES ASSUME EngineInv, EngineNext, credit.status \in {"closed", "delinquent"}
               PROVE  Final /\ Recovers
    OBVIOUS
  <2>1. credit \in Credit /\ Sound(credit)
    BY DEF EngineInv, NoCredit
  <2>2. /\ OutstandingNotes(credit) = credit.drawnNotes - credit.repaidNotes
        /\ OutstandingNotes(credit) \in Nat
    BY <2>1, OutstandingIsDifference
  <2>3. CASE UNCHANGED credit
    BY <2>1, <2>3 DEF Credit
  <2>4. ASSUME NEW n \in Notes, NEW m \in Markets, NEW now \in EngineSlots,
               DrawNotes(n, m, now)
        PROVE  Final /\ Recovers
    BY <2>4 DEF DrawNotes, DrawAllowed
  <2>5. ASSUME NEW n \in Notes, RepayNotes(n)
        PROVE  Final /\ Recovers
    <3>1. n \in Nat /\ n > 0 /\ n <= OutstandingNotes(credit)
      BY <2>5, NotesArePositive DEF RepayNotes
    <3>2. credit.status = "delinquent"
      BY <2>1, <2>2, <3>1 DEF Sound, Credit
    <3>3. /\ credit'.drawnNotes = credit.drawnNotes
          /\ credit'.repaidNotes = credit.repaidNotes + n
          /\ credit'.defaultedNotes = credit.defaultedNotes
          /\ credit'.status = StatusAfterRepay(credit, n)
      BY <2>1, <2>5 DEF RepayNotes, Repaid, Recalculated, Credit
    <3>4. credit'.status = "delinquent" \/ OutstandingNotes(credit') = 0
      BY <2>1, <3>1, <3>2, <3>3 DEF StatusAfterRepay, OutstandingNotes, Credit
    <3> QED BY <2>1, <3>2, <3>3, <3>4 DEF Credit
  <2>6. ASSUME NEW now \in EngineSlots, SettleLine(now)
        PROVE  Final /\ Recovers
    <3>1. credit' = Settled(credit, now)
      BY <2>6 DEF SettleLine
    <3>2. CASE credit.status = "closed" \/ now <= credit.maturitySlot
      <4>1. credit' = Recalculated(credit)
        BY <3>1, <3>2 DEF Settled
      <4>2. /\ credit'.status = credit.status
            /\ credit'.drawnNotes = credit.drawnNotes
            /\ credit'.totalRepaidUsd = credit.totalRepaidUsd
            /\ credit'.defaultedNotes = credit.defaultedNotes
        BY <2>1, <4>1 DEF Recalculated, Credit
      <4> QED BY <2>1, <4>2 DEF Credit
    <3>3. CASE ~(credit.status = "closed" \/ now <= credit.maturitySlot)
      <4>1. credit.status = "delinquent" /\ OutstandingNotes(credit) # 0
        BY <2>1, <2>2, <3>3 DEF Sound, Credit
      <4>2. credit' = Recalculated([credit EXCEPT !.status = "delinquent",
                                     !.defaultedNotes = OutstandingNotes(credit)])
        BY <3>1, <3>3, <4>1 DEF Settled
      <4>3. /\ credit'.status = "delinquent"
            /\ credit'.drawnNotes = credit.drawnNotes
            /\ credit'.defaultedNotes = OutstandingNotes(credit)
        BY <2>1, <4>2 DEF Recalculated, Credit
      <4> QED BY <2>1, <2>2, <4>1, <4>3 DEF Sound, Credit
    <3> QED BY <3>2, <3>3
  <2>7. ASSUME NEW start \in EngineSlots, NEW end \in EngineSlots, NEW now \in EngineSlots,
               credit' = WithReceipt(credit, start, end, now)
        PROVE  Final /\ Recovers
    BY <2>1, <2>7 DEF WithReceipt, Credit
  <2> HIDE DEF Final, Recovers
  <2> QED BY <2>3, <2>4, <2>5, <2>6, <2>7, LineSteps
<1>2. EngineSpec => [][Final]_engineVars /\ [][Recovers]_engineVars
  BY <1>1, EngineInvHolds, PTL DEF EngineSpec
<1> QED BY <1>2 DEF EndedLinesStayEnded, ClosedIsFinal, DelinquentOnlyRecovers

-----------------------------------------------------------------------------
(* Dollars.                                                                *)

\* Rounding two amounts up one by one gives no less than rounding their sum up,
\* and at most one more.
LEMMA CeilingsAdd ==
    ASSUME NEW x \in Nat, NEW y \in Nat
    PROVE  /\ (x + y + 9999) \div 10000 <= (x + 9999) \div 10000 + (y + 9999) \div 10000
           /\ (x + 9999) \div 10000 + (y + 9999) \div 10000 <= (x + y + 9999) \div 10000 + 1
OBVIOUS

\* The price of two parts is the sum of their prices.
LEMMA ProductsAdd ==
    ASSUME NEW n \in Nat, NEW k \in Nat, NEW s \in Nat
    PROVE  (n + k) * s = n * s + k * s
OBVIOUS

\* Two parts of a debt cost no less than the whole, and at most a dollar more.
LEMMA DueInParts ==
    ASSUME NEW n \in Nat, NEW k \in Nat, NEW s \in Nat, NEW b \in Nat
    PROVE  /\ NotesDue(n + k, s, b) <= NotesDue(n, s, b) + NotesDue(k, s, b)
           /\ NotesDue(n, s, b) + NotesDue(k, s, b) <= NotesDue(n + k, s, b) + 1
<1> DEFINE p == n * s
           q == k * s
           x == p * b
           y == q * b
<1>1. p \in Nat /\ q \in Nat /\ (n + k) * s = p + q
  BY ProductIsNat, ProductsAdd
<1> HIDE DEF p, q
<1>2. x \in Nat /\ y \in Nat /\ (p + q) * b = x + y
  BY <1>1, ProductIsNat, ProductsAdd
<1> HIDE DEF x, y
<1>3. /\ NotesDue(n, s, b) = p + (x + 9999) \div 10000
      /\ NotesDue(k, s, b) = q + (y + 9999) \div 10000
      /\ NotesDue(n + k, s, b) = p + q + (x + y + 9999) \div 10000
  BY <1>1, <1>2 DEF NotesDue, p, q, x, y
<1>4. /\ (x + 9999) \div 10000 \in Nat
      /\ (y + 9999) \div 10000 \in Nat
      /\ (x + y + 9999) \div 10000 \in Nat
  BY <1>2, QuotientIsNat
<1> QED BY <1>1, <1>2, <1>3, <1>4, CeilingsAdd

\* Nothing is due for no notes.
LEMMA NothingDue ==
    ASSUME NEW s \in Nat, NEW b \in Nat
    PROVE  NotesDue(0, s, b) = 0
<1>1. 0 * s = 0 /\ 0 * b = 0
  OBVIOUS
<1>2. (0 + 9999) \div 10000 = 0
  OBVIOUS
<1> QED BY <1>1, <1>2 DEF NotesDue

\* What is due for a number of notes of a line.
Due(c, n) == NotesDue(n, c.noteSizeUsd, c.interestBps)

\* What is due is a number of dollars.
LEMMA DollarsDue ==
    ASSUME NEW c \in Credit, NEW n \in Nat
    PROVE  Due(c, n) \in Nat
<1>1. c.noteSizeUsd \in Nat /\ c.interestBps \in Nat
  BY TermsAreNumbers
<1> QED BY <1>1, DueIsNat DEF Due

\* The dollars due now are those of the notes out, and what was paid for the notes
\* repaid is at least their price, at most a dollar more for each of them.
Fair(c) ==
    /\ Due(c, c.repaidNotes) <= c.totalRepaidUsd
    /\ c.totalRepaidUsd <= Due(c, c.repaidNotes) + c.repaidNotes

Current(c) == c.repaymentDueUsd = Due(c, c.drawnNotes - c.repaidNotes)

PaidInv == EngineInv /\ (credit.status # "none" => Fair(credit) /\ Current(credit))

\* Recalculating brings the dollars due up to date and touches no payment.
LEMMA RecalculatedIsFair ==
    ASSUME NEW c \in Credit, Sound(c), Fair(c)
    PROVE  Fair(Recalculated(c)) /\ Current(Recalculated(c))
<1>1. OutstandingNotes(c) = c.drawnNotes - c.repaidNotes
  BY OutstandingIsDifference
<1>2. LET r == Recalculated(c) IN
      /\ r.noteSizeUsd = c.noteSizeUsd /\ r.interestBps = c.interestBps
      /\ r.drawnNotes = c.drawnNotes /\ r.repaidNotes = c.repaidNotes
      /\ r.totalRepaidUsd = c.totalRepaidUsd
      /\ r.repaymentDueUsd = NotesDue(OutstandingNotes(c), c.noteSizeUsd, c.interestBps)
  BY DEF Recalculated, Credit
<1> QED BY <1>1, <1>2 DEF Fair, Current, Due

\* A new line owes nothing and was paid nothing.
LEMMA ApprovedIsFair ==
    ASSUME NEW a \in Application
    PROVE  Fair(Approved(a)) /\ Current(Approved(a))
<1> DEFINE new ==
        [status |-> "active", limitNotes |-> a.limitNotes,
         noteSizeUsd |-> a.noteSizeUsd, interestBps |-> a.interestBps,
         allowedMarkets |-> a.allowedMarkets, maturitySlot |-> a.maturitySlot,
         drawnNotes |-> 0, repaidNotes |-> 0, defaultedNotes |-> 0,
         exposureUsd |-> 0, repaymentDueUsd |-> 0, totalRepaidUsd |-> 0,
         receipts |-> << >>, drawHistory |-> << >>]
<1>1. new \in Credit
  BY DEF Application, Credit
<1>2. Sound(new)
  BY EngineAssumption, SMTT(30) DEF Application, Sound, Notes
<1>3. Due(new, 0) = 0
  <2>1. new.noteSizeUsd \in Nat /\ new.interestBps \in Nat
    BY <1>1, TermsAreNumbers
  <2> QED BY <2>1, NothingDue DEF Due
<1>4. Fair(new)
  BY <1>3 DEF Fair
<1>5. Approved(a) = Recalculated(new)
  BY DEF Approved
<1> HIDE DEF new
<1> QED BY <1>1, <1>2, <1>4, <1>5, RecalculatedIsFair

\* A draw adds its price to what is due.
LEMMA DrawnIsFair ==
    ASSUME NEW c \in Credit, Sound(c), c.status = "active", Fair(c),
           NEW n \in Notes, NEW m \in Markets, NEW now \in EngineSlots,
           c.drawnNotes + n <= c.limitNotes
    PROVE  Fair(Drawn(c, n, m, now)) /\ Current(Drawn(c, n, m, now))
<1> DEFINE next == [c EXCEPT
        !.drawnNotes = @ + n,
        !.drawHistory = Append(@, [notes |-> n, market |-> m, at |-> now])]
<1>1. n > 0 /\ c.drawnNotes + n \in Nat
  BY NotesArePositive DEF Credit
<1>2. Append(c.drawHistory, [notes |-> n, market |-> m, at |-> now]) \in Seq(Draw)
  BY DEF Credit, Draw
<1>3. next \in Credit
  BY <1>1, <1>2 DEF Credit
<1>4. Sound(next)
  BY <1>1 DEF Credit, Sound, Notes
<1>5. Fair(next)
  BY DEF Fair, Due, Credit
<1>6. Drawn(c, n, m, now) = Recalculated(next)
  BY DEF Drawn
<1> HIDE DEF next
<1> QED BY <1>3, <1>4, <1>5, <1>6, RecalculatedIsFair

\* A repayment rounds up once: it costs its own dollars, and leaves the rest due.
LEMMA RepaidIsFair ==
    ASSUME NEW c \in Credit, Sound(c), Fair(c), NEW n \in Notes, n <= OutstandingNotes(c)
    PROVE  Fair(Repaid(c, n)) /\ Current(Repaid(c, n))
<1> DEFINE r == Repaid(c, n)
<1>1. r \in Credit /\ Sound(r)
  BY RepaidIsSound
<1>2. /\ r.noteSizeUsd = c.noteSizeUsd /\ r.interestBps = c.interestBps
      /\ r.drawnNotes = c.drawnNotes
      /\ r.repaidNotes = c.repaidNotes + n
      /\ r.totalRepaidUsd = c.totalRepaidUsd + Due(c, n)
  BY DEF Repaid, Recalculated, Credit, Due
<1>3. n \in Nat /\ n > 0 /\ c.repaidNotes \in Nat /\ c.totalRepaidUsd \in Nat
  BY NotesArePositive DEF Credit
<1>4. c.noteSizeUsd \in Nat /\ c.interestBps \in Nat
  BY TermsAreNumbers
<1>5. /\ Due(c, n) \in Nat /\ Due(c, c.repaidNotes) \in Nat
      /\ Due(c, c.repaidNotes + n) \in Nat
  <2>1. c.repaidNotes + n \in Nat
    BY <1>3
  <2> QED BY <1>3, <2>1, DollarsDue
<1>6. /\ Due(c, c.repaidNotes + n) <= Due(c, c.repaidNotes) + Due(c, n)
      /\ Due(c, c.repaidNotes) + Due(c, n) <= Due(c, c.repaidNotes + n) + 1
  BY <1>3, <1>4, DueInParts DEF Due
<1>7. /\ Due(c, c.repaidNotes) <= c.totalRepaidUsd
      /\ c.totalRepaidUsd <= Due(c, c.repaidNotes) + c.repaidNotes
  BY DEF Fair
<1>8. /\ Due(c, c.repaidNotes + n) <= c.totalRepaidUsd + Due(c, n)
      /\ c.totalRepaidUsd + Due(c, n) <= Due(c, c.repaidNotes + n) + (c.repaidNotes + n)
  BY <1>3, <1>5, <1>6, <1>7
<1>9. Fair(r)
  <2>1. Due(r, r.repaidNotes) = Due(c, c.repaidNotes + n)
    BY <1>2 DEF Due
  <2> HIDE DEF r
  <2> QED BY <1>2, <1>8, <2>1 DEF Fair
<1>10. Current(r)
  <2>1. r.repaymentDueUsd =
          NotesDue(OutstandingNotes(r), r.noteSizeUsd, r.interestBps)
    BY DEF Repaid, Recalculated, OutstandingNotes, Credit
  <2>2. OutstandingNotes(r) = r.drawnNotes - r.repaidNotes
    BY <1>1, OutstandingIsDifference
  <2> HIDE DEF r
  <2> QED BY <2>1, <2>2 DEF Current, Due
<1> QED BY <1>9, <1>10

\* A settlement takes no payment.
LEMMA SettledIsFair ==
    ASSUME NEW c \in Credit, Sound(c), Fair(c), NEW now \in EngineSlots
    PROVE  Fair(Settled(c, now)) /\ Current(Settled(c, now))
<1> DEFINE s == Settled(c, now)
<1>1. s \in Credit /\ Sound(s)
  BY SettledIsSound
<1>2. /\ s.noteSizeUsd = c.noteSizeUsd /\ s.interestBps = c.interestBps
      /\ s.drawnNotes = c.drawnNotes /\ s.repaidNotes = c.repaidNotes
      /\ s.totalRepaidUsd = c.totalRepaidUsd
      /\ s.repaymentDueUsd = NotesDue(OutstandingNotes(c), c.noteSizeUsd, c.interestBps)
  BY DEF Settled, Recalculated, OutstandingNotes, Credit
<1>3. OutstandingNotes(c) = c.drawnNotes - c.repaidNotes
  BY OutstandingIsDifference
<1> HIDE DEF s
<1> QED BY <1>2, <1>3 DEF Fair, Current, Due, s

\* Every step keeps the payments fair.
LEMMA PaidInvHolds == EngineSpec => []PaidInv
<1>1. EngineInit /\ EngineInv => PaidInv
  BY DEF EngineInit, PaidInv, NoCredit
<1>2. EngineInv /\ EngineInv' /\ PaidInv /\ [EngineNext]_engineVars => PaidInv'
  <2> SUFFICES ASSUME EngineInv, PaidInv, [EngineNext]_engineVars, credit'.status # "none"
               PROVE  Fair(credit') /\ Current(credit')
    BY DEF PaidInv
  <2>1. credit.status # "none" =>
            credit \in Credit /\ Sound(credit) /\ Fair(credit) /\ Current(credit)
    BY DEF PaidInv, EngineInv, NoCredit
  <2>2. CASE UNCHANGED credit
    BY <2>1, <2>2 DEF Fair, Current, Due
  <2>3. ASSUME NEW now \in EngineSlots, ApproveLine(now)
        PROVE  Fair(credit') /\ Current(credit')
    <3>1. application \in Application
      BY <2>3 DEF ApproveLine, EngineInv, NoApplication
    <3> QED BY <2>3, <3>1, ApprovedIsFair DEF ApproveLine
  <2>4. ASSUME NEW now \in EngineSlots, SettleLine(now)
        PROVE  Fair(credit') /\ Current(credit')
    BY <2>1, <2>4, SettledIsFair DEF SettleLine
  <2>5. ASSUME NEW n \in Notes, NEW m \in Markets, NEW now \in EngineSlots,
               DrawNotes(n, m, now)
        PROVE  Fair(credit') /\ Current(credit')
    <3>1. credit.status = "active"
      BY <2>5 DEF DrawNotes, DrawAllowed
    <3> QED BY <2>1, <2>5, <3>1, DrawnIsFair DEF DrawNotes, DrawAllowed
  <2>6. ASSUME NEW n \in Notes, RepayNotes(n)
        PROVE  Fair(credit') /\ Current(credit')
    BY <2>1, <2>6, RepaidIsFair DEF RepayNotes
  <2>7. ASSUME NEW x \in Signers, NEW start \in EngineSlots, NEW end \in EngineSlots,
               NEW now \in EngineSlots, PostRiskReceipt(x, start, end, now)
        PROVE  Fair(credit') /\ Current(credit')
    BY <2>1, <2>7 DEF PostRiskReceipt, WithReceipt, Credit, Fair, Current, Due
  <2> QED BY <2>2, <2>3, <2>4, <2>5, <2>6, <2>7 DEF EngineNext, CreateApplication, engineVars
<1> QED BY <1>1, <1>2, EngineInvHolds, PTL DEF EngineSpec

\* Paying in parts never costs less than paying at once and at most a dollar more
\* for each note, for every size, rate and way to split the debt (index.ts:284).
THEOREM PartsAlwaysCoverTheDebt == EngineSpec => []PartPaymentsCoverTheDebt
<1>1. PaidInv => PartPaymentsCoverTheDebt
  <2> SUFFICES ASSUME PaidInv, credit.status # "none"
               PROVE  /\ Due(credit, credit.drawnNotes)
                            <= credit.totalRepaidUsd + credit.repaymentDueUsd
                      /\ credit.totalRepaidUsd
                            <= Due(credit, credit.repaidNotes) + credit.repaidNotes
    BY DEF PartPaymentsCoverTheDebt, Due
  <2>1. credit \in Credit /\ Sound(credit) /\ Fair(credit) /\ Current(credit)
    BY DEF PaidInv, EngineInv, NoCredit
  <2> DEFINE d == credit.drawnNotes
             p == credit.repaidNotes
  <2>2. p \in Nat /\ d - p \in Nat /\ p + (d - p) = d /\ credit.totalRepaidUsd \in Nat
    BY <2>1 DEF Credit, Sound
  <2>3. credit.noteSizeUsd \in Nat /\ credit.interestBps \in Nat
    BY <2>1, TermsAreNumbers
  <2>4. Due(credit, p + (d - p)) <= Due(credit, p) + Due(credit, d - p)
    BY <2>2, <2>3, DueInParts DEF Due
  <2>5. /\ Due(credit, p) \in Nat /\ Due(credit, d - p) \in Nat
        /\ Due(credit, p + (d - p)) \in Nat
    <3>1. p + (d - p) \in Nat
      BY <2>2
    <3> HIDE DEF d, p
    <3> QED BY <2>1, <2>2, <3>1, DollarsDue
  <2> QED BY <2>1, <2>2, <2>4, <2>5 DEF Fair, Current
<1> QED BY <1>1, PaidInvHolds, PTL

-----------------------------------------------------------------------------
(* The history of draws.                                                   *)

\* One more draw adds its notes to what the history tells.
LEMMA OneMoreDraw ==
    ASSUME NEW h \in Seq(Draw), NEW d \in Draw
    PROVE  /\ NotesIn(Append(h, d)) = NotesIn(h) + d.notes
           /\ NotesIn(h) \in Int
<1> DEFINE S == 1..Len(h)
           f == [i \in 1..Len(h) |-> h[i].notes]
           g == [i \in 1..Len(Append(h, d)) |-> Append(h, d)[i].notes]
<1>1. /\ Len(h) \in Nat
      /\ Len(Append(h, d)) = Len(h) + 1
      /\ \A i \in S : Append(h, d)[i] = h[i] /\ h[i] \in Draw
      /\ Append(h, d)[Len(h) + 1] = d
  OBVIOUS
<1>2. \A x \in Draw : x.notes \in Nat
  BY NotesArePositive DEF Draw
<1>3. /\ DOMAIN f = S
      /\ DOMAIN g = S \cup {Len(h) + 1}
      /\ Len(h) + 1 \notin S
  BY <1>1
<1>4. IsFiniteSet(S)
  BY <1>1, FS_Interval
<1>5. \A i \in S : f[i] = g[i] /\ f[i] \in Int
  BY <1>1, <1>2
<1>6. g[Len(h) + 1] = d.notes /\ d.notes \in Int
  BY <1>1, <1>2
<1>7. NotesIn(h) = SumFunctionOnSet(f, S)
  BY <1>3 DEF NotesIn, SumFunction
<1>8. NotesIn(Append(h, d)) = SumFunctionOnSet(g, S \cup {Len(h) + 1})
  BY <1>3 DEF NotesIn, SumFunction
<1> HIDE DEF f, g, S
<1>9. SumFunctionOnSet(g, S \cup {Len(h) + 1}) = g[Len(h) + 1] + SumFunctionOnSet(g, S)
  BY <1>3, <1>4, <1>5, <1>6, SumAdd
<1>10. SumFunctionOnSet(g, S) = SumFunctionOnSet(f, S) /\ SumFunctionOnSet(f, S) \in Int
  <2>1. SumFunctionOnSet(f, S) \in Int
    BY <1>4, <1>5, SumType
  <2>2. SumFunctionOnSet(f, S) = SumFunctionOnSet(g, S)
    BY <1>4, <1>5, SumSame
  <2> QED BY <2>1, <2>2
<1> QED BY <1>6, <1>7, <1>8, <1>9, <1>10

\* A line without draws tells none.
LEMMA NoDraws == NotesIn(<< >>) = 0
<1>1. [i \in 1..Len(<< >>) |-> << >>[i].notes] = [i \in {} |-> << >>[i].notes]
  OBVIOUS
<1>2. DOMAIN [i \in 1..Len(<< >>) |-> << >>[i].notes] = {}
  BY <1>1
<1> QED BY <1>2, SumEmpty DEF NotesIn, SumFunction

\* The history of a line tells its draws, each inside the mandate.
Told(c) ==
    /\ NotesIn(c.drawHistory) = c.drawnNotes
    /\ \A i \in 1..Len(c.drawHistory) :
          /\ c.drawHistory[i].market \in c.allowedMarkets
          /\ c.drawHistory[i].at < c.maturitySlot

HistoryInv == EngineInv /\ (credit.status # "none" => Told(credit))

\* Two lines with the same history and mandate tell the same.
LEMMA ToldAlike ==
    ASSUME NEW c, NEW d, Told(c), d.drawHistory = c.drawHistory,
           d.drawnNotes = c.drawnNotes, d.allowedMarkets = c.allowedMarkets,
           d.maturitySlot = c.maturitySlot
    PROVE  Told(d)
BY DEF Told

\* A draw is told.
LEMMA DrawnIsTold ==
    ASSUME NEW c \in Credit, Told(c), NEW n \in Notes, NEW m \in c.allowedMarkets,
           NEW now \in EngineSlots, now < c.maturitySlot
    PROVE  Told(Drawn(c, n, m, now))
<1> DEFINE d == [notes |-> n, market |-> m, at |-> now]
           h == c.drawHistory
           r == Drawn(c, n, m, now)
<1>1. d \in Draw /\ h \in Seq(Draw)
  BY DEF Draw, Credit
<1>2. /\ r.drawHistory = Append(h, d) /\ r.drawnNotes = c.drawnNotes + n
      /\ r.allowedMarkets = c.allowedMarkets /\ r.maturitySlot = c.maturitySlot
  BY DEF Drawn, Recalculated, Credit
<1>3. NotesIn(Append(h, d)) = NotesIn(h) + n
  <2>1. d.notes = n
    OBVIOUS
  <2> HIDE DEF d, h
  <2> QED BY <1>1, <2>1, OneMoreDraw
<1>4. \A i \in 1..Len(Append(h, d)) :
        Append(h, d)[i].market \in c.allowedMarkets /\ Append(h, d)[i].at < c.maturitySlot
  <2> SUFFICES ASSUME NEW i \in 1..Len(Append(h, d))
               PROVE  /\ Append(h, d)[i].market \in c.allowedMarkets
                      /\ Append(h, d)[i].at < c.maturitySlot
    OBVIOUS
  <2>1. Append(h, d)[i] = d \/ (i \in 1..Len(h) /\ Append(h, d)[i] = h[i])
    BY <1>1
  <2> QED BY <2>1 DEF Told
<1> HIDE DEF h, d, r
<1>5. NotesIn(h) = c.drawnNotes
  BY DEF Told, h
<1> QED BY <1>2, <1>3, <1>4, <1>5 DEF Told, r

\* Every step keeps the history told.
LEMMA HistoryInvHolds == EngineSpec => []HistoryInv
<1>1. EngineInit /\ EngineInv => HistoryInv
  BY DEF EngineInit, HistoryInv, NoCredit
<1>2. EngineInv /\ EngineInv' /\ HistoryInv /\ [EngineNext]_engineVars => HistoryInv'
  <2> SUFFICES ASSUME EngineInv, HistoryInv, [EngineNext]_engineVars, credit'.status # "none"
               PROVE  Told(credit')
    BY DEF HistoryInv
  <2>1. credit.status # "none" => credit \in Credit /\ Sound(credit) /\ Told(credit)
    BY DEF HistoryInv, EngineInv, NoCredit
  <2>2. CASE UNCHANGED credit
    BY <2>1, <2>2
  <2>3. ASSUME NEW now \in EngineSlots, ApproveLine(now)
        PROVE  Told(credit')
    <3>1. credit'.drawHistory = << >> /\ credit'.drawnNotes = 0
      BY <2>3 DEF ApproveLine, Approved, Recalculated
    <3> QED BY <3>1, NoDraws DEF Told
  <2>4. ASSUME NEW now \in EngineSlots, SettleLine(now)
        PROVE  Told(credit')
    <3>1. /\ credit'.drawHistory = credit.drawHistory
          /\ credit'.drawnNotes = credit.drawnNotes
          /\ credit'.allowedMarkets = credit.allowedMarkets
          /\ credit'.maturitySlot = credit.maturitySlot
      BY <2>1, <2>4 DEF SettleLine, Settled, Recalculated, Credit
    <3> QED BY <2>1, <2>4, <3>1, ToldAlike DEF SettleLine
  <2>5. ASSUME NEW n \in Notes, NEW m \in Markets, NEW now \in EngineSlots,
               DrawNotes(n, m, now)
        PROVE  Told(credit')
    BY <2>1, <2>5, DrawnIsTold DEF DrawNotes, DrawAllowed
  <2>6. ASSUME NEW n \in Notes, RepayNotes(n)
        PROVE  Told(credit')
    <3>1. /\ credit'.drawHistory = credit.drawHistory
          /\ credit'.drawnNotes = credit.drawnNotes
          /\ credit'.allowedMarkets = credit.allowedMarkets
          /\ credit'.maturitySlot = credit.maturitySlot
      BY <2>1, <2>6 DEF RepayNotes, Repaid, Recalculated, Credit
    <3> QED BY <2>1, <2>6, <3>1, ToldAlike DEF RepayNotes
  <2>7. ASSUME NEW x \in Signers, NEW start \in EngineSlots, NEW end \in EngineSlots,
               NEW now \in EngineSlots, PostRiskReceipt(x, start, end, now)
        PROVE  Told(credit')
    <3>1. /\ credit'.drawHistory = credit.drawHistory
          /\ credit'.drawnNotes = credit.drawnNotes
          /\ credit'.allowedMarkets = credit.allowedMarkets
          /\ credit'.maturitySlot = credit.maturitySlot
      BY <2>1, <2>7 DEF PostRiskReceipt, WithReceipt, Credit
    <3> QED BY <2>1, <2>7, <3>1, ToldAlike DEF PostRiskReceipt
  <2> QED BY <2>2, <2>3, <2>4, <2>5, <2>6, <2>7 DEF EngineNext, CreateApplication, engineVars
<1> QED BY <1>1, <1>2, EngineInvHolds, PTL DEF EngineSpec

\* The amounts of a line add up in notes and in dollars: its history tells every
\* note drawn, inside the mandate and the limit, and its payments, however split,
\* cover its debt (engine index.ts: drawNotes, repayNotes, recalculateLine).
THEOREM AmountsAlwaysAddUp == EngineSpec => []AmountsAddUp
<1>1. HistoryInv => HistoryAccountsForDraws
  <2> SUFFICES ASSUME HistoryInv, credit.status # "none"
               PROVE  /\ NotesIn(credit.drawHistory) = credit.drawnNotes
                      /\ \A d \in ToSet(credit.drawHistory) :
                            d.market \in credit.allowedMarkets /\ d.at < credit.maturitySlot
                      /\ credit.repaidNotes <= credit.drawnNotes
                      /\ credit.drawnNotes <= credit.limitNotes
    BY DEF HistoryAccountsForDraws
  <2>1. credit \in Credit /\ Sound(credit) /\ Told(credit)
    BY DEF HistoryInv, EngineInv, NoCredit
  <2>2. \A d \in ToSet(credit.drawHistory) :
          \E i \in 1..Len(credit.drawHistory) : d = credit.drawHistory[i]
    BY <2>1 DEF ToSet, Credit
  <2> QED BY <2>1, <2>2 DEF Told, Sound
<1> QED BY <1>1, HistoryInvHolds, PartsAlwaysCoverTheDebt, PTL DEF AmountsAddUp

-----------------------------------------------------------------------------
(* The risk worker and the demo.                                           *)

\* Something is due exactly for some notes.
LEMMA DueForSomeNotes ==
    ASSUME NEW n \in Nat, NEW s \in Nat, s > 0, NEW b \in Nat
    PROVE  NotesDue(n, s, b) > 0 <=> n > 0
<1>1. CASE n = 0
  BY <1>1, NothingDue
<1>2. CASE n > 0
  <2> DEFINE p == n * s
  <2>1. p \in Nat /\ p > 0
    <3>1. n \in Nat /\ n > 0
      BY <1>2
    <3> QED BY <3>1, SMTT(30)
  <2>2. p * b \in Nat
    BY <2>1, ProductIsNat
  <2>3. (p * b + 9999) \div 10000 \in Nat
    <3> DEFINE q == p * b
    <3> HIDE DEF q
    <3>1. q \in Nat
      BY <2>2 DEF q
    <3>2. (q + 9999) \div 10000 \in Nat
      BY <3>1, QuotientIsNat
    <3> QED BY <3>2 DEF q
  <2>4. NotesDue(n, s, b) = p + (p * b + 9999) \div 10000
    BY DEF NotesDue
  <2> HIDE DEF p
  <2> QED BY <1>2, <2>1, <2>3, <2>4
<1> QED BY <1>1, <1>2

\* What each event says of the line.
LEMMA EventsSay ==
    ASSUME NEW c, NEW now, NEW interval
    PROVE  /\ "open_exposure" \in WorkerEvents(c, now, interval) <=> c.repaymentDueUsd > 0
           /\ "receipt_stale" \in WorkerEvents(c, now, interval) <=>
                  c.receipts # << >> /\ now - Last(c.receipts).end > interval
           /\ "maturity_delinquent" \in WorkerEvents(c, now, interval) <=>
                  Settled(c, now).status = "delinquent"
           /\ WorkerEvents(c, now, interval)
                \subseteq {"open_exposure", "receipt_stale", "maturity_delinquent"}
BY DEF WorkerEvents

\* A settlement finds a line delinquent when notes are out after its maturity, or
\* when it was so before.
LEMMA SettledDelinquent ==
    ASSUME NEW c \in Credit, Sound(c), NEW now \in EngineSlots
    PROVE  Settled(c, now).status = "delinquent" <=>
              /\ OutstandingNotes(c) > 0
              /\ now > c.maturitySlot \/ c.status = "delinquent"
<1>1. OutstandingNotes(c) = c.drawnNotes - c.repaidNotes /\ OutstandingNotes(c) \in Nat
  BY OutstandingIsDifference
<1>2. now \in Int /\ c.maturitySlot \in Int
  BY DEF Credit, EngineSlots
<1>3. CASE c.status = "closed" \/ now <= c.maturitySlot
  <2>1. Settled(c, now) = Recalculated(c)
    BY <1>3 DEF Settled
  <2>2. Settled(c, now).status = c.status
    BY <2>1 DEF Recalculated, Credit
  <2> QED BY <1>1, <1>2, <1>3, <2>2 DEF Sound, Credit
<1>4. CASE ~(c.status = "closed" \/ now <= c.maturitySlot)
  <2>1. CASE OutstandingNotes(c) = 0
    <3>1. Settled(c, now) = Recalculated([c EXCEPT !.status = "closed"])
      BY <1>4, <2>1 DEF Settled
    <3>2. Settled(c, now).status = "closed"
      BY <3>1 DEF Recalculated, Credit
    <3> QED BY <2>1, <3>2
  <2>2. CASE OutstandingNotes(c) # 0
    <3>1. Settled(c, now) = Recalculated([c EXCEPT !.status = "delinquent",
                                          !.defaultedNotes = OutstandingNotes(c)])
      BY <1>4, <2>2 DEF Settled
    <3>2. Settled(c, now).status = "delinquent"
      BY <3>1 DEF Recalculated, Credit
    <3> QED BY <1>1, <1>2, <1>4, <2>2, <3>2
  <2> QED BY <2>1, <2>2
<1> QED BY <1>3, <1>4

\* The demo's line, whatever note sizes and rates an application may ask for, and
\* a line on its terms that was drawn and repaid by so much.
DemoReceipt == [start : Nat, end : Nat, at : Nat]
DemoDraw == [notes : Nat, market : {"SOL-PERP"}, at : Nat]
DemoMandate == {{"SOL-PERP", "BTC-PERP"}}
DemoSize == 1000
DemoRate == 75
DemoMaturity == 50000
DemoSlot == 20050

DemoCredit ==
    [status : {"active", "closed", "delinquent"}, limitNotes : Nat, noteSizeUsd : Nat,
     interestBps : Nat, allowedMarkets : DemoMandate, maturitySlot : Nat,
     drawnNotes : Nat, repaidNotes : Nat, defaultedNotes : Nat, exposureUsd : Nat,
     repaymentDueUsd : Nat, totalRepaidUsd : Nat,
     receipts : Seq(DemoReceipt), drawHistory : Seq(DemoDraw)]

OnDemoTerms(c, drawn, repaid) ==
    /\ c \in DemoCredit
    /\ c.status = "active" /\ c.noteSizeUsd = DemoSize /\ c.interestBps = DemoRate
    /\ c.maturitySlot = DemoMaturity
    /\ c.drawnNotes = drawn /\ c.repaidNotes = repaid

\* The notes out of a line on the demo's terms, and what is due for them.
LEMMA DemoOutstanding ==
    ASSUME NEW c \in DemoCredit, c.repaidNotes <= c.drawnNotes
    PROVE  /\ OutstandingNotes(c) = c.drawnNotes - c.repaidNotes
           /\ OutstandingNotes(c) \in Nat
           /\ OutstandingNotes(c) * c.noteSizeUsd \in Nat
           /\ NotesDue(OutstandingNotes(c), c.noteSizeUsd, c.interestBps) \in Nat
<1>1. /\ OutstandingNotes(c) = c.drawnNotes - c.repaidNotes
      /\ OutstandingNotes(c) \in Nat /\ c.noteSizeUsd \in Nat /\ c.interestBps \in Nat
  BY DEF OutstandingNotes, DemoCredit
<1>2. OutstandingNotes(c) * c.noteSizeUsd \in Nat
  BY <1>1, ProductIsNat
<1>3. NotesDue(OutstandingNotes(c), c.noteSizeUsd, c.interestBps) \in Nat
  BY <1>1, DueIsNat
<1> QED BY <1>1, <1>2, <1>3

\* Recalculating keeps the terms, and the amounts are those of the notes out.
LEMMA DemoRecalculated ==
    ASSUME NEW c \in DemoCredit, c.repaidNotes <= c.drawnNotes
    PROVE  LET r == Recalculated(c) IN
           /\ r \in DemoCredit
           /\ r.status = c.status /\ r.noteSizeUsd = c.noteSizeUsd
           /\ r.interestBps = c.interestBps /\ r.maturitySlot = c.maturitySlot
           /\ r.drawnNotes = c.drawnNotes /\ r.repaidNotes = c.repaidNotes
           /\ r.defaultedNotes = c.defaultedNotes /\ r.receipts = c.receipts
           /\ r.exposureUsd = (c.drawnNotes - c.repaidNotes) * c.noteSizeUsd
           /\ r.repaymentDueUsd =
                NotesDue(c.drawnNotes - c.repaidNotes, c.noteSizeUsd, c.interestBps)
<1> DEFINE exposure == OutstandingNotes(c) * c.noteSizeUsd
           due == NotesDue(OutstandingNotes(c), c.noteSizeUsd, c.interestBps)
           r == [c EXCEPT !.exposureUsd = exposure, !.repaymentDueUsd = due]
<1>1. exposure \in Nat /\ due \in Nat /\ OutstandingNotes(c) = c.drawnNotes - c.repaidNotes
  BY DemoOutstanding
<1>2. Recalculated(c) = r
  BY DEF Recalculated
<1> HIDE DEF exposure, due
<1>3. r \in DemoCredit
  BY <1>1 DEF DemoCredit
<1>4. /\ r.status = c.status /\ r.noteSizeUsd = c.noteSizeUsd
      /\ r.interestBps = c.interestBps /\ r.maturitySlot = c.maturitySlot
      /\ r.drawnNotes = c.drawnNotes /\ r.repaidNotes = c.repaidNotes
      /\ r.defaultedNotes = c.defaultedNotes /\ r.receipts = c.receipts
      /\ r.exposureUsd = exposure /\ r.repaymentDueUsd = due
  BY DEF DemoCredit
<1> HIDE DEF r
<1> QED BY <1>1, <1>2, <1>3, <1>4 DEF exposure, due

\* The demo line is approved undrawn.
LEMMA DemoApproved == OnDemoTerms(DemoLine, 0, 0) /\ DemoLine.receipts = << >>
<1> DEFINE new ==
        [status |-> "active", limitNotes |-> 50, noteSizeUsd |-> 1000,
         interestBps |-> 75, allowedMarkets |-> {"SOL-PERP", "BTC-PERP"},
         maturitySlot |-> 50000, drawnNotes |-> 0, repaidNotes |-> 0,
         defaultedNotes |-> 0, exposureUsd |-> 0, repaymentDueUsd |-> 0,
         totalRepaidUsd |-> 0, receipts |-> << >>, drawHistory |-> << >>]
<1>1. {"SOL-PERP", "BTC-PERP"} \in DemoMandate
  BY DEF DemoMandate
<1>2. OnDemoTerms(new, 0, 0) /\ new.receipts = << >>
  BY <1>1 DEF OnDemoTerms, DemoCredit, DemoSize, DemoRate, DemoMaturity
<1>3. DemoLine = Recalculated(new)
  BY DEF DemoLine, Approved
<1> HIDE DEF new
<1>4. new \in DemoCredit /\ new.repaidNotes <= new.drawnNotes
  BY <1>2 DEF OnDemoTerms
<1> QED BY <1>2, <1>3, <1>4, DemoRecalculated DEF OnDemoTerms

\* A draw on a line of which nothing was drawn gives it the notes drawn.
LEMMA DemoDrawn ==
    ASSUME NEW c, OnDemoTerms(c, 0, 0), c.receipts = << >>,
           NEW n \in Nat, NEW at \in Nat
    PROVE  LET r == Drawn(c, n, "SOL-PERP", at) IN
           /\ OnDemoTerms(r, n, 0) /\ r.receipts = << >>
           /\ r.repaymentDueUsd = NotesDue(n, DemoSize, DemoRate)
<1> DEFINE d == [notes |-> n, market |-> "SOL-PERP", at |-> at]
           drawn == c.drawnNotes + n
           draws == Append(c.drawHistory, d)
           next == [c EXCEPT !.drawnNotes = drawn, !.drawHistory = draws]
<1>1. c \in DemoCredit /\ c.drawnNotes = 0 /\ c.repaidNotes = 0
  BY DEF OnDemoTerms
<1>2. Drawn(c, n, "SOL-PERP", at) = Recalculated(next)
  BY DEF Drawn
<1>3. d \in DemoDraw
  BY DEF DemoDraw
<1>4. drawn = n /\ n - 0 = n
  BY <1>1
<1> HIDE DEF d, drawn
<1>5. draws \in Seq(DemoDraw)
  BY <1>1, <1>3 DEF DemoCredit
<1> HIDE DEF draws
<1>6. next \in DemoCredit
  BY <1>1, <1>4, <1>5 DEF DemoCredit
<1>7. /\ next.status = c.status /\ next.noteSizeUsd = c.noteSizeUsd
      /\ next.interestBps = c.interestBps /\ next.maturitySlot = c.maturitySlot
      /\ next.drawnNotes = drawn /\ next.repaidNotes = c.repaidNotes
      /\ next.receipts = c.receipts
  BY <1>1 DEF DemoCredit
<1> HIDE DEF next
<1>8. next.repaidNotes <= next.drawnNotes
  BY <1>1, <1>4, <1>7
<1> QED BY <1>1, <1>2, <1>4, <1>6, <1>7, <1>8, DemoRecalculated DEF OnDemoTerms

\* A receipt is kept and changes no amount.
LEMMA DemoReceived ==
    ASSUME NEW c, NEW drawn, NEW repaid, OnDemoTerms(c, drawn, repaid),
           c.receipts = << >>, NEW start \in Nat, NEW end \in Nat, NEW at \in Nat
    PROVE  LET r == WithReceipt(c, start, end, at) IN
           /\ OnDemoTerms(r, drawn, repaid)
           /\ r.repaymentDueUsd = c.repaymentDueUsd
           /\ r.receipts = <<[start |-> start, end |-> end, at |-> at]>>
<1> DEFINE one == [start |-> start, end |-> end, at |-> at]
           all == Append(c.receipts, one)
           r == [c EXCEPT !.receipts = all]
<1>1. one \in DemoReceipt
  BY DEF DemoReceipt
<1>2. WithReceipt(c, start, end, at) = r
  BY DEF WithReceipt
<1>3. c \in DemoCredit
  BY DEF OnDemoTerms
<1>4. all = <<one>>
  OBVIOUS
<1> HIDE DEF one
<1>5. all \in Seq(DemoReceipt)
  BY <1>1, <1>4
<1> HIDE DEF all
<1>6. r \in DemoCredit
  BY <1>3, <1>5 DEF DemoCredit
<1>7. /\ r.status = c.status /\ r.noteSizeUsd = c.noteSizeUsd
      /\ r.interestBps = c.interestBps /\ r.maturitySlot = c.maturitySlot
      /\ r.drawnNotes = c.drawnNotes /\ r.repaidNotes = c.repaidNotes
      /\ r.repaymentDueUsd = c.repaymentDueUsd /\ r.receipts = all
  BY <1>3 DEF DemoCredit
<1> HIDE DEF r
<1>8. OnDemoTerms(r, drawn, repaid)
  BY <1>6, <1>7 DEF OnDemoTerms
<1> QED BY <1>2, <1>4, <1>7, <1>8 DEF one

\* A part repaid leaves the line open, owing the rest.
LEMMA DemoRepaid ==
    ASSUME NEW c, NEW drawn \in Nat, OnDemoTerms(c, drawn, 0), NEW n \in Nat, n < drawn
    PROVE  LET r == Repaid(c, n) IN
           /\ OnDemoTerms(r, drawn, n)
           /\ r.exposureUsd = (drawn - n) * DemoSize
           /\ r.repaymentDueUsd = NotesDue(drawn - n, DemoSize, DemoRate)
<1> DEFINE repaid == c.repaidNotes + n
           paid == NotesDue(n, c.noteSizeUsd, c.interestBps)
           total == c.totalRepaidUsd + paid
           status == StatusAfterRepay(c, n)
           next == [c EXCEPT !.repaidNotes = repaid, !.status = status,
                             !.totalRepaidUsd = total]
<1>1. /\ c \in DemoCredit /\ c.repaidNotes = 0 /\ c.drawnNotes = drawn
      /\ c.status = "active"
  BY DEF OnDemoTerms
<1>2. c.noteSizeUsd \in Nat /\ c.interestBps \in Nat /\ c.totalRepaidUsd \in Nat
  BY <1>1 DEF DemoCredit
<1>3. paid \in Nat
  BY <1>2, DueIsNat
<1>4. repaid = n /\ status = c.status
  BY <1>1 DEF StatusAfterRepay
<1>5. Repaid(c, n) = Recalculated(next)
  BY DEF Repaid
<1> HIDE DEF paid, repaid, status
<1>6. total \in Nat
  BY <1>2, <1>3
<1> HIDE DEF total
<1>7. next \in DemoCredit
  BY <1>1, <1>4, <1>6 DEF DemoCredit
<1>8. /\ next.status = status /\ next.noteSizeUsd = c.noteSizeUsd
      /\ next.interestBps = c.interestBps /\ next.maturitySlot = c.maturitySlot
      /\ next.drawnNotes = c.drawnNotes /\ next.repaidNotes = repaid
  BY <1>1 DEF DemoCredit
<1> HIDE DEF next
<1>9. next.repaidNotes <= next.drawnNotes
  BY <1>1, <1>4, <1>8
<1> QED BY <1>1, <1>4, <1>5, <1>7, <1>8, <1>9, DemoRecalculated DEF OnDemoTerms

\* After the maturity what is out is written off.
LEMMA DemoSettled ==
    ASSUME NEW c, NEW drawn \in Nat, NEW repaid \in Nat, OnDemoTerms(c, drawn, repaid),
           repaid < drawn, NEW now \in Nat, now > DemoMaturity
    PROVE  /\ Settled(c, now).status = "delinquent"
           /\ Settled(c, now).defaultedNotes = drawn - repaid
<1> DEFINE out == OutstandingNotes(c)
           late == [c EXCEPT !.status = "delinquent", !.defaultedNotes = out]
<1>1. /\ c \in DemoCredit /\ c.repaidNotes = repaid /\ c.drawnNotes = drawn
      /\ c.status = "active" /\ c.maturitySlot = DemoMaturity
  BY DEF OnDemoTerms
<1>2. out = drawn - repaid /\ out \in Nat /\ out # 0
  BY <1>1, DemoOutstanding
<1>3. ~(c.status = "closed" \/ now <= c.maturitySlot)
  BY <1>1 DEF DemoMaturity
<1>4. Settled(c, now) = Recalculated(late)
  BY <1>2, <1>3 DEF Settled
<1> HIDE DEF out
<1>5. late \in DemoCredit
  BY <1>1, <1>2 DEF DemoCredit
<1>6. /\ late.status = "delinquent" /\ late.defaultedNotes = out
      /\ late.drawnNotes = c.drawnNotes /\ late.repaidNotes = c.repaidNotes
  BY <1>1 DEF DemoCredit
<1> HIDE DEF late
<1>7. late.repaidNotes <= late.drawnNotes
  BY <1>1, <1>6
<1> QED BY <1>2, <1>4, <1>5, <1>6, <1>7, DemoRecalculated

\* What the demo line and the line the worker watches hold, call by call.
LEMMA DemoHolds ==
    /\ DemoSnapshot.exposureUsd = 7000
    /\ DemoSnapshot.repaymentDueUsd = 7053
    /\ Settled(DemoSnapshot, 51000).defaultedNotes = 7
    /\ WatchedLine.repaymentDueUsd > 0
    /\ WatchedLine.receipts = <<[start |-> 20050, end |-> 20100, at |-> 20101]>>
    /\ Settled(WatchedLine, 50500).status = "delinquent"
<1> DEFINE drawn(n) == Drawn(DemoLine, n, "SOL-PERP", DemoSlot)
           posted(n, end, at) == WithReceipt(drawn(n), DemoSlot, end, at)
<1>0. DemoSlot \in Nat
  BY DEF DemoSlot
<1>1. ASSUME NEW n \in Nat
      PROVE  /\ OnDemoTerms(drawn(n), n, 0) /\ drawn(n).receipts = << >>
             /\ drawn(n).repaymentDueUsd = NotesDue(n, DemoSize, DemoRate)
  BY <1>0, DemoApproved, DemoDrawn
<1> HIDE DEF drawn
<1>2. ASSUME NEW n \in Nat, NEW end \in Nat, NEW at \in Nat
      PROVE  OnDemoTerms(posted(n, end, at), n, 0)
  BY <1>0, <1>1, DemoReceived
<1>11. ASSUME NEW n \in Nat, NEW end \in Nat, NEW at \in Nat
       PROVE  /\ posted(n, end, at).repaymentDueUsd = NotesDue(n, DemoSize, DemoRate)
              /\ posted(n, end, at).receipts = <<[start |-> DemoSlot, end |-> end, at |-> at]>>
  <2> DEFINE c == drawn(n)
  <2>1. /\ OnDemoTerms(c, n, 0) /\ c.receipts = << >>
        /\ c.repaymentDueUsd = NotesDue(n, DemoSize, DemoRate)
    BY <1>1
  <2> HIDE DEF c
  <2>2. LET r == WithReceipt(c, DemoSlot, end, at) IN
        /\ r.repaymentDueUsd = c.repaymentDueUsd
        /\ r.receipts = <<[start |-> DemoSlot, end |-> end, at |-> at]>>
    BY <1>0, <2>1, DemoReceived
  <2> QED BY <2>1, <2>2 DEF c
<1>3. /\ DemoSnapshot = Repaid(posted(10, 20150, 20151), 3)
      /\ WatchedLine = posted(12, 20100, 20101)
  BY DEF DemoSnapshot, WatchedLine, drawn, DemoSlot
<1> HIDE DEF posted
<1>4. /\ NotesDue(7, DemoSize, DemoRate) = 7053
      /\ NotesDue(12, DemoSize, DemoRate) = 12090
  BY DEF NotesDue, DemoSize, DemoRate
<1>5. /\ OnDemoTerms(WatchedLine, 12, 0)
      /\ WatchedLine.repaymentDueUsd = 12090
      /\ WatchedLine.receipts = <<[start |-> 20050, end |-> 20100, at |-> 20101]>>
  BY <1>2, <1>11, <1>3, <1>4, SMTT(30) DEF DemoSlot
<1>6. OnDemoTerms(posted(10, 20150, 20151), 10, 0)
  BY <1>2
<1>7. /\ OnDemoTerms(DemoSnapshot, 10, 3)
      /\ DemoSnapshot.exposureUsd = (10 - 3) * DemoSize
      /\ DemoSnapshot.repaymentDueUsd = NotesDue(10 - 3, DemoSize, DemoRate)
  BY <1>3, <1>6, DemoRepaid
<1>8. DemoSnapshot.exposureUsd = 7000 /\ DemoSnapshot.repaymentDueUsd = 7053
  <2>1. 10 - 3 = 7
    OBVIOUS
  <2> QED BY <1>4, <1>7, <2>1 DEF DemoSize
<1>9. /\ Settled(WatchedLine, 50500).status = "delinquent"
      /\ Settled(DemoSnapshot, 51000).defaultedNotes = 10 - 3
  <2>1. 50500 > DemoMaturity /\ 51000 > DemoMaturity
    BY DEF DemoMaturity
  <2> QED BY <1>5, <1>7, <2>1, DemoSettled
<1>10. WatchedLine.repaymentDueUsd > 0 /\ 10 - 3 = 7
  BY <1>5
<1> QED BY <1>5, <1>8, <1>9, <1>10

\* What the worker tells of a line is true of it, after any chain of calls and for
\* every slot it may be asked at, and what the demo shows is what its chain of calls
\* gives (worker index.ts: evaluateCreditLine; api server.ts: buildDemoSnapshot).
THEOREM WorkerAlwaysTellsTheDebt == EngineSpec => []WorkerTellsTheDebt
<1>1. PaidInv => WorkerTellsTheDebt
  <2> SUFFICES ASSUME PaidInv PROVE WorkerTellsTheDebt
    OBVIOUS
  <2>1. ASSUME credit.status # "none", NEW now \in EngineSlots, NEW interval \in EngineSlots
        PROVE  LET events == WorkerEvents(credit, now, interval) IN
               /\ ("open_exposure" \in events) <=> (OutstandingNotes(credit) > 0)
               /\ ("maturity_delinquent" \in events) <=>
                     /\ OutstandingNotes(credit) > 0
                     /\ now > credit.maturitySlot \/ credit.status = "delinquent"
               /\ "receipt_stale" \in events =>
                     \E r \in ToSet(credit.receipts) : r.end + interval < now
    <3>1. credit \in Credit /\ Sound(credit) /\ Current(credit)
      BY <2>1 DEF PaidInv, EngineInv, NoCredit
    <3>2. credit.repaymentDueUsd > 0 <=> OutstandingNotes(credit) > 0
      <4>1. /\ OutstandingNotes(credit) = credit.drawnNotes - credit.repaidNotes
            /\ OutstandingNotes(credit) \in Nat
        BY <3>1, OutstandingIsDifference
      <4>2. credit.noteSizeUsd \in Nat /\ credit.noteSizeUsd > 0 /\ credit.interestBps \in Nat
        <5>1. credit.noteSizeUsd \in NoteSizes
          BY <3>1 DEF Credit
        <5>2. \A size \in NoteSizes : size \in Nat /\ size > 0
          BY EngineAssumption, SMTT(30)
        <5> QED BY <3>1, <5>1, <5>2, TermsAreNumbers
      <4>3. credit.repaymentDueUsd =
              NotesDue(OutstandingNotes(credit), credit.noteSizeUsd, credit.interestBps)
        BY <3>1, <4>1 DEF Current, Due
      <4> QED BY <4>1, <4>2, <4>3, DueForSomeNotes
    <3>3. ASSUME credit.receipts # << >>, now - Last(credit.receipts).end > interval
          PROVE  \E r \in ToSet(credit.receipts) : r.end + interval < now
      <4>1. credit.receipts \in Seq(RiskReceipt)
        BY <3>1 DEF Credit
      <4>2. /\ Len(credit.receipts) \in DOMAIN credit.receipts
            /\ Last(credit.receipts) = credit.receipts[Len(credit.receipts)]
            /\ Last(credit.receipts) \in RiskReceipt
        BY <3>3, <4>1 DEF Last
      <4>3. Last(credit.receipts).end \in Int /\ now \in Int /\ interval \in Int
        BY <4>2 DEF RiskReceipt, EngineSlots
      <4> QED BY <3>3, <4>2, <4>3 DEF ToSet
    <3> QED BY <3>1, <3>2, <3>3, EventsSay, SettledDelinquent
  <2>2. WorkerEvents(WatchedLine, 50500, DemoInterval) =
          {"open_exposure", "receipt_stale", "maturity_delinquent"}
    <3>1. Last(WatchedLine.receipts).end = 20100 /\ WatchedLine.receipts # << >>
      BY DemoHolds DEF Last
    <3>2. 50500 - 20100 > DemoInterval
      BY DEF DemoInterval
    <3>3. Settled(WatchedLine, 50500).status = "delinquent" /\ WatchedLine.repaymentDueUsd > 0
      BY DemoHolds
    <3> DEFINE events == WorkerEvents(WatchedLine, 50500, DemoInterval)
    <3>4. /\ "open_exposure" \in events <=> WatchedLine.repaymentDueUsd > 0
          /\ "receipt_stale" \in events <=>
                WatchedLine.receipts # << >>
                /\ 50500 - Last(WatchedLine.receipts).end > DemoInterval
          /\ "maturity_delinquent" \in events <=>
                Settled(WatchedLine, 50500).status = "delinquent"
          /\ events \subseteq {"open_exposure", "receipt_stale", "maturity_delinquent"}
      BY EventsSay
    <3> HIDE DEF events
    <3>5. events = {"open_exposure", "receipt_stale", "maturity_delinquent"}
      <4>1. {"open_exposure", "receipt_stale", "maturity_delinquent"} \subseteq events
        <5>1. 50500 - Last(WatchedLine.receipts).end = 50500 - 20100
          BY <3>1
        <5> QED BY <3>1, <3>2, <3>3, <3>4, <5>1
      <4>2. events \subseteq {"open_exposure", "receipt_stale", "maturity_delinquent"}
        BY <3>4
      <4> HIDE <3>4
      <4> QED BY <4>1, <4>2, Zenon
    <3> QED BY <3>5 DEF events
  <2> QED BY <2>1, <2>2, DemoHolds DEF WorkerTellsTheDebt
<1> QED BY <1>1, PaidInvHolds, PTL

-----------------------------------------------------------------------------
(* The spend gateway.                                                      *)

\* What each receipt is charged.
Paid(receipts) == [r \in receipts |-> r.paid.amountUsd]

\* The counter is what the receipts add up to and within the limit, and every
\* receipt has a number below how many there are, so that the next one is new.
GatewayInv ==
    /\ GatewayTypeOK
    /\ IsFiniteSet(spend.receipts)
    /\ \A r \in spend.receipts : r.n < Cardinality(spend.receipts)
    /\ spend = [dailyLimitUsd |-> spend.dailyLimitUsd, allowed |-> spend.allowed,
                usedTodayUsd |-> spend.usedTodayUsd, receipts |-> spend.receipts]
    /\ spend.usedTodayUsd = ChargedUsd(spend.receipts)
    /\ spend.usedTodayUsd <= spend.dailyLimitUsd

\* Receipts are for whole dollars.
LEMMA AmountsAreNumbers ==
    ASSUME NEW r \in SpendReceipt
    PROVE  r.paid.amountUsd \in Nat
<1>1. r.paid \in Challenge
  BY DEF SpendReceipt
<1>2. r.paid.amountUsd \in 1..MaxUsd
  BY <1>1 DEF Challenge, Amounts
<1> QED BY <1>2, GatewayAssumption

\* One more receipt adds what it is charged.
LEMMA OneMoreReceipt ==
    ASSUME NEW S \in SUBSET SpendReceipt, IsFiniteSet(S),
           NEW r \in SpendReceipt, r \notin S
    PROVE  ChargedUsd(S \cup {r}) = ChargedUsd(S) + r.paid.amountUsd
<1> DEFINE T == S \cup {r}
<1>1. \A x \in T : Paid(T)[x] = x.paid.amountUsd /\ x.paid.amountUsd \in Int
  BY AmountsAreNumbers DEF Paid
<1>2. \A x \in S : Paid(T)[x] = Paid(S)[x]
  BY DEF Paid
<1>3. SumFunctionOnSet(Paid(T), T) = Paid(T)[r] + SumFunctionOnSet(Paid(T), S)
  <2>1. \A x \in S \cup {r} : Paid(T)[x] \in Int
    BY <1>1
  <2> HIDE DEF T
  <2> QED BY <2>1, SumAdd DEF T
<1>4. SumFunctionOnSet(Paid(T), S) = SumFunctionOnSet(Paid(S), S)
  BY <1>2, SumSame
<1>5. SumFunctionOnSet(Paid(S), S) \in Int
  <2>1. \A x \in S : Paid(S)[x] \in Int
    BY AmountsAreNumbers DEF Paid
  <2> QED BY <2>1, SumType
<1>6. Paid(T)[r] \in Int /\ Paid(T)[r] = r.paid.amountUsd
  BY <1>1
<1> QED BY <1>3, <1>4, <1>5, <1>6 DEF ChargedUsd, Paid

\* The charges of some of the receipts are at most those of all.
LEMMA SomeReceipts ==
    ASSUME NEW S \in SUBSET SpendReceipt, IsFiniteSet(S), NEW T \in SUBSET S
    PROVE  ChargedUsd(T) <= ChargedUsd(S) /\ ChargedUsd(T) \in Int
<1>1. \A x \in S : Paid(S)[x] \in Nat
  BY AmountsAreNumbers DEF Paid
<1>2. SumFunctionOnSet(Paid(S), T) <= SumFunctionOnSet(Paid(S), S)
  BY <1>1, SumOfSubset
<1>3. IsFiniteSet(T)
  BY FS_Subset
<1>4. \A x \in T : Paid(S)[x] = Paid(T)[x]
  BY DEF Paid
<1>5. SumFunctionOnSet(Paid(S), T) = SumFunctionOnSet(Paid(T), T)
  BY <1>3, <1>4, SumSame
<1>6. SumFunctionOnSet(Paid(T), T) \in Int
  <2>1. \A x \in T : Paid(T)[x] \in Int
    BY AmountsAreNumbers DEF Paid
  <2> QED BY <1>3, <2>1, SumType
<1> QED BY <1>2, <1>5, <1>6 DEF ChargedUsd, Paid

\* A charge keeps the counter what the receipts add up to.
LEMMA ChargeIsCounted ==
    ASSUME GatewayInv, NEW c \in challenges, Charge(c), day \in Nat, day \in Days
    PROVE  GatewayInv'
<1> DEFINE new == [paid |-> c, day |-> day, n |-> Cardinality(spend.receipts)]
           used == spend.usedTodayUsd + c.amountUsd
<1>1. c \in Challenge /\ c.amountUsd \in 1..MaxUsd
  BY DEF GatewayInv, GatewayTypeOK, Challenge, Amounts
<1>2. Cardinality(spend.receipts) \in Nat
  BY FS_CardinalityType DEF GatewayInv
<1>3. new \in SpendReceipt /\ new \notin spend.receipts
  BY <1>1, <1>2 DEF GatewayInv, SpendReceipt
<1>4. spend' = [dailyLimitUsd |-> spend.dailyLimitUsd, allowed |-> spend.allowed,
                usedTodayUsd |-> used, receipts |-> spend.receipts \cup {new}]
  BY DEF Charge, GatewayInv
<1>5. /\ IsFiniteSet(spend.receipts \cup {new})
      /\ Cardinality(spend.receipts \cup {new}) = Cardinality(spend.receipts) + 1
  BY <1>3, FS_AddElement DEF GatewayInv
<1>6. \A r \in spend.receipts \cup {new} : r.n < Cardinality(spend.receipts) + 1
  <2>1. \A r \in spend.receipts : r.n \in Nat /\ r.n < Cardinality(spend.receipts)
    BY DEF GatewayInv, GatewayTypeOK, SpendReceipt
  <2> QED BY <1>2, <2>1
<1>7. used = ChargedUsd(spend.receipts \cup {new})
  <2>1. spend.receipts \in SUBSET SpendReceipt /\ IsFiniteSet(spend.receipts)
    BY DEF GatewayInv, GatewayTypeOK
  <2>2. ChargedUsd(spend.receipts \cup {new}) = ChargedUsd(spend.receipts) + new.paid.amountUsd
    <3> HIDE DEF new
    <3> QED BY <1>3, <2>1, OneMoreReceipt
  <2> QED BY <2>2 DEF GatewayInv
<1>8. used \in 0..MaxUsd /\ used <= spend.dailyLimitUsd
  BY <1>1, GatewayAssumption DEF Charge, ValidSpend, GatewayInv, GatewayTypeOK
<1>9. spend.receipts \cup {new} \subseteq SpendReceipt
  BY <1>3 DEF GatewayInv, GatewayTypeOK
<1>10. challenges' = challenges
  BY DEF Charge
<1> HIDE DEF new, used
<1> QED BY <1>4, <1>5, <1>6, <1>7, <1>8, <1>9, <1>10 DEF GatewayInv, GatewayTypeOK

\* Every step of the gateway keeps its invariant.
LEMMA GatewayInvHolds == GatewaySpec => [](GatewayInv /\ day \in Days)
<1>1. GatewayInit => GatewayInv /\ day \in Days
  <2> SUFFICES ASSUME GatewayInit PROVE GatewayInv /\ day \in Days
    OBVIOUS
  <2>1. ChargedUsd({}) = 0
    BY SumEmpty DEF ChargedUsd
  <2> QED BY <2>1, GatewayAssumption, FS_EmptySet
          DEF GatewayInit, GatewayInv, GatewayTypeOK, Days
<1>2. GatewayInv /\ day \in Days /\ [GatewayNext]_gatewayVars => GatewayInv' /\ (day \in Days)'
  <2> SUFFICES ASSUME GatewayInv, day \in Days, [GatewayNext]_gatewayVars
               PROVE  GatewayInv' /\ day' \in Days
    OBVIOUS
  <2>1. CASE UNCHANGED gatewayVars
    BY <2>1 DEF gatewayVars, GatewayInv, GatewayTypeOK
  <2>2. ASSUME NEW n \in Amounts, NEW allowed \in SUBSET Resources, Authorize(n, allowed)
        PROVE  GatewayInv' /\ day' \in Days
    <3>1. n \in 0..MaxUsd /\ n > 0
      BY GatewayAssumption DEF Amounts
    <3>2. spend' = [dailyLimitUsd |-> n, allowed |-> allowed,
                    usedTodayUsd |-> spend.usedTodayUsd, receipts |-> spend.receipts]
      BY <2>2 DEF Authorize, GatewayInv
    <3>3. spend.usedTodayUsd <= n
      BY <2>2, <3>1 DEF Authorize, GatewayInv, GatewayTypeOK
    <3> QED BY <2>2, <3>1, <3>2, <3>3 DEF Authorize, GatewayInv, GatewayTypeOK
  <2>3. ASSUME NEW r \in Resources, NEW a \in Amounts, NEW n \in Nonces,
               CreateChallenge(r, a, n)
        PROVE  GatewayInv' /\ day' \in Days
    BY <2>3 DEF CreateChallenge, GatewayInv, GatewayTypeOK, Challenge
  <2>4. ASSUME NEW c \in challenges, Charge(c)
        PROVE  GatewayInv' /\ day' \in Days
    <3>1. day \in Nat
      BY DEF Days
    <3> QED BY <2>4, <3>1, ChargeIsCounted DEF Charge
  <2>5. CASE NextDay
    BY <2>5, GatewayAssumption DEF NextDay, GatewayInv, GatewayTypeOK, Days
  <2> QED BY <2>1, <2>2, <2>3, <2>4, <2>5 DEF GatewayNext
<1> QED BY <1>1, <1>2, PTL DEF GatewaySpec

\* Whatever was challenged before, and however challenges and charges interleave,
\* the counter is what the receipts add up to, none lost and none twice, and the
\* charges of a day stay within the limit (x402 index.ts: validateSpend and
\* chargePaidApiCall), for every number of resources, nonces, days and dollars.
THEOREM SpendingIsAlwaysCounted == GatewaySpec => []SpendingIsCounted
<1>1. GatewayInv => SpendingIsCounted
  <2> SUFFICES ASSUME GatewayInv PROVE SpendingIsCounted
    OBVIOUS
  <2>1. UsedMatchesReceipts
    BY DEF GatewayInv, UsedMatchesReceipts
  <2>2. ASSUME NEW d \in Days
        PROVE  ChargedUsd(ReceiptsOf(d)) <= spend.dailyLimitUsd
    <3>1. ReceiptsOf(d) \in SUBSET spend.receipts
      BY DEF ReceiptsOf
    <3>2. spend.receipts \in SUBSET SpendReceipt /\ IsFiniteSet(spend.receipts)
      BY DEF GatewayInv, GatewayTypeOK
    <3>3. /\ ChargedUsd(ReceiptsOf(d)) <= ChargedUsd(spend.receipts)
          /\ ChargedUsd(ReceiptsOf(d)) \in Int
      BY <3>1, <3>2, SomeReceipts
    <3> QED BY <3>3, GatewayAssumption DEF GatewayInv, GatewayTypeOK
  <2> QED BY <2>1, <2>2 DEF SpendingIsCounted, DailyCapHolds
<1> QED BY <1>1, GatewayInvHolds, PTL

-----------------------------------------------------------------------------
(* The envelopes.                                                          *)

\* What each scheme makes: the fields of a letter, and how they hold together.
ShieldedFits(g, deal) ==
    /\ DOMAIN g = {"id", "commitment", "createdAt", "nonce", "ephemeral", "ciphertext",
                   "tag", "receipt"}
    /\ g.tag = g.ciphertext
    /\ g.ciphertext = Sealed(StealthKey(g.ephemeral, deal.to), g.nonce,
                             StealthAad(g.id, g.commitment, g.createdAt), g.ciphertext.text)
    /\ g.commitment = Hash(g.ciphertext.text)
    /\ VerifyShieldedReceipt(g)

SettlementFits(g, deal) ==
    /\ DOMAIN g = {"id", "kind", "noteDelta", "commitment", "nonce", "ciphertext", "tag",
                   "receipt", "withdrawal"}
    /\ g.tag = g.ciphertext
    /\ g.ciphertext = Sealed(deal.line, g.nonce, <<g.id, g.kind, g.noteDelta>>,
                             g.ciphertext.text)
    /\ g.commitment = Hash(g.ciphertext.text)
    /\ VerifySettlementReceipt(g)

RoomFits(g, deal) ==
    /\ DOMAIN g = {"publicRecord", "aad", "nonce", "ciphertext", "tag", "commitment"}
    /\ g.publicRecord.auditor = deal.to
    /\ g.tag = g.ciphertext
    /\ g.ciphertext = Sealed(DealRoomSecret, g.nonce, g.aad, g.ciphertext.text)

NoteFits(g, k) ==
    /\ DOMAIN g = {"value", "blinding", "commitment"}
    /\ g.blinding = k
    /\ g.commitment = ComputeCommitment(g.value, g.blinding)

ProofFits(g) ==
    /\ DOMAIN g = {"noteId", "context", "commitment", "bitCommitments", "zero", "bits"}
    /\ g.noteId = g.context
    /\ g.zero = ProofChallenge("zero", g.context, g.commitment, g.bitCommitments)
    /\ g.bits = ProofChallenge("bits", g.context, g.commitment, g.bitCommitments)

LetterFits(letter, k) ==
    /\ DOMAIN letter = {"scheme", "deal", "fields"}
    /\ letter.scheme \in Schemes
    /\ letter.deal \in Deals
    /\ letter.scheme = "shielded" => ShieldedFits(letter.fields, letter.deal)
    /\ letter.scheme = "settlement" => SettlementFits(letter.fields, letter.deal)
    /\ letter.scheme = "dealRoom" => RoomFits(letter.fields, letter.deal)
    /\ letter.scheme = "note" => NoteFits(letter.fields, k)
    /\ letter.scheme = "proof" => ProofFits(letter.fields)

\* The letters are of one scheme, and what is handed over is taken from them.
EnvelopesInv ==
    /\ \E S : letters \in Seq(S)
    /\ \A k \in 1..Len(letters) :
          LetterFits(letters[k], k) /\ letters[k].scheme = letters[1].scheme
    /\ handed # NotHanded =>
          /\ letters # <<>>
          /\ handed \in [DOMAIN letters[1].fields -> 1..Len(letters)]

LEMMA ShieldedIsMade ==
    ASSUME NEW deal, NEW at, NEW fresh
    PROVE  ShieldedFits(ShieldedEnvelope(deal, at, fresh), deal)
  BY DEF ShieldedFits, ShieldedEnvelope, Sealed, StealthKey, StealthAad, Hash,
         VerifyShieldedReceipt, StealthReceiptHash

LEMMA SettlementIsMade ==
    ASSUME NEW deal, NEW at, NEW fresh
    PROVE  SettlementFits(SettlementEnvelope(deal, at, fresh), deal)
  BY DEF SettlementFits, SettlementEnvelope, Sealed, Hash, VerifySettlementReceipt,
         SettlementReceiptHash, WithdrawalProof

LEMMA RoomIsMade ==
    ASSUME NEW deal, NEW at, NEW fresh
    PROVE  RoomFits(DealRoom(deal, at, fresh), deal)
  BY DEF RoomFits, DealRoom, Sealed, Hash

LEMMA NoteIsMade ==
    ASSUME NEW deal, NEW at, NEW fresh
    PROVE  NoteFits(NoteMinted(deal, at, fresh), fresh)
  BY DEF NoteFits, NoteMinted, ComputeCommitment, Hash

LEMMA NoteIsTransferred ==
    ASSUME NEW g, NEW k, NoteFits(g, k), NEW fresh
    PROVE  NoteFits(Transferred(g, fresh), fresh)
  BY DEF NoteFits, Transferred, ComputeCommitment, Hash

LEMMA ProofIsMade ==
    ASSUME NEW deal, NEW at, NEW fresh
    PROVE  ProofFits(ProveNoteValue(deal, at, fresh))
  BY DEF ProofFits, ProveNoteValue, ProofChallenge

LEMMA LettersGrow ==
    ASSUME NEW S, NEW s \in Seq(S), NEW e
    PROVE  /\ Append(s, e) \in Seq(S \cup {e})
           /\ Len(s) \in Nat /\ Len(Append(s, e)) = Len(s) + 1
           /\ \A k \in 1..Len(s) : Append(s, e)[k] = s[k]
           /\ Append(s, e)[Len(s) + 1] = e
  OBVIOUS

\* A letter that is added fits, and the others stay.
LEMMA LetterAdded ==
    ASSUME EnvelopesInv, handed = NotHanded, handed' = handed, NEW letter,
           letters' = Append(letters, letter), LetterFits(letter, Len(letters) + 1),
           letters # <<>> => letter.scheme = letters[1].scheme
    PROVE  EnvelopesInv'
  <1>1. PICK S : letters \in Seq(S)
    BY DEF EnvelopesInv
  <1>2. /\ letters' \in Seq(S \cup {letter})
        /\ Len(letters) \in Nat /\ Len(letters') = Len(letters) + 1
        /\ \A k \in 1..Len(letters) : letters'[k] = letters[k]
        /\ letters'[Len(letters) + 1] = letter
    BY <1>1, LettersGrow
  <1>3. ASSUME NEW k \in 1..Len(letters')
        PROVE  LetterFits(letters'[k], k) /\ letters'[k].scheme = letters'[1].scheme
    <2>1. CASE k = Len(letters) + 1
      <3>1. CASE letters = <<>>
        BY <1>2, <2>1, <3>1
      <3>2. CASE letters # <<>>
        <4>1. Len(letters) >= 1
          BY <1>1, <1>2, <3>2
        <4> QED BY <1>2, <2>1, <3>2, <4>1
      <3> QED BY <3>1, <3>2
    <2>2. CASE k # Len(letters) + 1
      <3>1. k \in 1..Len(letters) /\ 1 \in 1..Len(letters)
        BY <1>2, <2>2
      <3> QED BY <1>2, <3>1 DEF EnvelopesInv
    <2> QED BY <2>1, <2>2
  <1> QED BY <1>2, <1>3 DEF EnvelopesInv

LEMMA EnvelopesInvInit == EnvelopesInit => EnvelopesInv
  <1> SUFFICES ASSUME EnvelopesInit PROVE EnvelopesInv
    OBVIOUS
  <1>1. letters = <<>> /\ handed = NotHanded
    BY DEF EnvelopesInit
  <1>2. letters \in Seq({}) /\ Len(letters) = 0
    BY <1>1
  <1> QED BY <1>1, <1>2 DEF EnvelopesInv

LEMMA EnvelopesInvNext == EnvelopesInv /\ [EnvelopesNext]_envelopeVars => EnvelopesInv'
  <1> SUFFICES ASSUME EnvelopesInv, [EnvelopesNext]_envelopeVars PROVE EnvelopesInv'
    OBVIOUS
  <1>1. CASE HourPasses \/ UNCHANGED envelopeVars
    <2>1. letters' = letters /\ handed' = handed
      BY <1>1 DEF HourPasses, envelopeVars
    <2> QED BY <2>1 DEF EnvelopesInv
  <1>2. ASSUME NEW scheme \in Schemes, NEW deal \in Deals, SealDeal(scheme, deal)
        PROVE  EnvelopesInv'
    <2>1. PICK k : k = Len(letters) + 1
      OBVIOUS
    <2>2. PICK g : g = Make(scheme, deal, hour, k)
      OBVIOUS
    <2>3. PICK letter : letter = [scheme |-> scheme, deal |-> deal, fields |-> g]
      OBVIOUS
    <2>4. /\ handed = NotHanded /\ handed' = handed
          /\ letters' = Append(letters, letter)
          /\ letters # <<>> => letter.scheme = letters[1].scheme
      BY <1>2, <2>1, <2>2, <2>3 DEF SealDeal
    <2>5. /\ scheme = "shielded" => ShieldedFits(g, deal)
          /\ scheme = "settlement" => SettlementFits(g, deal)
          /\ scheme = "dealRoom" => RoomFits(g, deal)
          /\ scheme = "note" => NoteFits(g, k)
          /\ scheme = "proof" => ProofFits(g)
      <3>1. CASE scheme = "shielded"
        BY <2>2, <3>1, ShieldedIsMade DEF Make
      <3>2. CASE scheme = "settlement"
        BY <2>2, <3>2, SettlementIsMade DEF Make
      <3>3. CASE scheme = "dealRoom"
        BY <2>2, <3>3, RoomIsMade DEF Make
      <3>4. CASE scheme = "note"
        BY <2>2, <3>4, NoteIsMade DEF Make
      <3>5. CASE scheme = "proof"
        BY <2>2, <3>5, ProofIsMade DEF Make
      <3> QED BY <3>1, <3>2, <3>3, <3>4, <3>5 DEF Schemes
    <2>6. LetterFits(letter, k)
      BY <1>2, <2>3, <2>5 DEF LetterFits
    <2> QED BY <2>1, <2>4, <2>6, LetterAdded
  <1>3. ASSUME NEW i \in 1..Len(letters), Retransfer(i) PROVE EnvelopesInv'
    <2>1. PICK k : k = Len(letters) + 1
      OBVIOUS
    <2>2. PICK old : old = letters[i]
      OBVIOUS
    <2>3. PICK g : g = Transferred(old.fields, k)
      OBVIOUS
    <2>4. PICK letter : letter = [old EXCEPT !.fields = g]
      OBVIOUS
    <2>5. /\ handed = NotHanded /\ handed' = handed /\ old.scheme = "note"
          /\ letters' = Append(letters, letter)
      BY <1>3, <2>1, <2>2, <2>3, <2>4 DEF Retransfer
    <2>6. LetterFits(old, i) /\ old.scheme = letters[1].scheme
      BY <1>3, <2>2 DEF EnvelopesInv
    <2>7. NoteFits(g, k)
      BY <2>3, <2>5, <2>6, NoteIsTransferred DEF LetterFits
    <2>8. /\ DOMAIN letter = {"scheme", "deal", "fields"}
          /\ letter.scheme = "note" /\ letter.deal = old.deal /\ letter.fields = g
      BY <2>4, <2>5, <2>6 DEF LetterFits
    <2>9. LetterFits(letter, k)
      BY <2>5, <2>6, <2>7, <2>8 DEF LetterFits
    <2> QED BY <2>1, <2>5, <2>6, <2>8, <2>9, LetterAdded
  <1>4. ASSUME letters # <<>>, NEW from \in [DOMAIN letters[1].fields -> 1..Len(letters)],
               HandOver(from)
        PROVE  EnvelopesInv'
    BY <1>4 DEF HandOver, EnvelopesInv
  <1> QED BY <1>1, <1>2, <1>3, <1>4 DEF EnvelopesNext

\* A field that is handed over is that of a letter.
LEMMA HandedIsALetters ==
    ASSUME EnvelopesInv, handed # NotHanded
    PROVE  /\ DOMAIN Received = DOMAIN letters[1].fields
           /\ \A f \in DOMAIN Received :
                 /\ handed[f] \in 1..Len(letters)
                 /\ Received[f] = letters[handed[f]].fields[f]
  BY DEF EnvelopesInv, Received

\* The letters a reader is handed fields of, and what they are like.
LEMMA LettersFit ==
    ASSUME EnvelopesInv, handed # NotHanded
    PROVE  /\ letters[1].scheme \in Schemes
           /\ LetterFits(letters[1], 1)
           /\ \A k \in 1..Len(letters) :
                 LetterFits(letters[k], k) /\ letters[k].scheme = letters[1].scheme
  <1>1. PICK S : letters \in Seq(S)
    BY DEF EnvelopesInv
  <1>2. Len(letters) \in Nat /\ Len(letters) >= 1
    BY <1>1 DEF EnvelopesInv
  <1> QED BY <1>2 DEF EnvelopesInv, LetterFits

LEMMA ShieldedIsWhole ==
    ASSUME EnvelopesInv, handed # NotHanded, letters[1].scheme = "shielded",
           NEW claim, DecryptShielded(Received, claim)
    PROVE  /\ \E i \in 1..Len(letters) :
                 /\ \A f \in Bound.shielded : Received[f] = letters[i].fields[f]
                 /\ letters[i].deal.to = claim.to
           /\ VerifyCommitment(Received)
  <1>1. /\ DOMAIN Received = {"id", "commitment", "createdAt", "nonce", "ephemeral",
                              "ciphertext", "tag", "receipt"}
        /\ \A k \in 1..Len(letters) : ShieldedFits(letters[k].fields, letters[k].deal)
    BY LettersFit, HandedIsALetters DEF LetterFits, ShieldedFits
  <1>2. PICK i \in 1..Len(letters) : Received.ciphertext = letters[i].fields.ciphertext
    BY <1>1, HandedIsALetters
  <1>3. PICK g, deal, r : g = letters[i].fields /\ deal = letters[i].deal /\ r = Received
    OBVIOUS
  <1>4. ShieldedFits(g, deal) /\ r.ciphertext = g.ciphertext
    BY <1>1, <1>2, <1>3
  <1>5. /\ r.ciphertext = r.tag
        /\ r.ciphertext = Sealed(StealthKey(r.ephemeral, claim.to), r.nonce,
                                 StealthAad(r.id, r.commitment, r.createdAt),
                                 r.ciphertext.text)
    BY <1>3 DEF DecryptShielded, Unseals
  <1>6. /\ r.id = g.id /\ r.commitment = g.commitment /\ r.createdAt = g.createdAt
        /\ r.nonce = g.nonce /\ r.ephemeral = g.ephemeral /\ claim.to = deal.to
        /\ r.tag = g.tag
    BY <1>4, <1>5 DEF ShieldedFits, Sealed, StealthKey, StealthAad
  <1>7. r.commitment = Hash(r.ciphertext.text)
    BY <1>4, <1>6 DEF ShieldedFits
  <1> QED BY <1>3, <1>4, <1>6, <1>7 DEF Bound, VerifyCommitment

LEMMA SettlementIsWhole ==
    ASSUME EnvelopesInv, handed # NotHanded, letters[1].scheme = "settlement",
           NEW claim, RevealSettlement(Received, claim)
    PROVE  /\ \E i \in 1..Len(letters) :
                 /\ \A f \in Bound.settlement : Received[f] = letters[i].fields[f]
                 /\ letters[i].deal.line = claim.line
           /\ \/ ~VerifySettlementReceipt(Received)
              \/ VerifyCommitment(Received)
              \/ \E i, j \in 1..Len(letters) : i # j /\ SameId(i, j)
  <1>1. /\ DOMAIN Received = {"id", "kind", "noteDelta", "commitment", "nonce",
                              "ciphertext", "tag", "receipt", "withdrawal"}
        /\ \A k \in 1..Len(letters) : SettlementFits(letters[k].fields, letters[k].deal)
    BY LettersFit, HandedIsALetters DEF LetterFits, SettlementFits
  <1>2. PICK i \in 1..Len(letters) : Received.ciphertext = letters[i].fields.ciphertext
    BY <1>1, HandedIsALetters
  <1>3. PICK g, deal, r : g = letters[i].fields /\ deal = letters[i].deal /\ r = Received
    OBVIOUS
  <1>4. SettlementFits(g, deal) /\ r.ciphertext = g.ciphertext
    BY <1>1, <1>2, <1>3
  <1>5. /\ r.ciphertext = r.tag
        /\ r.ciphertext = Sealed(claim.line, r.nonce, <<r.id, r.kind, r.noteDelta>>,
                                 r.ciphertext.text)
    BY <1>3 DEF RevealSettlement, Unseals
  <1>6. /\ r.id = g.id /\ r.kind = g.kind /\ r.noteDelta = g.noteDelta
        /\ r.nonce = g.nonce /\ claim.line = deal.line /\ r.tag = g.tag
    BY <1>4, <1>5 DEF SettlementFits, Sealed
  \* The receipt names the id, so it is the same letter's or ids coincide.
  <1>7. ASSUME VerifySettlementReceipt(Received),
               ~\E x, y \in 1..Len(letters) : x # y /\ SameId(x, y)
        PROVE  VerifyCommitment(Received)
    <2>1. PICK j \in 1..Len(letters) : Received.receipt = letters[j].fields.receipt
      BY <1>1, HandedIsALetters
    <2>2. PICK h : h = letters[j].fields
      OBVIOUS
    <2>3. SettlementFits(h, letters[j].deal) /\ r.receipt = h.receipt
      BY <1>1, <1>3, <2>1, <2>2
    <2>4. h.id = r.id /\ h.commitment = r.commitment
      BY <1>3, <1>7, <2>3 DEF SettlementFits, VerifySettlementReceipt
    <2>5. i = j
      BY <1>3, <1>6, <1>7, <2>2, <2>4 DEF SameId
    <2> QED BY <1>3, <1>4, <2>2, <2>4, <2>5 DEF SettlementFits, VerifyCommitment
  <1> QED BY <1>3, <1>4, <1>6, <1>7 DEF Bound

LEMMA RoomIsWhole ==
    ASSUME EnvelopesInv, handed # NotHanded, letters[1].scheme = "dealRoom",
           NEW claim, RevealToAuditor(Received, claim)
    PROVE  \E i \in 1..Len(letters) :
              \A f \in Bound.dealRoom : Received[f] = letters[i].fields[f]
  <1>1. /\ DOMAIN Received = {"publicRecord", "aad", "nonce", "ciphertext", "tag",
                              "commitment"}
        /\ \A k \in 1..Len(letters) : RoomFits(letters[k].fields, letters[k].deal)
    BY LettersFit, HandedIsALetters DEF LetterFits, RoomFits
  <1>2. PICK i \in 1..Len(letters) : Received.ciphertext = letters[i].fields.ciphertext
    BY <1>1, HandedIsALetters
  <1>3. PICK g, deal, r : g = letters[i].fields /\ deal = letters[i].deal /\ r = Received
    OBVIOUS
  <1>4. RoomFits(g, deal) /\ r.ciphertext = g.ciphertext
    BY <1>1, <1>2, <1>3
  <1>5. /\ r.ciphertext = r.tag
        /\ r.ciphertext = Sealed(DealRoomSecret, r.nonce, r.aad, r.ciphertext.text)
    BY <1>3 DEF RevealToAuditor, Unseals
  <1>6. r.aad = g.aad /\ r.nonce = g.nonce /\ r.tag = g.tag
    BY <1>4, <1>5 DEF RoomFits, Sealed
  <1> QED BY <1>3, <1>4, <1>6 DEF Bound

LEMMA NoteIsWhole ==
    ASSUME EnvelopesInv, handed # NotHanded, letters[1].scheme = "note",
           VerifyNote(Received)
    PROVE  \E i \in 1..Len(letters) :
              \A f \in Bound.note : Received[f] = letters[i].fields[f]
  <1>1. /\ DOMAIN Received = {"value", "blinding", "commitment"}
        /\ \A k \in 1..Len(letters) : NoteFits(letters[k].fields, k)
    BY LettersFit, HandedIsALetters DEF LetterFits, NoteFits
  <1>2. PICK i \in 1..Len(letters) : Received.commitment = letters[i].fields.commitment
    BY <1>1, HandedIsALetters
  <1>3. PICK g, r : g = letters[i].fields /\ r = Received
    OBVIOUS
  <1>4. NoteFits(g, i) /\ r.commitment = g.commitment
    BY <1>1, <1>2, <1>3
  <1>5. r.value = g.value /\ r.blinding = g.blinding
    BY <1>3, <1>4 DEF VerifyNote, NoteFits, ComputeCommitment, Hash
  <1> QED BY <1>3, <1>4, <1>5 DEF Bound

LEMMA ProofIsWhole ==
    ASSUME EnvelopesInv, handed # NotHanded, letters[1].scheme = "proof",
           AttestationValid(Received)
    PROVE  \E i \in 1..Len(letters) :
              \A f \in Bound.proof : Received[f] = letters[i].fields[f]
  <1>1. /\ DOMAIN Received = {"noteId", "context", "commitment", "bitCommitments",
                              "zero", "bits"}
        /\ \A k \in 1..Len(letters) : ProofFits(letters[k].fields)
    BY LettersFit, HandedIsALetters DEF LetterFits, ProofFits
  <1>2. PICK i \in 1..Len(letters) : Received.zero = letters[i].fields.zero
    BY <1>1, HandedIsALetters
  <1>3. PICK g, r : g = letters[i].fields /\ r = Received
    OBVIOUS
  <1>4. ProofFits(g) /\ r.zero = g.zero
    BY <1>1, <1>2, <1>3
  <1>5. /\ r.context = g.context /\ r.commitment = g.commitment
        /\ r.bitCommitments = g.bitCommitments /\ r.noteId = g.noteId /\ r.bits = g.bits
    BY <1>3, <1>4 DEF AttestationValid, VerifyRangeProof, ProofFits, ProofChallenge
  <1> QED BY <1>3, <1>4, <1>5 DEF Bound

LEMMA ReceiptVouches ==
    ASSUME EnvelopesInv, handed # NotHanded, letters[1].scheme = "shielded"
    PROVE  VerifyShieldedReceipt(Received) <=>
              \A f \in {"id", "commitment", "ciphertext", "nonce", "tag"} :
                 Received[f] = letters[handed["receipt"]].fields[f]
  <1>1. /\ DOMAIN Received = {"id", "commitment", "createdAt", "nonce", "ephemeral",
                              "ciphertext", "tag", "receipt"}
        /\ \A k \in 1..Len(letters) : ShieldedFits(letters[k].fields, letters[k].deal)
    BY LettersFit, HandedIsALetters DEF LetterFits, ShieldedFits
  <1>2. PICK g, r : g = letters[handed["receipt"]].fields /\ r = Received
    OBVIOUS
  <1>3. VerifyShieldedReceipt(g) /\ r.receipt = g.receipt
    BY <1>1, <1>2, HandedIsALetters DEF ShieldedFits
  <1>4. VerifyShieldedReceipt(r) <=>
           /\ r.id = g.id /\ r.commitment = g.commitment /\ r.ciphertext = g.ciphertext
           /\ r.nonce = g.nonce /\ r.tag = g.tag
    BY <1>3 DEF VerifyShieldedReceipt, StealthReceiptHash, Hash
  <1> QED BY <1>2, <1>4

\* What opens, on any claim, is one letter of the scheme and as claimed.
LEMMA WholeTells == EnvelopesInv => OpenedIsWhole
  <1> SUFFICES ASSUME EnvelopesInv, handed # NotHanded, NEW claim \in Deals,
                      Opens(letters[1].scheme, Received, claim)
               PROVE  \E i \in 1..Len(letters) :
                         /\ \A f \in Bound[letters[1].scheme] :
                               Received[f] = letters[i].fields[f]
                         /\ IsFor(letters[1].scheme, letters[i].deal, claim)
    BY DEF OpenedIsWhole
  <1>1. CASE letters[1].scheme = "shielded"
    BY <1>1, ShieldedIsWhole DEF Opens, IsFor
  <1>2. CASE letters[1].scheme = "settlement"
    BY <1>2, SettlementIsWhole DEF Opens, IsFor
  <1>3. CASE letters[1].scheme = "dealRoom"
    BY <1>3, RoomIsWhole DEF Opens, IsFor
  <1>4. CASE letters[1].scheme = "note"
    BY <1>4, NoteIsWhole DEF Opens, IsFor
  <1>5. CASE letters[1].scheme = "proof"
    BY <1>5, ProofIsWhole DEF Opens, IsFor
  <1> QED BY <1>1, <1>2, <1>3, <1>4, <1>5, LettersFit DEF Schemes

\* And a letter opens that arrives as it was sealed.
LEMMA LettersOpen == EnvelopesInv => WholeLettersOpen
  <1> SUFFICES ASSUME EnvelopesInv, NEW i \in 1..Len(letters),
                      handed = [f \in DOMAIN letters[i].fields |-> i]
               PROVE  Opens(letters[i].scheme, Received, letters[i].deal)
    BY DEF WholeLettersOpen
  <1>1. PICK g, deal, scheme : /\ g = letters[i].fields /\ deal = letters[i].deal
                               /\ scheme = letters[i].scheme
    OBVIOUS
  <1>2. PICK r : r = Received
    OBVIOUS
  <1>3. \A f \in DOMAIN g : r[f] = g[f]
    BY <1>1, <1>2 DEF Received
  <1>4. LetterFits(letters[i], i)
    BY DEF EnvelopesInv
  <1>5. CASE scheme = "shielded"
    <2>1. ShieldedFits(g, deal)
      BY <1>1, <1>4, <1>5 DEF LetterFits
    <2>2. DecryptShielded(r, deal)
      BY <1>3, <2>1 DEF ShieldedFits, DecryptShielded, Unseals
    <2> QED BY <1>1, <1>2, <1>5, <2>2 DEF Opens
  <1>6. CASE scheme = "settlement"
    <2>1. SettlementFits(g, deal)
      BY <1>1, <1>4, <1>6 DEF LetterFits
    <2>2. RevealSettlement(r, deal)
      BY <1>3, <2>1 DEF SettlementFits, RevealSettlement, Unseals
    <2> QED BY <1>1, <1>2, <1>6, <2>2 DEF Opens
  <1>7. CASE scheme = "dealRoom"
    <2>1. RoomFits(g, deal)
      BY <1>1, <1>4, <1>7 DEF LetterFits
    <2>2. RevealToAuditor(r, deal)
      BY <1>3, <2>1 DEF RoomFits, RevealToAuditor, Unseals
    <2> QED BY <1>1, <1>2, <1>7, <2>2 DEF Opens
  <1>8. CASE scheme = "note"
    <2>1. NoteFits(g, i)
      BY <1>1, <1>4, <1>8 DEF LetterFits
    <2>2. VerifyNote(r)
      BY <1>3, <2>1 DEF NoteFits, VerifyNote
    <2> QED BY <1>1, <1>2, <1>8, <2>2 DEF Opens
  <1>9. CASE scheme = "proof"
    <2>1. ProofFits(g)
      BY <1>1, <1>4, <1>9 DEF LetterFits
    <2>2. AttestationValid(r)
      BY <1>3, <2>1 DEF ProofFits, AttestationValid, VerifyRangeProof
    <2> QED BY <1>1, <1>2, <1>9, <2>2 DEF Opens
  <1> QED BY <1>1, <1>4, <1>5, <1>6, <1>7, <1>8, <1>9 DEF LetterFits, Schemes

LEMMA CommitmentTells == EnvelopesInv => CommitmentIsOfText
  <1> SUFFICES ASSUME EnvelopesInv, handed # NotHanded PROVE CommitmentIsOfText
    BY DEF CommitmentIsOfText
  <1>1. CASE letters[1].scheme = "shielded"
    BY <1>1, ShieldedIsWhole DEF CommitmentIsOfText
  <1>2. CASE letters[1].scheme = "settlement"
    BY <1>2, SettlementIsWhole DEF CommitmentIsOfText
  <1>3. CASE letters[1].scheme \notin {"shielded", "settlement"}
    BY <1>3 DEF CommitmentIsOfText
  <1> QED BY <1>1, <1>2, <1>3

LEMMA NotesTell == EnvelopesInv => NotesAreUnlinked
  <1> SUFFICES ASSUME EnvelopesInv, NEW i \in 1..Len(letters), NEW j \in 1..Len(letters),
                      letters[i].scheme = "note", i # j
               PROVE  letters[i].fields.commitment # letters[j].fields.commitment
    BY DEF NotesAreUnlinked
  <1>1. PICK g, h : g = letters[i].fields /\ h = letters[j].fields
    OBVIOUS
  <1>2. NoteFits(g, i) /\ NoteFits(h, j)
    BY <1>1 DEF EnvelopesInv, LetterFits
  <1>3. g.commitment # h.commitment
    BY <1>2 DEF NoteFits, ComputeCommitment, Hash
  <1> QED BY <1>1, <1>3

\* Whatever opens was sealed as one, for the recipient or the line that its reader
\* names, however the fields that arrived were joined, and what arrives as it was
\* sealed opens; the commitment on the chain is that of its text; a receipt vouches for
\* the fields it was made over and no others; and two notes never share a commitment.
\* For any deals and any number of envelopes of a scheme.  Nothing is said of who can
\* read a shielded envelope: its key is made of public values.
THEOREM WhatOpensWasSealed == EnvelopesSpec => []SealedStaysWhole
  <1>1. EnvelopesInv => SealedStaysWhole
    BY WholeTells, LettersOpen, CommitmentTells, NotesTell, ReceiptVouches
    DEF SealedStaysWhole, ReceiptIsForItsEnvelope
  <1> QED BY <1>1, EnvelopesInvInit, EnvelopesInvNext, PTL DEF EnvelopesSpec

-----------------------------------------------------------------------------
(* The risk checks.                                                        *)

\* Products.
LEMMA ProductGrows ==
    ASSUME NEW a \in Nat, NEW b \in Nat, NEW c \in Nat, a <= b
    PROVE  a * c <= b * c /\ c * a <= c * b /\ a * c \in Nat /\ b * c \in Nat
  OBVIOUS

LEMMA FactorIsSmaller ==
    ASSUME NEW a \in Int, NEW b \in Int, NEW c \in Nat, c > 0, c * a < c * b
    PROVE  a < b
  OBVIOUS

\* The quotient rounded, without the division.
LEMMA RoundedIs ==
    ASSUME NEW num \in Nat, NEW den \in Nat, den > 0
    PROVE  /\ Rounded(num, den) \in Nat
           /\ 2 * (den * Rounded(num, den)) <= 2 * num + den
           /\ 2 * num < 2 * (den * Rounded(num, den)) + den
  <1>1. PICK a \in Nat, d \in Nat : a = 2 * num + den /\ d = 2 * den
    OBVIOUS
  <1>2. PICK q \in Int : q = a \div d
    BY <1>1
  <1>3. d * q <= a /\ a < d * q + d /\ q \in Nat
    BY <1>1, <1>2
  <1>4. d * q = 2 * (den * q)
    BY <1>1, <1>2
  <1> QED BY <1>1, <1>2, <1>3, <1>4 DEF Rounded

\* A smaller fraction is not rounded to more.
LEMMA RoundedGrows ==
    ASSUME NEW n \in Nat, NEW d \in Nat, d > 0, NEW m \in Nat, NEW e \in Nat, e > 0,
           n * e <= m * d
    PROVE  Rounded(n, d) <= Rounded(m, e)
  <1>1. PICK r \in Nat : r = Rounded(n, d) /\ 2 * (d * r) <= 2 * n + d
    BY RoundedIs
  <1>2. PICK s \in Nat : s = Rounded(m, e) /\ 2 * m < 2 * (e * s) + e
    BY RoundedIs
  <1>3. SUFFICES ASSUME r >= s + 1 PROVE FALSE
    BY <1>1, <1>2
  <1>4. 2 * (d * (s + 1)) <= 2 * n + d
    BY <1>1, <1>3
  <1>5. (2 * (d * (s + 1))) * e <= (2 * n + d) * e
    BY <1>4
  <1>6. (2 * m) * d < (2 * (e * s) + e) * d
    BY <1>2
  <1>7. /\ (2 * (d * (s + 1))) * e = 2 * ((d * e) * s) + 2 * (d * e)
        /\ (2 * n + d) * e = 2 * (n * e) + d * e
        /\ (2 * m) * d = 2 * (m * d)
        /\ (2 * (e * s) + e) * d = 2 * ((d * e) * s) + d * e
    <2>1. PICK x \in Nat : x = d * e
      OBVIOUS
    <2>2. (d * (s + 1)) * e = x * (s + 1) /\ (e * s) * d = x * s
      BY <2>1
    <2>3. x * (s + 1) = x * s + x
      OBVIOUS
    <2>4. (2 * (d * (s + 1))) * e = 2 * ((d * (s + 1)) * e)
      OBVIOUS
    <2>5. (2 * n + d) * e = 2 * (n * e) + d * e
      OBVIOUS
    <2>6. (2 * (e * s) + e) * d = 2 * ((e * s) * d) + e * d
      OBVIOUS
    <2>7. (2 * m) * d = 2 * (m * d)
      OBVIOUS
    <2> QED BY <2>1, <2>2, <2>3, <2>4, <2>5, <2>6, <2>7
  <1> QED BY <1>5, <1>6, <1>7

LEMMA RoundedExactly ==
    ASSUME NEW k \in Nat, NEW d \in Nat, d > 0
    PROVE  Rounded(k * d, d) = k
  <1>1. PICK num \in Nat : num = k * d
    OBVIOUS
  <1>2. PICK r \in Nat : /\ r = Rounded(num, d) /\ 2 * (d * r) <= 2 * num + d
                         /\ 2 * num < 2 * (d * r) + d
    BY RoundedIs
  <1>3. d * r \in Nat
    OBVIOUS
  <1>4. r <= k
    <2> SUFFICES ASSUME r >= k + 1 PROVE FALSE
      BY <1>2
    <2>1. d * (k + 1) <= d * r
      OBVIOUS
    <2>2. d * (k + 1) = num + d
      BY <1>1
    <2> QED BY <1>2, <1>3, <2>1, <2>2
  <1>5. r >= k
    <2> SUFFICES ASSUME k >= r + 1 PROVE FALSE
      BY <1>2
    <2>1. d * (r + 1) <= d * k
      OBVIOUS
    <2>2. d * (r + 1) = d * r + d /\ d * k = num
      BY <1>1
    <2> QED BY <1>2, <1>3, <2>1, <2>2
  <1>6. Rounded(num, d) = k
    BY <1>2, <1>4, <1>5
  <1> QED BY <1>1, <1>6, Zenon

LEMMA ShareIsPart ==
    ASSUME NEW part \in Nat, NEW whole \in Nat, NEW weight \in Nat
    PROVE  /\ Share(part, whole, weight) \in 0..weight
           /\ part <= whole /\ whole > 0 =>
                 Share(part, whole, weight) = Rounded(part * weight, whole)
  <1>1. CASE whole = 0 \/ part > whole
    BY <1>1 DEF Share
  <1>2. CASE whole > 0 /\ part <= whole
    <2>1. part * weight \in Nat /\ weight * whole \in Nat
      OBVIOUS
    <2>2. (part * weight) * whole <= (weight * whole) * whole
      <3>1. part * weight <= whole * weight /\ whole * weight = weight * whole
        BY <1>2, ProductGrows
      <3> QED BY <2>1, <3>1, ProductGrows
    <2>3. Rounded(part * weight, whole) <= weight
      BY <1>2, <2>1, <2>2, RoundedGrows, RoundedExactly
    <2>4. Rounded(part * weight, whole) \in Nat
      BY <1>2, <2>1, RoundedIs
    <2> QED BY <1>2, <2>3, <2>4 DEF Share
  <1> QED BY <1>1, <1>2

LEMMA ShareGrows ==
    ASSUME NEW p \in Nat, NEW w \in Nat, NEW q \in Nat, NEW v \in Nat, NEW weight \in Nat,
           p <= q, w >= v
    PROVE  Share(p, w, weight) <= Share(q, v, weight)
  <1>1. CASE v = 0 \/ q > v
    <2>1. Share(q, v, weight) = weight
      BY <1>1 DEF Share
    <2> QED BY <2>1, ShareIsPart
  <1>2. CASE v > 0 /\ q <= v
    <2>0. w > 0 /\ p <= w
      BY <1>2
    <2>1. /\ Share(p, w, weight) = Rounded(p * weight, w)
          /\ Share(q, v, weight) = Rounded(q * weight, v)
      BY <1>2, <2>0, ShareIsPart
    <2>2. (p * weight) * v <= (q * weight) * w
      <3>1. p * weight \in Nat /\ q * weight \in Nat /\ p * weight <= q * weight
        BY ProductGrows
      <3>2. (p * weight) * v <= (q * weight) * v /\ (q * weight) * v <= (q * weight) * w
        BY <3>1, ProductGrows
      <3> QED BY <3>1, <3>2
    <2>3. PICK n \in Nat, m \in Nat : n = p * weight /\ m = q * weight
      OBVIOUS
    <2>4. w > 0
      BY <1>2
    <2>5. Rounded(n, w) <= Rounded(m, v)
      BY <1>2, <2>2, <2>3, <2>4, RoundedGrows
    <2> QED BY <2>1, <2>3, <2>5
  <1> QED BY <1>1, <1>2

LEMMA ScaleParts ==
    Weight \in Nat /\ VenueWeight \in Nat /\ Threshold \in Nat /\ Scale \in Nat
  BY DEF Weight, VenueWeight, Threshold, Scale

LEMMA VenueParts ==
    ASSUME NEW venues \in Nat
    PROVE  /\ Min({venues, 5}) \in 0..5
           /\ VenueBps(venues) = 400 * (5 - Min({venues, 5}))
           /\ VenueBps(venues) \in Nat /\ VenueBps(venues) <= VenueWeight
           /\ \A more \in Nat : more >= venues => VenueBps(more) <= VenueBps(venues)
  <1>1. ASSUME NEW x \in Nat
        PROVE  /\ Min({x, 5}) = IF x <= 5 THEN x ELSE 5
               /\ VenueBps(x) = 400 * (5 - Min({x, 5}))
    <2>1. Min({x, 5}) = IF x <= 5 THEN x ELSE 5
      BY SmallerOne
    <2>2. PICK k \in Nat : k = 400 * (5 - Min({x, 5}))
      BY <2>1
    <2>3. Rounded(k * 5, 5) = k
      BY RoundedExactly
    <2>4. k * 5 = (5 - Min({x, 5})) * VenueWeight
      BY <2>1, <2>2 DEF VenueWeight
    <2>5. VenueBps(x) = k
      BY <2>3, <2>4, Zenon DEF VenueBps
    <2> QED BY <2>1, <2>2, <2>5
  <1>2. Min({venues, 5}) \in 0..5
    BY <1>1
  <1>3. VenueBps(venues) \in Nat /\ VenueBps(venues) <= VenueWeight
    BY <1>1, <1>2 DEF VenueWeight
  <1>4. ASSUME NEW more \in Nat, more >= venues
        PROVE  VenueBps(more) <= VenueBps(venues)
    <2>1. PICK a \in Int, b \in Int : a = Min({more, 5}) /\ b = Min({venues, 5})
      BY <1>1
    <2>2. a = (IF more <= 5 THEN more ELSE 5) /\ b = (IF venues <= 5 THEN venues ELSE 5)
      BY <1>1, <2>1
    <2>3. VenueBps(more) = 400 * (5 - a) /\ VenueBps(venues) = 400 * (5 - b)
      BY <1>1, <2>1
    <2> QED BY <1>4, <2>2, <2>3
  <1>5. VenueBps(venues) = 400 * (5 - Min({venues, 5}))
    BY <1>1
  <1> QED BY <1>2, <1>3, <1>4, <1>5, Zenon

\* A check that was made: of a known input, under a known mandate, at some moment.
CheckFits(c) ==
    /\ c.input \in RiskInputs /\ c.mandate \in Mandates
    /\ \E at \in Moments : c.result = RiskResult(c.input, c.mandate, at)

RiskInv ==
    /\ inForce \in Mandates
    /\ \E S : checks \in Seq(S)
    /\ Len(checks) <= MaxChecks
    /\ \A k \in 1..Len(checks) : CheckFits(checks[k])

LEMMA RiskInvInit == RiskInit => RiskInv
  <1> SUFFICES ASSUME RiskInit PROVE RiskInv
    OBVIOUS
  <1>1. checks = <<>> /\ inForce \in Mandates
    BY DEF RiskInit
  <1>2. checks \in Seq({}) /\ Len(checks) = 0
    BY <1>1
  <1> QED BY <1>1, <1>2, RiskAssumption DEF RiskInv

LEMMA RiskInvNext == RiskInv /\ [RiskNext]_riskVars => RiskInv'
  <1> SUFFICES ASSUME RiskInv, [RiskNext]_riskVars PROVE RiskInv'
    OBVIOUS
  <1>0. ASSUME UNCHANGED checks, inForce' \in Mandates PROVE RiskInv'
    <2>1. \A k \in 1..Len(checks') : CheckFits(checks'[k])
      BY <1>0 DEF RiskInv
    <2>2. \A k \in 1..Len(checks') : CheckFits(checks[k])'
      BY <2>1 DEF CheckFits, RiskResult
    <2> QED BY <1>0, <2>2 DEF RiskInv
  <1>1. ASSUME NEW m \in Mandates, SetMandate(m) PROVE RiskInv'
    BY <1>0, <1>1 DEF SetMandate
  <1>2. ASSUME NEW x \in RiskInputs, NEW at \in Moments, Check(x, at) PROVE RiskInv'
    <2>1. PICK S : checks \in Seq(S)
      BY DEF RiskInv
    <2>2. PICK c : c = [input |-> x, mandate |-> inForce,
                        result |-> RiskResult(x, inForce, at)]
      OBVIOUS
    <2>3. checks' = Append(checks, c) /\ inForce' = inForce /\ Len(checks) < MaxChecks
      BY <1>2, <2>2 DEF Check
    <2>4. /\ checks' \in Seq(S \cup {c})
          /\ Len(checks) \in Nat /\ Len(checks') = Len(checks) + 1
          /\ \A k \in 1..Len(checks) : checks'[k] = checks[k]
          /\ checks'[Len(checks) + 1] = c
      BY <2>1, <2>3, LettersGrow
    <2>5. CheckFits(c)
      <3>1. inForce \in Mandates
        BY DEF RiskInv
      <3> QED BY <2>2, <3>1 DEF CheckFits
    <2>6. ASSUME NEW k \in 1..Len(checks') PROVE CheckFits(checks'[k])
      <3>1. CASE k = Len(checks) + 1
        BY <2>4, <2>5, <3>1
      <3>2. CASE k # Len(checks) + 1
        <4>1. k \in 1..Len(checks)
          BY <2>4, <3>2
        <4> QED BY <2>4, <4>1 DEF RiskInv
      <3> QED BY <3>1, <3>2
    <2>7. inForce' \in Mandates /\ Len(checks') <= MaxChecks
      BY <2>3, <2>4, RiskAssumption DEF RiskInv
    <2>8. \A k \in 1..Len(checks') : CheckFits(checks[k])'
      BY <2>6 DEF CheckFits, RiskResult
    <2> QED BY <2>4, <2>7, <2>8 DEF RiskInv
  <1>3. CASE ResetHistory
    <2>1. checks' = <<>> /\ inForce' = inForce
      BY <1>3 DEF ResetHistory
    <2>2. checks' \in Seq({}) /\ Len(checks') = 0
      BY <2>1
    <2> QED BY <2>1, <2>2, RiskAssumption DEF RiskInv
  <1>4. CASE UNCHANGED riskVars
    BY <1>0, <1>4 DEF riskVars, RiskInv
  <1> QED BY <1>1, <1>2, <1>3, <1>4 DEF RiskNext

LEMMA ShareOnScale ==
    ASSUME NEW part \in Nat, NEW whole \in Nat, NEW weight \in Nat
    PROVE  Share(part, whole, weight) \in Nat /\ Share(part, whole, weight) <= weight
  BY ShareIsPart

LEMMA VenuesOnScale ==
    ASSUME NEW venues \in Nat
    PROVE  /\ VenueBps(venues) \in Nat /\ VenueBps(venues) <= VenueWeight
           /\ \A more \in Nat : more >= venues => VenueBps(more) <= VenueBps(venues)
  BY VenueParts, Zenon

\* The numbers of a check, and the parts of its score.
LEMMA RiskNumbers ==
    ASSUME NEW x \in RiskInputs, NEW m \in Mandates
    PROVE  /\ x.inventory \in Nat /\ x.exposure \in Nat /\ x.drawdown \in Nat
           /\ x.venues \in Nat /\ m.maxDrawdown \in Nat /\ m.maxDailySpend \in Nat
  BY RiskAssumption

Score(e, inv, d, most, venues) ==
    Share(e, inv, Weight) + Share(d, most, Weight) + VenueBps(venues)

LEMMA ScoreIsOnScale ==
    ASSUME NEW e \in Nat, NEW inv \in Nat, NEW d \in Nat, NEW most \in Nat, NEW n \in Nat
    PROVE  /\ Score(e, inv, d, most, n) \in Nat
           /\ Score(e, inv, d, most, n) <= Scale
  <1> Weight \in Nat
    BY ScaleParts
  <1>1. Share(e, inv, Weight) \in Nat /\ Share(e, inv, Weight) <= Weight
    BY ShareOnScale
  <1>2. Share(d, most, Weight) \in Nat /\ Share(d, most, Weight) <= Weight
    BY ShareOnScale
  <1>3. VenueBps(n) \in Nat /\ VenueBps(n) <= VenueWeight
    BY VenuesOnScale
  <1> QED BY <1>1, <1>2, <1>3, ScaleParts DEF Score, Scale

LEMMA ScoreGrows ==
    ASSUME NEW e \in Nat, NEW inv \in Nat, NEW d \in Nat, NEW n \in Nat, NEW most \in Nat,
           NEW f \in Nat, NEW jnv \in Nat, NEW g \in Nat, NEW k \in Nat,
           e <= f, inv >= jnv, d <= g, n >= k
    PROVE  Score(e, inv, d, most, n) <= Score(f, jnv, g, most, k)
  <1> Weight \in Nat
    BY ScaleParts
  <1>1. /\ Share(e, inv, Weight) \in Nat /\ Share(f, jnv, Weight) \in Nat
        /\ Share(d, most, Weight) \in Nat /\ Share(g, most, Weight) \in Nat
    BY ShareOnScale
  <1>2. Share(e, inv, Weight) <= Share(f, jnv, Weight)
    BY ShareGrows
  <1>3. Share(d, most, Weight) <= Share(g, most, Weight)
    BY ShareGrows
  <1>4. /\ VenueBps(n) <= VenueBps(k)
        /\ VenueBps(n) \in Nat /\ VenueBps(k) \in Nat
    BY VenuesOnScale
  <1> QED BY <1>1, <1>2, <1>3, <1>4 DEF Score

ScoreOf(x, m) == Score(x.exposure, x.inventory, x.drawdown, m.maxDrawdown, x.venues)
Passes(x, m) ==
    ScoreOf(x, m) < Threshold /\ x.drawdown <= m.maxDrawdown
      /\ x.exposure <= 10 * m.maxDailySpend

\* What a result says.
Tells(r, x, m, at) ==
    /\ r.told.score = ScoreOf(x, m)
    /\ r.told.passed <=> Passes(x, m)
    /\ r.drawdownOk <=> x.drawdown <= m.maxDrawdown
    /\ r.told.dailySpendOk <=> x.exposure <= 10 * m.maxDailySpend
    /\ r.at = at /\ r.commitment = <<x, r.told, at>>

LEMMA ResultTells == ASSUME NEW x, NEW m, NEW at PROVE Tells(RiskResult(x, m, at), x, m, at)
  <1>1. PICK r : r = RiskResult(x, m, at)
    OBVIOUS
  <1> DEFINE score == ScoreOf(x, m)
             down  == x.drawdown <= m.maxDrawdown
             daily == x.exposure <= 10 * m.maxDailySpend
             pass  == score < Threshold /\ down /\ daily
             told  == [score |-> score, exposureBps |-> Share(x.exposure, x.inventory, Weight),
                       drawdownBps |-> Share(x.drawdown, m.maxDrawdown, Weight),
                       passed |-> pass, dailySpendOk |-> daily]
  <1> HIDE DEF score, down, daily, pass
  <1>2. r = [told |-> told, drawdownOk |-> down, at |-> at, commitment |-> <<x, told, at>>]
    BY <1>1, Zenon DEF RiskResult, ScoreOf, Score, score, down, daily, pass
  <1>3. told.score = score
    OBVIOUS
  <1>4. told.passed = pass
    OBVIOUS
  <1>5. told.dailySpendOk = daily
    OBVIOUS
  <1> HIDE DEF told
  <1>6. r.told = told
    BY <1>2
  <1>7. r.drawdownOk = down
    BY <1>2
  <1>8. r.at = at /\ r.commitment = <<x, told, at>>
    BY <1>2
  <1>9. Tells(r, x, m, at)
    BY <1>3, <1>4, <1>5, <1>6, <1>7, <1>8, Zenon DEF Tells, Passes, score, down, daily, pass
  <1> QED BY <1>1, <1>9, Zenon

LEMMA ScoreOfIsOnScale ==
    ASSUME NEW x \in RiskInputs, NEW m \in Mandates
    PROVE  ScoreOf(x, m) \in Nat /\ ScoreOf(x, m) <= Scale
  <1>1. PICK e \in Nat, inv \in Nat, d \in Nat, n \in Nat, most \in Nat :
          e = x.exposure /\ inv = x.inventory /\ d = x.drawdown /\ n = x.venues
            /\ most = m.maxDrawdown
    BY RiskNumbers, Zenon
  <1>2. ScoreOf(x, m) = Score(e, inv, d, most, n)
    BY <1>1, Zenon DEF ScoreOf
  <1>3. Score(e, inv, d, most, n) \in Nat /\ Score(e, inv, d, most, n) <= Scale
    BY ScoreIsOnScale
  <1> QED BY <1>2, <1>3, Zenon

\* A check has nothing to say against a borrower exactly when it passes.
LEMMA ReasonsAreTold ==
    ASSUME NEW x \in RiskInputs, NEW m \in Mandates, NEW at, NEW r, Tells(r, x, m, at)
    PROVE  Reasons(r) = {} <=> r.told.passed
  <1>1. /\ r.told.score = ScoreOf(x, m)
        /\ r.told.passed <=> Passes(x, m)
        /\ r.drawdownOk <=> x.drawdown <= m.maxDrawdown
        /\ r.told.dailySpendOk <=> x.exposure <= 10 * m.maxDailySpend
    BY Zenon DEF Tells
  <1>2. ~ (ScoreOf(x, m) >= Threshold) <=> ScoreOf(x, m) < Threshold
    <2>1. PICK s \in Nat : s = ScoreOf(x, m)
      BY ScoreOfIsOnScale, Zenon
    <2>2. ~ (s >= Threshold) <=> s < Threshold
      BY DEF Threshold
    <2> QED BY <2>1, <2>2, Zenon
  <1>3. ASSUME r.told.passed PROVE Reasons(r) = {}
    BY <1>1, <1>2, <1>3, Zenon DEF Reasons, Passes
  <1>4. ASSUME Reasons(r) = {} PROVE r.told.passed
    <2>1. "score" \notin Reasons(r) /\ "drawdown" \notin Reasons(r)
          /\ "daily spend" \notin Reasons(r)
      BY <1>4, Zenon
    <2>2. ~ (r.told.score >= Threshold) /\ r.drawdownOk /\ r.told.dailySpendOk
      BY <2>1, Zenon DEF Reasons
    <2> QED BY <1>1, <1>2, <2>2, Zenon DEF Passes
  <1> QED BY <1>3, <1>4, Zenon

\* Nor does the better borrower score worse.
LEMMA BetterScoresLess ==
    ASSUME NEW x \in RiskInputs, NEW y \in RiskInputs, NEW m \in Mandates, NoRiskier(x, y)
    PROVE  ScoreOf(x, m) <= ScoreOf(y, m) /\ (Passes(y, m) => Passes(x, m))
  <1>1. PICK e \in Nat, inv \in Nat, d \in Nat, n \in Nat :
          e = x.exposure /\ inv = x.inventory /\ d = x.drawdown /\ n = x.venues
    BY RiskNumbers, Zenon
  <1>2. PICK f \in Nat, jnv \in Nat, g \in Nat, k \in Nat :
          f = y.exposure /\ jnv = y.inventory /\ g = y.drawdown /\ k = y.venues
    BY RiskNumbers, Zenon
  <1>3. PICK most \in Nat, daily \in Nat : most = m.maxDrawdown /\ daily = m.maxDailySpend
    BY RiskNumbers, Zenon
  <1>4. e <= f /\ inv >= jnv /\ d <= g /\ n >= k
    BY <1>1, <1>2, Zenon DEF NoRiskier
  <1>5. PICK a \in Nat, b \in Nat :
          a = Score(e, inv, d, most, n) /\ b = Score(f, jnv, g, most, k)
    BY ScoreIsOnScale, Zenon
  <1>6. a <= b
    BY <1>4, <1>5, ScoreGrows
  <1>7. ScoreOf(x, m) = a /\ ScoreOf(y, m) = b
    BY <1>1, <1>2, <1>3, <1>5, Zenon DEF ScoreOf
  <1>8. /\ Passes(x, m) <=> a < Threshold /\ d <= most /\ e <= 10 * daily
        /\ Passes(y, m) <=> b < Threshold /\ g <= most /\ f <= 10 * daily
    BY <1>1, <1>2, <1>3, <1>7, Zenon DEF Passes
  <1>9. b < Threshold /\ g <= most /\ f <= 10 * daily
          => a < Threshold /\ d <= most /\ e <= 10 * daily
    BY <1>4, <1>6 DEF Threshold
  <1> QED BY <1>6, <1>7, <1>8, <1>9, Zenon

LEMMA InRange == ASSUME NEW a \in Nat, NEW top \in Nat, a <= top PROVE a \in 0..top
  OBVIOUS

\* What is known of a check in the history.
LEMMA ChecksTell ==
    ASSUME RiskInv, NEW i \in 1..Len(checks)
    PROVE  /\ checks[i].input \in RiskInputs /\ checks[i].mandate \in Mandates
           /\ Tells(checks[i].result, checks[i].input, checks[i].mandate,
                    checks[i].result.at)
           /\ checks[i].result = RiskResult(checks[i].input, checks[i].mandate,
                                            checks[i].result.at)
  <1>1. PICK at \in Moments :
          checks[i].result = RiskResult(checks[i].input, checks[i].mandate, at)
    BY Zenon DEF RiskInv, CheckFits
  <1>2. Tells(checks[i].result, checks[i].input, checks[i].mandate, at)
    BY <1>1, ResultTells, Zenon
  <1>3. checks[i].result.at = at
    BY <1>2, Zenon DEF Tells
  <1>4. checks[i].input \in RiskInputs /\ checks[i].mandate \in Mandates
    BY Zenon DEF RiskInv, CheckFits
  <1> QED BY <1>1, <1>2, <1>3, <1>4, Zenon

LEMMA ScoresAreOrdered == RiskInv => ScoreOrdersRisk
  <1> SUFFICES ASSUME RiskInv, NEW i \in 1..Len(checks), NEW j \in 1..Len(checks)
               PROVE  LET c == checks[i]  d == checks[j] IN
                      /\ c.result.told.score \in 0..Scale
                      /\ Reasons(c.result) = {} <=> c.result.told.passed
                      /\ c.mandate = d.mandate /\ NoRiskier(c.input, d.input) =>
                            /\ c.result.told.score <= d.result.told.score
                            /\ d.result.told.passed => c.result.told.passed
    BY DEF ScoreOrdersRisk
  <1>1. PICK c, d : c = checks[i] /\ d = checks[j]
    OBVIOUS
  <1>2. /\ c.input \in RiskInputs /\ c.mandate \in Mandates
        /\ d.input \in RiskInputs /\ d.mandate \in Mandates
        /\ Tells(c.result, c.input, c.mandate, c.result.at)
        /\ Tells(d.result, d.input, d.mandate, d.result.at)
    BY <1>1, ChecksTell, Zenon
  <1>3. Reasons(c.result) = {} <=> c.result.told.passed
    BY <1>2, ReasonsAreTold, Zenon
  <1>4. c.result.told.score \in 0..Scale
    <2>1. ScoreOf(c.input, c.mandate) \in Nat /\ ScoreOf(c.input, c.mandate) <= Scale
      BY <1>2, ScoreOfIsOnScale, Zenon
    <2>2. Scale \in Nat
      BY ScaleParts
    <2>3. ScoreOf(c.input, c.mandate) \in 0..Scale
      BY <2>1, <2>2, InRange, Zenon
    <2> QED BY <1>2, <2>3, Zenon DEF Tells
  <1>5. ASSUME c.mandate = d.mandate, NoRiskier(c.input, d.input)
        PROVE  /\ c.result.told.score <= d.result.told.score
               /\ d.result.told.passed => c.result.told.passed
    <2>1. /\ ScoreOf(c.input, c.mandate) <= ScoreOf(d.input, c.mandate)
          /\ Passes(d.input, c.mandate) => Passes(c.input, c.mandate)
      BY <1>2, <1>5, BetterScoresLess, Zenon
    <2> QED BY <1>2, <1>5, <2>1, Zenon DEF Tells
  <1> QED BY <1>1, <1>3, <1>4, <1>5, Zenon

LEMMA CommitmentsTell == RiskInv => CommitmentsTellTheCheck
  <1> SUFFICES ASSUME RiskInv, NEW i \in 1..Len(checks), NEW j \in 1..Len(checks)
               PROVE  LET c == checks[i]  d == checks[j] IN
                      /\ VerifyRiskCommitment(c.result.commitment, c.input, c.result)
                      /\ VerifyRiskCommitment(c.result.commitment, d.input, d.result) =>
                            /\ d.input = c.input /\ d.result.at = c.result.at
                            /\ c.mandate = d.mandate => d.result = c.result
                            /\ Reasons(c.result) = {} <=> Reasons(d.result) = {}
    BY DEF CommitmentsTellTheCheck
  <1>1. PICK c, d : c = checks[i] /\ d = checks[j]
    OBVIOUS
  <1>2. /\ c.input \in RiskInputs /\ c.mandate \in Mandates
        /\ Tells(c.result, c.input, c.mandate, c.result.at)
        /\ c.result = RiskResult(c.input, c.mandate, c.result.at)
    BY <1>1, ChecksTell, Zenon
  <1>3. /\ d.input \in RiskInputs /\ d.mandate \in Mandates
        /\ Tells(d.result, d.input, d.mandate, d.result.at)
        /\ d.result = RiskResult(d.input, d.mandate, d.result.at)
    BY <1>1, ChecksTell, Zenon
  <1>4. c.result.commitment = <<c.input, c.result.told, c.result.at>>
    BY <1>2, Zenon DEF Tells
  <1>5. VerifyRiskCommitment(c.result.commitment, c.input, c.result)
    BY <1>4, Zenon DEF VerifyRiskCommitment
  <1>6. ASSUME VerifyRiskCommitment(c.result.commitment, d.input, d.result)
        PROVE  /\ d.input = c.input /\ d.result.at = c.result.at
               /\ c.mandate = d.mandate => d.result = c.result
               /\ Reasons(c.result) = {} <=> Reasons(d.result) = {}
    <2>1. PICK x, told, at, y, said, when :
             /\ x = c.input /\ told = c.result.told /\ at = c.result.at
             /\ y = d.input /\ said = d.result.told /\ when = d.result.at
      OBVIOUS
    <2>2. <<x, told, at>> = <<y, said, when>>
      BY <1>4, <1>6, <2>1, Zenon DEF VerifyRiskCommitment
    <2>3. x = y /\ told = said /\ at = when
      BY <2>2
    <2>4. c.mandate = d.mandate => d.result = c.result
      BY <1>2, <1>3, <2>1, <2>3, Zenon
    <2>5. Reasons(c.result) = {} <=> Reasons(d.result) = {}
      <3>1. Reasons(c.result) = {} <=> c.result.told.passed
        BY <1>2, ReasonsAreTold, Zenon
      <3>2. Reasons(d.result) = {} <=> d.result.told.passed
        BY <1>3, ReasonsAreTold, Zenon
      <3> QED BY <2>1, <2>3, <3>1, <3>2, Zenon
    <2> QED BY <2>1, <2>3, <2>4, <2>5, Zenon
  <1> QED BY <1>1, <1>5, <1>6, Zenon

\* Interest does not fall.
LEMMA CentsGrow ==
    ASSUME NEW p \in Nat, NEW r \in Nat, NEW n \in Nat, NEW k \in Nat, n <= k
    PROVE  /\ AccruedCents(p, r, 1, 0) = 0
           /\ AccruedCents(p, r, 1, n) <= AccruedCents(p, r, 1, k)
  <1>1. PICK y \in Nat : y = 100 * SlotsPerYear /\ y > 0
    BY RiskAssumption
  <1>2. PICK a \in Nat : a = p * r
    OBVIOUS
  <1>3. PICK u \in Nat, v \in Nat, z \in Nat :
          /\ u = Max({0, n - 1}) /\ v = Max({0, k - 1}) /\ z = Max({0, 0 - 1})
          /\ u <= v /\ z = 0
    <2>1. n - 1 \in Int /\ k - 1 \in Int /\ 0 - 1 \in Int /\ 0 \in Int
      OBVIOUS
    <2>2. /\ Max({0, n - 1}) = IF 0 >= n - 1 THEN 0 ELSE n - 1
          /\ Max({0, k - 1}) = IF 0 >= k - 1 THEN 0 ELSE k - 1
          /\ Max({0, 0 - 1}) = IF 0 >= 0 - 1 THEN 0 ELSE 0 - 1
      BY <2>1, LargerOne, Zenon
    <2> QED BY <2>2
  <1>4. /\ AccruedCents(p, r, 1, n) = Rounded(a * u, y)
        /\ AccruedCents(p, r, 1, k) = Rounded(a * v, y)
        /\ AccruedCents(p, r, 1, 0) = Rounded(a * z, y)
    BY <1>1, <1>2, <1>3, Zenon DEF AccruedCents
  <1>5. Rounded(a * u, y) <= Rounded(a * v, y)
    <2>1. PICK s \in Nat, t \in Nat : s = a * u /\ t = a * v /\ s <= t
      BY <1>3, ProductGrows
    <2>2. s * y <= t * y
      BY <2>1, ProductGrows
    <2>3. Rounded(s, y) <= Rounded(t, y)
      BY <1>1, <2>2, RoundedGrows
    <2> QED BY <2>1, <2>3, Zenon
  <1>6. Rounded(a * z, y) = 0
    <2>1. a * z = 0 * y
      BY <1>3
    <2>2. Rounded(0 * y, y) = 0
      BY <1>1, RoundedExactly
    <2> QED BY <2>1, <2>2, Zenon
  <1> QED BY <1>4, <1>5, <1>6, Zenon

LEMMA InterestOnlyGrows == RiskInv => InterestGrows
  <1> SUFFICES ASSUME RiskInv, NEW i \in 1..Len(checks), NEW j \in 1..Len(checks)
               PROVE  LET cents(n) == AccruedCents(checks[i].input.exposure,
                                                   checks[i].input.drawdown, 1, n)
                      IN  /\ cents(0) = 0
                          /\ i <= j => cents(i) <= cents(j)
    BY DEF InterestGrows
  <1>1. PICK p \in Nat, r \in Nat :
          p = checks[i].input.exposure /\ r = checks[i].input.drawdown
    BY ChecksTell, RiskNumbers, Zenon
  <1>2. i \in Nat /\ j \in Nat /\ 0 \in Nat /\ 0 <= 0
    OBVIOUS
  <1>3. AccruedCents(p, r, 1, 0) = 0
    BY <1>2, CentsGrow, Zenon
  <1>4. i <= j => AccruedCents(p, r, 1, i) <= AccruedCents(p, r, 1, j)
    BY <1>2, CentsGrow, Zenon
  <1> QED BY <1>1, <1>3, <1>4, Zenon

\* A part of a score, times a common denominator, is within half of it of the whole.
LEMMA PartTimes ==
    ASSUME NEW part \in Nat, NEW whole \in Nat, whole > 0, part <= whole,
           NEW weight \in Nat, NEW other \in Nat, other > 0,
           NEW s, s = Share(part, whole, weight)
    PROVE  /\ s \in Nat
           /\ 2 * ((whole * other) * s) <= 2 * ((part * weight) * other) + whole * other
           /\ 2 * ((part * weight) * other) <= 2 * ((whole * other) * s) + whole * other
  <1>1. PICK n \in Nat : n = part * weight
    OBVIOUS
  <1>2. s = Rounded(n, whole)
    BY <1>1, ShareIsPart
  <1>3. s \in Nat /\ 2 * (whole * s) <= 2 * n + whole /\ 2 * n < 2 * (whole * s) + whole
    BY <1>2, RoundedIs
  <1>4. PICK a \in Nat, b \in Nat : a = 2 * (whole * s) /\ b = 2 * n
    BY <1>3
  <1>5. a * other <= (b + whole) * other /\ b * other <= (a + whole) * other
    BY <1>3, <1>4, ProductGrows
  <1>6. /\ (b + whole) * other = b * other + whole * other
        /\ (a + whole) * other = a * other + whole * other
    OBVIOUS
  <1>7. a * other = 2 * ((whole * other) * s)
    BY <1>3, <1>4
  <1>8. b * other = 2 * (n * other)
    BY <1>4
  <1> QED BY <1>1, <1>3, <1>5, <1>6, <1>7, <1>8

\* The sum of the parts, each rounded, against the sum rounded once.
LEMMA RoundedApart ==
    ASSUME NEW den \in Nat, den > 0, NEW x \in Nat, NEW y \in Nat,
           NEW e \in Nat, NEW d \in Nat, NEW v \in Nat, NEW r \in Nat,
           2 * (den * e) <= 2 * x + den, 2 * x <= 2 * (den * e) + den,
           2 * (den * d) <= 2 * y + den, 2 * y <= 2 * (den * d) + den,
           NEW num \in Nat, num = x + y + den * v,
           2 * (den * r) <= 2 * num + den, 2 * num < 2 * (den * r) + den
    PROVE  r <= e + d + v + 1 /\ e + d + v <= r + 1
  <1>1. PICK s \in Nat : s = e + d + v
    OBVIOUS
  <1>2. PICK de \in Nat, dd \in Nat, dv \in Nat, dr \in Nat, ds \in Nat :
          /\ de = den * e /\ dd = den * d /\ dv = den * v /\ dr = den * r /\ ds = den * s
    BY <1>1
  <1>3. ds = de + dd + dv
    BY <1>1, <1>2
  <1>4. 2 * dr <= 2 * ds + 3 * den /\ 2 * ds < 2 * dr + 3 * den
    BY <1>2, <1>3
  <1>5. r <= s + 1
    <2> SUFFICES ASSUME s + 2 <= r PROVE FALSE
      BY <1>1
    <2>1. den * (s + 2) <= dr
      BY <1>2, ProductGrows
    <2>2. den * (s + 2) = ds + 2 * den
      BY <1>2
    <2> QED BY <1>2, <1>4, <2>1, <2>2
  <1>6. s <= r + 1
    <2> SUFFICES ASSUME r + 2 <= s PROVE FALSE
      BY <1>1
    <2>1. den * (r + 2) <= ds
      BY <1>2, ProductGrows
    <2>2. den * (r + 2) = dr + 2 * den
      BY <1>2
    <2> QED BY <1>2, <1>4, <2>1, <2>2
  <1> QED BY <1>1, <1>5, <1>6

\* The demo's score of the same numbers.
LEMMA DemoIsClose ==
    ASSUME NEW e \in Nat, NEW inv \in Nat, inv > 0, e <= inv,
           NEW d \in Nat, NEW most \in Nat, most > 0, d <= most, NEW n \in Nat,
           NEW r, r = Rounded(Weight * 5 * e * most + Weight * 5 * d * inv
                                + VenueWeight * (5 - Min({n, 5})) * inv * most,
                              5 * inv * most)
    PROVE  /\ r \in Nat
           /\ r <= Score(e, inv, d, most, n) + 1 /\ Score(e, inv, d, most, n) <= r + 1
  <1>1. PICK k \in 0..5 : k = 5 - Min({n, 5})
    BY VenueParts
  <1>2. PICK v \in Nat : v = 400 * k /\ v = VenueBps(n)
    BY <1>1, VenueParts
  <1>3. PICK w \in Nat : w = Weight
    BY ScaleParts
  <1>4. PICK den \in Nat : den = inv * most /\ den > 0
    OBVIOUS
  <1>5. PICK a, b : a = Share(e, inv, Weight) /\ b = Share(d, most, Weight)
    OBVIOUS
  <1>6. PICK p \in Nat : p = (e * w) * most
    OBVIOUS
  <1>7. PICK q \in Nat : q = (d * w) * inv
    OBVIOUS
  <1>8. /\ a \in Nat /\ 2 * (den * a) <= 2 * p + den /\ 2 * p <= 2 * (den * a) + den
    BY <1>3, <1>4, <1>5, <1>6, PartTimes
  <1>9. most * inv = den
    BY <1>4
  <1>10. /\ b \in Nat /\ 2 * (den * b) <= 2 * q + den /\ 2 * q <= 2 * (den * b) + den
    BY <1>3, <1>5, <1>7, <1>9, PartTimes
  <1>11. PICK num \in Nat : num = p + q + den * v
    BY <1>2, <1>4
  <1>12. r = Rounded(5 * num, 5 * den)
    <2>1. 5 * inv * most = 5 * den
      BY <1>4
    <2>2. Weight * 5 * e * most = 5 * p
      BY <1>3, <1>6
    <2>3. Weight * 5 * d * inv = 5 * q
      BY <1>3, <1>7
    <2>4. VenueWeight * k * inv * most = 5 * (den * v)
      <3>1. VenueWeight * k = 5 * v
        BY <1>2 DEF VenueWeight
      <3>2. (5 * v) * inv * most = 5 * (den * v)
        BY <1>4
      <3> QED BY <3>1, <3>2
    <2>5. 5 * p + 5 * q + 5 * (den * v) = 5 * num
      BY <1>4, <1>11
    <2> QED BY <1>1, <2>1, <2>2, <2>3, <2>4, <2>5, Zenon
  <1>13. r \in Nat /\ 2 * (den * r) <= 2 * num + den /\ 2 * num < 2 * (den * r) + den
    <2>1. PICK f \in Nat, g \in Nat : f = 5 * num /\ g = 5 * den /\ g > 0
      BY <1>4
    <2>2. r \in Nat /\ 2 * (g * r) <= 2 * f + g /\ 2 * f < 2 * (g * r) + g
      BY <1>12, <2>1, RoundedIs
    <2>3. PICK h \in Nat : h = den * r
      BY <2>2
    <2>4. g * r = 5 * h
      BY <2>1, <2>2, <2>3
    <2> QED BY <2>1, <2>2, <2>3, <2>4
  <1>14. r <= a + b + v + 1 /\ a + b + v <= r + 1
    BY <1>4, <1>8, <1>10, <1>11, <1>13, RoundedApart, ZenonT(60)
  <1>15. Score(e, inv, d, most, n) = a + b + v
    BY <1>2, <1>5, Zenon DEF Score
  <1> QED BY <1>13, <1>14, <1>15

\* And the private computation stays below its threshold.
LEMMA PrivateIsLow ==
    ASSUME NEW e \in Nat, NEW inv \in Nat, inv > 0, e <= inv,
           NEW d \in Nat, NEW most \in Nat, most > 0, d <= most, NEW k \in 0..5,
           NEW num, num = PrivateExposure * 5 * e * most + PrivateDrawdown * 5 * d * inv
                          + PrivateVenues * k * inv * most,
           NEW g, g = 5 * inv * most
    PROVE  Rounded(num, g) \in Nat /\ Rounded(num, g) < Threshold
  <1>1. k \in Nat
    OBVIOUS
  <1>2. PICK den \in Nat : den = inv * most /\ den > 0
    OBVIOUS
  <1>3. PICK p \in Nat, q \in Nat : p = e * most /\ q = d * inv
    OBVIOUS
  <1>4. p <= den /\ q <= den
    <2>1. e * most <= inv * most
      BY ProductGrows
    <2>2. d * inv <= most * inv /\ most * inv = inv * most
      BY ProductGrows
    <2> QED BY <1>2, <1>3, <2>1, <2>2
  <1>5. k * den \in Nat /\ k * den <= 5 * den
    BY <1>1, <1>2
  <1>6. num = 20000 * p + 6000 * q + 400 * (k * den)
    <2>1. PrivateExposure * 5 * e * most = 20000 * p
      BY <1>3 DEF PrivateExposure
    <2>2. PrivateDrawdown * 5 * d * inv = 6000 * q
      BY <1>3 DEF PrivateDrawdown
    <2>3. PrivateVenues * k * inv * most = 400 * (k * den)
      BY <1>1, <1>2 DEF PrivateVenues
    <2> QED BY <2>1, <2>2, <2>3
  <1>7. num \in Nat
    BY <1>5, <1>6
  <1>8. num <= 5600 * (5 * den)
    BY <1>4, <1>5, <1>6
  <1>9. g \in Nat /\ g > 0 /\ g = 5 * den
    BY <1>2
  <1>10. PICK top \in Nat : top = 5600
    OBVIOUS
  <1>11. PICK t \in Nat : t = top * g
    BY <1>9
  <1>12. Rounded(num, g) <= Rounded(t, g)
    <2>1. num <= t
      BY <1>8, <1>9, <1>10, <1>11
    <2>2. num * g <= t * g
      BY <1>7, <1>9, <2>1, ProductGrows
    <2> QED BY <1>7, <1>9, <2>2, RoundedGrows
  <1>13. Rounded(t, g) = top
    <2>1. Rounded(top * g, g) = top
      BY <1>9, RoundedExactly
    <2> QED BY <1>11, <2>1, Zenon
  <1>14. Rounded(num, g) \in Nat
    BY <1>7, <1>9, RoundedIs
  <1> QED BY <1>10, <1>12, <1>13, <1>14 DEF Threshold

\* What the engine passes, the two other scorers pass.
LEMMA ScorersNeverPart == RiskInv => ScorersAgree
  <1> SUFFICES ASSUME RiskInv, NEW i \in 1..Len(checks), NEW x, NEW m,
                      x = checks[i].input, m = checks[i].mandate,
                      checks[i].result.told.passed, x.exposure <= x.inventory,
                      m.maxDrawdown > 0, x.inventory > 0
               PROVE  /\ DemoScore(x, m) \in (checks[i].result.told.score - 1)
                                               ..(checks[i].result.told.score + 1)
                      /\ PrivatePasses(x, m)
    BY Zenon DEF ScorersAgree
  <1>1. x \in RiskInputs /\ m \in Mandates /\ Tells(checks[i].result, x, m, checks[i].result.at)
    BY ChecksTell, Zenon
  <1>2. PICK e \in Nat, inv \in Nat, d \in Nat, n \in Nat, most \in Nat :
          e = x.exposure /\ inv = x.inventory /\ d = x.drawdown /\ n = x.venues
            /\ most = m.maxDrawdown
    BY <1>1, RiskNumbers, Zenon
  <1>3. e <= inv /\ most > 0 /\ inv > 0 /\ d <= most
    BY <1>1, <1>2, Zenon DEF Tells, Passes
  <1>4. PICK s \in Nat : s = Score(e, inv, d, most, n)
    BY ScoreIsOnScale, Zenon
  <1>5. checks[i].result.told.score = s
    BY <1>1, <1>2, <1>4, Zenon DEF Tells, ScoreOf
  <1>6. PICK r : r = Rounded(Weight * 5 * e * most + Weight * 5 * d * inv
                               + VenueWeight * (5 - Min({n, 5})) * inv * most,
                             5 * inv * most)
    OBVIOUS
  <1>7. r \in Nat /\ r <= s + 1 /\ s <= r + 1
    BY <1>3, <1>4, <1>6, DemoIsClose, Zenon
  <1>8. DemoScore(x, m) = r
    BY <1>2, <1>6, Zenon DEF DemoScore
  <1>9. r \in (s - 1)..(s + 1)
    BY <1>7
  <1>10. 5 - Min({n, 5}) \in 0..5
    BY VenueParts
  <1>11. PICK num, g :
           /\ g = 5 * inv * most
           /\ num = PrivateExposure * 5 * e * most + PrivateDrawdown * 5 * d * inv
                      + PrivateVenues * (5 - Min({n, 5})) * inv * most
    OBVIOUS
  <1>12. Rounded(num, g) \in Nat /\ Rounded(num, g) < Threshold
    BY <1>3, <1>10, <1>11, PrivateIsLow, Zenon
  <1>13. PrivateScore(x, m) = Rounded(num, g)
    <2>1. Min({Scale, Rounded(num, g)}) = Rounded(num, g)
      <3>1. PICK t \in Int, top \in Int : t = Rounded(num, g) /\ top = Scale /\ t < top
        BY <1>12 DEF Threshold, Scale, Weight, VenueWeight
      <3>2. Min({top, t}) = IF top <= t THEN top ELSE t
        BY SmallerOne, Zenon
      <3>3. Min({top, t}) = t
        BY <3>1, <3>2
      <3> QED BY <3>1, <3>3, Zenon
    <2>2. x.inventory # 0
      BY <1>2, <1>3
    <2>3. PrivateScore(x, m) = Min({Scale, Rounded(num, g)})
      BY <1>2, <1>11, <2>2, Zenon DEF PrivateScore
    <2> QED BY <2>1, <2>3, Zenon
  <1>15. PrivatePasses(x, m)
    BY <1>2, <1>3, <1>12, <1>13, Zenon DEF PrivatePasses
  <1> QED BY <1>5, <1>8, <1>9, <1>15, Zenon

\* Every history of checks is judged alike, for every mandate, borrower and clock: no
\* better borrower scores worse, a commitment is opened only by what was found of its
\* borrower at its moment, the other scorers agree, and interest does not fall.
THEOREM RiskIsAlwaysJudgedAlike == RiskSpec => []RiskIsJudgedAlike
  <1>1. RiskInv => RiskIsJudgedAlike
    BY ScoresAreOrdered, CommitmentsTell, ScorersNeverPart, InterestOnlyGrows
       DEF RiskIsJudgedAlike
  <1> QED BY <1>1, RiskInvInit, RiskInvNext, PTL DEF RiskSpec

=============================================================================
