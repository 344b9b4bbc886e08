---------------------------- MODULE CreditEngine ----------------------------
(***************************************************************************)
(* The off-chain credit engine: pure functions from a credit line to the   *)
(* next one, as the API demo and the worker chain them.  A call that       *)
(* throws leaves the caller with the line it had.                          *)
(*                                                                         *)
(* The engine is not a copy of the program: a delinquent line still takes  *)
(* repayments, a settlement repeats on a delinquent line, and what is      *)
(* written off stays part of the debt.                                     *)
(*                                                                         *)
(* Amounts are whole USD, rates basis points.  Names, ids, hashes, the     *)
(* purpose of a draw and the limits of the mandate that the engine does    *)
(* not read are left out; a line without receipts has lastReceipt None.    *)
(***************************************************************************)
EXTENDS Integers, Sequences, SequencesExt

CONSTANTS
    Markets,     \* the markets a draw may name
    Signers,     \* who may sign a receipt, authorized or not
    NoteSizes,   \* note sizes an application may ask for, in USD
    Rates,       \* interest rates an application may ask for, in bps
    MaxNotes,    \* the largest limit asked for; bounds the model only
    LastSlot,     \* the last slot; bounds the model only
    MaxReceipts  \* receipts posted to a line; bounds the model only

ASSUME EngineAssumption ==
    /\ NoteSizes \subseteq Nat \ {0}
    /\ Rates \subseteq 0..10000
    /\ MaxNotes \in Nat \ {0} /\ LastSlot \in Nat \ {0} /\ MaxReceipts \in Nat

VARIABLES
    application,  \* the application, with status "none" before there is one
    credit        \* the line, with status "none" before there is one

engineVars == <<application, credit>>

Notes == 1..MaxNotes
EngineSlots == 1..LastSlot
Authorities == {"auditor", "underwriter"}

NoApplication == [status |-> "none"]
NoCredit == [status |-> "none"]

EngineInit == application = NoApplication /\ credit = NoCredit

-----------------------------------------------------------------------------
(* Amounts. *)

\* outstandingNotes: what was drawn and not repaid, written off or not.
OutstandingNotes(c) ==
    IF c.drawnNotes >= c.repaidNotes THEN c.drawnNotes - c.repaidNotes ELSE 0

\* Slip: interest is rounded down.
NotesDueFloor(notes, size, bps) == notes * size + (notes * size * bps) \div 10000

\* notesDueUsd: principal plus interest, rounded up to a dollar.
NotesDue(notes, size, bps) ==
    notes * size + (notes * size * bps + 9999) \div 10000

\* recalculateLine.
Recalculated(c) ==
    [c EXCEPT !.exposureUsd = OutstandingNotes(c) * c.noteSizeUsd,
              !.repaymentDueUsd =
                  NotesDue(OutstandingNotes(c), c.noteSizeUsd, c.interestBps)]

-----------------------------------------------------------------------------
(* Operations. *)

CreateApplication(limit, size, bps, allowed, maturity) ==
    /\ application.status = "none"
    /\ application' = [status |-> "pending", limitNotes |-> limit,
                       noteSizeUsd |-> size, interestBps |-> bps,
                       allowedMarkets |-> allowed, maturitySlot |-> maturity]
    /\ UNCHANGED credit

Approved(a) ==
    Recalculated(
        [status |-> "active", limitNotes |-> a.limitNotes,
         noteSizeUsd |-> a.noteSizeUsd, interestBps |-> a.interestBps,
         allowedMarkets |-> a.allowedMarkets, maturitySlot |-> a.maturitySlot,
         drawnNotes |-> 0, repaidNotes |-> 0, defaultedNotes |-> 0,
         exposureUsd |-> 0, repaymentDueUsd |-> 0, totalRepaidUsd |-> 0,
         receipts |-> << >>, drawHistory |-> << >>])

ApproveLine(now) ==
    /\ application.status = "pending"
    /\ credit.status = "none"
    /\ application.maturitySlot > now
    /\ credit' = Approved(application)
    /\ UNCHANGED application

\* Slips: repaid notes are lent again; the status is not asked.
RevolvingDraw(notes, market, now) ==
    /\ credit.status = "active"
    /\ now < credit.maturitySlot
    /\ market \in credit.allowedMarkets
    /\ OutstandingNotes(credit) + notes <= credit.limitNotes
DrawInAnyStatus(notes, market, now) ==
    /\ credit.status # "none"
    /\ now < credit.maturitySlot
    /\ market \in credit.allowedMarkets
    /\ credit.drawnNotes + notes <= credit.limitNotes

\* The asset is checked like the market and not modelled apart from it.
DrawAllowed(notes, market, now) ==
    /\ credit.status = "active"
    /\ now < credit.maturitySlot
    /\ market \in credit.allowedMarkets
    /\ credit.drawnNotes + notes <= credit.limitNotes

Drawn(c, notes, market, now) ==
    Recalculated([c EXCEPT
        !.drawnNotes = @ + notes,
        !.drawHistory = Append(@, [notes |-> notes, market |-> market, at |-> now])])

DrawNotes(notes, market, now) ==
    /\ DrawAllowed(notes, market, now)
    /\ credit' = Drawn(credit, notes, market, now)
    /\ UNCHANGED application

\* Slip: a repayment of everything leaves the line open.
NeverCloses(c, notes) == c.status

StatusAfterRepay(c, notes) ==
    IF c.repaidNotes + notes = c.drawnNotes THEN "closed" ELSE c.status

\* Slip: the amounts of the line are those before the repayment.
RepaidUncounted(c, notes) ==
    [c EXCEPT !.repaidNotes = @ + notes,
              !.status = StatusAfterRepay(c, notes),
              !.totalRepaidUsd = @ + NotesDue(notes, c.noteSizeUsd, c.interestBps)]

Repaid(c, notes) ==
    Recalculated([c EXCEPT
        !.repaidNotes = @ + notes,
        !.status = StatusAfterRepay(c, notes),
        !.totalRepaidUsd = @ + NotesDue(notes, c.noteSizeUsd, c.interestBps)])

\* No check of the status: a delinquent line is repaid like an active one.
RepayNotes(notes) ==
    /\ credit.status # "none"
    /\ notes <= OutstandingNotes(credit)
    /\ credit' = Repaid(credit, notes)
    /\ UNCHANGED application

WithReceipt(c, start, end, now) ==
    [c EXCEPT !.receipts = Append(@, [start |-> start, end |-> end, at |-> now])]

PostRiskReceipt(signer, start, end, now) ==
    /\ credit.status # "none"
    /\ Len(credit.receipts) < MaxReceipts
    /\ signer \in Authorities
    /\ start <= end /\ end <= now
    /\ credit' = WithReceipt(credit, start, end, now)
    /\ UNCHANGED application

\* settleMaturity.  A line that is closed, or not past its maturity, is returned
\* with its amounts recalculated.
Settled(c, now) ==
    CASE c.status = "closed" \/ now <= c.maturitySlot -> Recalculated(c)
      [] OTHER ->
           IF OutstandingNotes(c) = 0
           THEN Recalculated([c EXCEPT !.status = "closed"])
           ELSE Recalculated([c EXCEPT !.status = "delinquent",
                                       !.defaultedNotes = OutstandingNotes(c)])

SettleLine(now) ==
    /\ credit.status # "none"
    /\ credit' = Settled(credit, now)
    /\ UNCHANGED application

EngineNext ==
    \/ \E n \in Notes, size \in NoteSizes, bps \in Rates,
          allowed \in SUBSET Markets, m \in EngineSlots :
          CreateApplication(n, size, bps, allowed, m)
    \/ \E now \in EngineSlots : ApproveLine(now) \/ SettleLine(now)
    \/ \E n \in Notes, m \in Markets, now \in EngineSlots : DrawNotes(n, m, now)
    \/ \E n \in Notes : RepayNotes(n)
    \/ \E s \in Signers, start, end, now \in EngineSlots :
          PostRiskReceipt(s, start, end, now)

EngineSpec == EngineInit /\ [][EngineNext]_engineVars

-----------------------------------------------------------------------------
(* Readers of a line: the risk worker, and the demo of the API server. *)

\* evaluateCreditLine: what the worker tells about a line at a slot.  The receipt
\* looked at is the last one posted, of whatever period.
WorkerEvents(c, now, interval) ==
    {e \in {"open_exposure", "receipt_stale", "maturity_delinquent"} :
        CASE e = "open_exposure" -> c.repaymentDueUsd > 0
          [] e = "receipt_stale" ->
               c.receipts # << >> /\ now - Last(c.receipts).end > interval
          [] OTHER -> Settled(c, now).status = "delinquent"}

\* buildDemoCreditLine, and the chains of buildDemoSnapshot and buildWatchedLine.
DemoInterval == 150
DemoLine ==
    Approved([limitNotes |-> 50, noteSizeUsd |-> 1000, interestBps |-> 75,
              allowedMarkets |-> {"SOL-PERP", "BTC-PERP"}, maturitySlot |-> 50000])
DemoSnapshot ==
    Repaid(WithReceipt(Drawn(DemoLine, 10, "SOL-PERP", 20050), 20050, 20150, 20151), 3)
WatchedLine ==
    WithReceipt(Drawn(DemoLine, 12, "SOL-PERP", 20050), 20050, 20100, 20101)

-----------------------------------------------------------------------------
(* What the engine promises. *)

Draw == [notes : Notes, market : Markets, at : EngineSlots]
RiskReceipt == [start : EngineSlots, end : EngineSlots, at : EngineSlots]

EngineTypeOK ==
    /\ application.status \in {"none", "pending"}
    /\ credit.status \in {"none", "active", "closed", "delinquent"}
    /\ credit.status # "none" =>
          /\ {credit.drawnNotes, credit.repaidNotes, credit.defaultedNotes}
                \subseteq 0..MaxNotes
          /\ {credit.exposureUsd, credit.repaymentDueUsd, credit.totalRepaidUsd}
                \subseteq Nat
          /\ credit.drawHistory \in Seq(Draw)
          /\ credit.receipts \in Seq(RiskReceipt)

NotesIn(draws) == SumFunction([i \in 1..Len(draws) |-> draws[i].notes])

\* The draw history accounts for every note drawn, each inside the mandate and
\* before maturity, and all of them within the limit, whatever was repaid and
\* lent in between.
HistoryAccountsForDraws ==
    credit.status # "none" =>
        /\ NotesIn(credit.drawHistory) = credit.drawnNotes
        /\ \A d \in ToSet(credit.drawHistory) :
              d.market \in credit.allowedMarkets /\ d.at < credit.maturitySlot
        /\ credit.repaidNotes <= credit.drawnNotes
        /\ credit.drawnNotes <= credit.limitNotes

\* Interest is rounded up at each repayment.  Paying in parts never costs less
\* than paying at once, and at most a dollar more for each note repaid.
PartPaymentsCoverTheDebt ==
    credit.status # "none" =>
        LET due(n) == NotesDue(n, credit.noteSizeUsd, credit.interestBps) IN
        /\ due(credit.drawnNotes) <= credit.totalRepaidUsd + credit.repaymentDueUsd
        /\ credit.totalRepaidUsd <= due(credit.repaidNotes) + credit.repaidNotes

\* The two of them: the amounts of a line add up, in notes and in dollars.
AmountsAddUp == HistoryAccountsForDraws /\ PartPaymentsCoverTheDebt

\* The status tells the debt: a closed line owes nothing, an active one that was
\* drawn on owes something, and a delinquent one owes no more than was written
\* off, across late repayments and repeated settlements.
StatusTellsDebt ==
    /\ credit.status = "closed" => OutstandingNotes(credit) = 0
    /\ credit.status = "active" =>
          credit.drawnNotes = 0 \/ OutstandingNotes(credit) > 0
    /\ credit.status = "delinquent" =>
          OutstandingNotes(credit) \in 1..credit.defaultedNotes

\* Nothing happens to the debt of a closed line any more.
ClosedIsFinal ==
    [][credit.status = "closed" =>
         /\ credit'.status = "closed"
         /\ credit'.drawnNotes = credit.drawnNotes
         /\ credit'.totalRepaidUsd = credit.totalRepaidUsd]_engineVars

\* A delinquent line is never lent to again, and leaves that status only when
\* everything is repaid; a repeated settlement never writes off more.
DelinquentOnlyRecovers ==
    [][credit.status = "delinquent" =>
         /\ credit'.drawnNotes = credit.drawnNotes
         /\ credit'.status = "delinquent" \/ OutstandingNotes(credit') = 0
         /\ credit'.defaultedNotes <= credit.defaultedNotes]_engineVars

\* The two of them: a line that ended is not revived by any later call.
EndedLinesStayEnded == ClosedIsFinal /\ DelinquentOnlyRecovers

\* What the worker tells is true of the line after any chain of calls: it reports
\* exposure exactly when notes are out (the amounts are never left from an earlier
\* line), delinquency exactly when notes are out after the maturity or were written
\* off before and not all paid since.  The demo line owes what its chain says and defaults at 51,000.
WorkerTellsTheDebt ==
    /\ credit.status # "none" =>
          \A now, interval \in EngineSlots :
             LET events == WorkerEvents(credit, now, interval) IN
             /\ ("open_exposure" \in events) <=> (OutstandingNotes(credit) > 0)
             /\ ("maturity_delinquent" \in events) <=>
                   /\ OutstandingNotes(credit) > 0
                   /\ now > credit.maturitySlot \/ credit.status = "delinquent"
             /\ "receipt_stale" \in events =>
                   \E r \in ToSet(credit.receipts) : r.end + interval < now
    /\ WorkerEvents(WatchedLine, 50500, DemoInterval) =
          {"open_exposure", "receipt_stale", "maturity_delinquent"}
    /\ DemoSnapshot.exposureUsd = 7000 /\ DemoSnapshot.repaymentDueUsd = 7053
    /\ Settled(DemoSnapshot, 51000).defaultedNotes = 7

==============================================================================
