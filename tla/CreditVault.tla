----------------------------- MODULE CreditVault -----------------------------
(***************************************************************************)
(* The credit-vault program: pools, borrower credit lines and receipts,    *)
(* the seven instructions that write them.  The program never reads the    *)
(* chain's clock: where a handler needs the time it takes the instruction  *)
(* argument current_slot, which is any slot here (VaultOnChain adds the    *)
(* clock and the clients that read it).                                    *)
(*                                                                         *)
(* A transaction is one atomic step: an instruction that returns an error  *)
(* reverts every account it touched, so only successful instructions are   *)
(* steps and each `return Err` is a conjunct of an action's guard.         *)
(*                                                                         *)
(* An account is bytes at an address, and the program reads them as        *)
(* whichever type the instruction asks for.  pool, line and receipt are    *)
(* the three readings: an address whose first byte is not the type's       *)
(* discriminator reads as EmptyPool, EmptyLine or EmptyReceipt.  Pools,    *)
(* Lines and Receipts are the addresses with room for the type; they may   *)
(* overlap, and then an account in use as one type can be taken for        *)
(* another: is_initialized looks for its own discriminator only, and pack  *)
(* writes over the whole account.  spoilt, which the program does not      *)
(* have, remembers the pools that lost their account or one of their       *)
(* lines' that way; what is promised of a pool is promised until then.     *)
(*                                                                         *)
(* Left out: fields that are stored and never read again (bump, admin,     *)
(* reserve_mint, vault, receipt_interval_slots, opened_slot, the terms and *)
(* mandate hashes, privacy_policy), and the byte layout of an account.     *)
(* note_size_usd and interest_bps are only ever copied and compared, so    *)
(* the pair is one opaque element of Terms.                                *)
(***************************************************************************)
EXTENDS Integers, FiniteSets, Functions

CONSTANTS
    Pools,        \* addresses with room for a pool account
    Lines,        \* addresses with room for a credit-line account
    Receipts,     \* addresses with room for a receipt account
    Underwriters, \* keys named as underwriter of a pool
    Auditors,     \* keys named as auditor of a pool
    Borrowers,    \* keys that borrow
    ZeroKey,      \* the all-zero key
    Terms,        \* the (note_size_usd, interest_bps) pairs
    NoTerms,      \* the contents of the terms fields of an empty account
    MaxU32,       \* the largest u32; small in a checked instance
    MaxSlot       \* the largest slot number; small in a checked instance

ASSUME KeysAssumption ==
    ZeroKey \notin Underwriters \cup Auditors \cup Borrowers
ASSUME TermsAssumption == NoTerms \notin Terms
ASSUME BoundsAssumption == MaxU32 \in Nat \ {0} /\ MaxSlot \in Nat \ {0}
ASSUME AddressAssumption ==
    /\ IsFiniteSet(Lines)
    /\ ZeroKey \notin Pools \cup Lines

VARIABLES
    pool,     \* pool[p]: the account at address p, read as a pool
    line,     \* line[l]: the account at address l, read as a line
    receipt,  \* receipt[r]: the account at address r, read as a receipt
    spoilt    \* history: the pools that lost an account to another type

vars == <<pool, line, receipt, spoilt>>

Keys == Underwriters \cup Auditors \cup Borrowers
U32 == 0..MaxU32
Slots == 0..MaxSlot

PoolStatus == {"Uninitialized", "Active", "Paused"}
LineStatus ==
    {"Uninitialized", "Active", "Closed", "Delinquent", "Defaulted", "Paused"}

PoolAccount ==
    [status : PoolStatus,
     underwriter : Keys \cup {ZeroKey}, auditor : Keys \cup {ZeroKey},
     terms : Terms \cup {NoTerms},
     totalLimit : U32, allocated : U32, outstanding : U32,
     drawn : U32, repaid : U32, defaulted : U32,
     maturity : Slots]

CreditLineAccount ==
    [status : LineStatus,
     pool : Pools \cup {ZeroKey},
     borrower : Keys \cup {ZeroKey},
     underwriter : Keys \cup {ZeroKey}, auditor : Keys \cup {ZeroKey},
     terms : Terms \cup {NoTerms},
     limit : U32, drawn : U32, repaid : U32, defaulted : U32,
     maturity : Slots, lastReceipt : Slots]

ReceiptAccount ==
    [line : Lines \cup {ZeroKey}, signer : Keys \cup {ZeroKey},
     start : Slots, end : Slots, accepted : Slots]

EmptyPool ==
    [status |-> "Uninitialized", underwriter |-> ZeroKey, auditor |-> ZeroKey,
     terms |-> NoTerms, totalLimit |-> 0, allocated |-> 0, outstanding |-> 0,
     drawn |-> 0, repaid |-> 0, defaulted |-> 0, maturity |-> 0]

EmptyLine ==
    [status |-> "Uninitialized", pool |-> ZeroKey, borrower |-> ZeroKey,
     underwriter |-> ZeroKey, auditor |-> ZeroKey, terms |-> NoTerms,
     limit |-> 0, drawn |-> 0, repaid |-> 0, defaulted |-> 0,
     maturity |-> 0, lastReceipt |-> 0]

EmptyReceipt ==
    [line |-> ZeroKey, signer |-> ZeroKey, start |-> 0, end |-> 0, accepted |-> 0]

Init ==
    /\ pool = [p \in Pools |-> EmptyPool]
    /\ line = [l \in Lines |-> EmptyLine]
    /\ receipt = [r \in Receipts |-> EmptyReceipt]
    /\ spoilt = {}

-----------------------------------------------------------------------------
(* Checks the handlers share.  A definition marked Slip is a way to get the *)
(* definition after it wrong: it is used by no action, and each property is  *)
(* shown to notice one of them.                                             *)

\* Slip: a closed line account may be initialized again.
ClosedIsReusable(account) == account.status \notin {"Uninitialized", "Closed"}

\* is_initialized reads the discriminator of its own type, which pack writes with
\* the status: an account of another type is not initialized for it.
Initialized(account) == account.status # "Uninitialized"

\* What the other readings of an account become when it is packed as one type.
PoolsWithout(a) == [x \in Pools |-> IF x = a THEN EmptyPool ELSE pool[x]]
LinesWithout(a) == [x \in Lines |-> IF x = a THEN EmptyLine ELSE line[x]]
ReceiptsWithout(a) == [x \in Receipts |-> IF x = a THEN EmptyReceipt ELSE receipt[x]]

\* The pools that lose an account when address a is packed as another type.
Losing(a) ==
    {p \in Pools : \/ p = a /\ Initialized(pool[p])
                   \/ a \in Lines /\ Initialized(line[a]) /\ line[a].pool = p}

ActivePool(p) == pool[p].status = "Active"

\* Slips: a closed, or a paused, line is taken for an active one.
ClosedIsActive(l) == line[l].status \in {"Active", "Closed"}
PausedIsActive(l) == line[l].status \in {"Active", "Paused"}

ActiveLine(l) == line[l].status = "Active"

\* Slip: the authorities are compared, the pool's address is not.
LineOfSomePool(p, l) ==
    /\ line[l].underwriter = pool[p].underwriter
    /\ line[l].auditor = pool[p].auditor
    /\ line[l].terms = pool[p].terms

LineInPool(p, l) ==
    /\ line[l].pool = p
    /\ line[l].underwriter = pool[p].underwriter
    /\ line[l].auditor = pool[p].auditor
    /\ line[l].terms = pool[p].terms

\* The debt of a line: what was drawn and neither repaid nor written off.
Outstanding(l) == line[l].drawn - line[l].repaid - line[l].defaulted

\* outstanding_notes subtracts twice, and each subtraction may underflow.
OutstandingDefined(l) ==
    /\ line[l].repaid <= line[l].drawn
    /\ line[l].defaulted <= line[l].drawn - line[l].repaid

\* Slips: a line may outlive its pool; a pool may be handed out beyond its limit.
FitsPoolLimit(p, limit, maturity) ==
    /\ pool[p].allocated + limit <= MaxU32
    /\ pool[p].allocated + limit <= pool[p].totalLimit
FitsPoolMaturity(p, limit, maturity) == maturity <= pool[p].maturity

\* What approve_credit_line asks of a new line's limit and maturity.
FitsPool(p, limit, maturity) ==
    /\ maturity <= pool[p].maturity
    /\ pool[p].allocated + limit <= MaxU32
    /\ pool[p].allocated + limit <= pool[p].totalLimit

-----------------------------------------------------------------------------
(* The instructions. *)

\* The address may be in use as a line or a receipt, which is then gone.
InitializePool(p, underwriter, auditor, terms, totalLimit, maturity) ==
    /\ ~Initialized(pool[p])
    /\ underwriter # ZeroKey /\ auditor # ZeroKey
    /\ totalLimit > 0
    /\ maturity # 0
    /\ pool' = [pool EXCEPT ![p] =
                  [EmptyPool EXCEPT !.status = "Active",
                                    !.underwriter = underwriter,
                                    !.auditor = auditor,
                                    !.terms = terms,
                                    !.totalLimit = totalLimit,
                                    !.maturity = maturity]]
    /\ line' = LinesWithout(p)
    /\ receipt' = ReceiptsWithout(p)
    /\ spoilt' = spoilt \cup Losing(p)

\* The line's address may be in use as a receipt or as another pool.
ApproveCreditLine(signer, p, l, borrower, limit, opened, maturity) ==
    /\ p # l
    /\ ~Initialized(line[l])
    /\ borrower # ZeroKey
    /\ limit > 0
    /\ ActivePool(p)
    /\ signer = pool[p].underwriter
    /\ opened < maturity
    /\ FitsPool(p, limit, maturity)
    /\ pool' = [PoolsWithout(l) EXCEPT ![p].allocated = @ + limit]
    /\ line' = [line EXCEPT ![l] =
                  [status |-> "Active", pool |-> p, borrower |-> borrower,
                   underwriter |-> pool[p].underwriter,
                   auditor |-> pool[p].auditor, terms |-> pool[p].terms,
                   limit |-> limit, drawn |-> 0, repaid |-> 0, defaulted |-> 0,
                   maturity |-> maturity, lastReceipt |-> opened]]
    /\ receipt' = ReceiptsWithout(l)
    /\ spoilt' = spoilt \cup Losing(l)

\* `current` is the instruction's current_slot argument: whatever the caller
\* puts there, related to the chain's slot or not.
DrawTranche(signer, p, l, notes, current) ==
    /\ p # l
    /\ notes > 0
    /\ ActivePool(p)
    /\ ActiveLine(l)
    /\ LineInPool(p, l)
    /\ signer = line[l].borrower
    /\ current < line[l].maturity
    /\ line[l].drawn + notes <= MaxU32
    /\ line[l].drawn + notes <= line[l].limit
    /\ pool[p].drawn + notes <= MaxU32
    /\ pool[p].outstanding + notes <= MaxU32
    /\ line' = [line EXCEPT ![l].drawn = @ + notes]
    /\ pool' = [pool EXCEPT ![p].drawn = @ + notes,
                            ![p].outstanding = @ + notes]
    /\ UNCHANGED <<receipt, spoilt>>

\* Slip: the pool's outstanding counter is forgotten.
RepayLineOnly(signer, p, l, notes) ==
    /\ notes > 0
    /\ ActivePool(p) /\ ActiveLine(l) /\ LineInPool(p, l)
    /\ signer = line[l].borrower
    /\ notes <= Outstanding(l)
    /\ line' = [line EXCEPT
                  ![l].repaid = @ + notes,
                  ![l].status = IF notes = Outstanding(l) THEN "Closed" ELSE @]
    /\ pool' = [pool EXCEPT ![p].repaid = @ + notes]
    /\ UNCHANGED <<receipt, spoilt>>

\* A repayment that brings the debt to zero closes the line, unused limit or
\* not, before or after maturity.
RepayTranche(signer, p, l, notes) ==
    /\ p # l
    /\ notes > 0
    /\ ActivePool(p)
    /\ ActiveLine(l)
    /\ LineInPool(p, l)
    /\ signer = line[l].borrower
    /\ OutstandingDefined(l)
    /\ notes <= Outstanding(l)
    /\ line[l].repaid + notes <= MaxU32
    /\ pool[p].repaid + notes <= MaxU32
    /\ notes <= pool[p].outstanding
    /\ line' = [line EXCEPT
                  ![l].repaid = @ + notes,
                  ![l].status = IF notes = Outstanding(l) THEN "Closed" ELSE @]
    /\ pool' = [pool EXCEPT ![p].repaid = @ + notes,
                            ![p].outstanding = @ - notes]
    /\ UNCHANGED <<receipt, spoilt>>

\* No check of the line's status, nor of accepted against lastReceipt.
\* The receipt's address may be in use as a pool or as another line.
PostReceipt(signer, l, r, start, end, accepted) ==
    /\ l # r
    /\ receipt[r] = EmptyReceipt
    /\ Initialized(line[l])
    /\ signer \in {line[l].auditor, line[l].underwriter}
    /\ start # 0
    /\ start <= end
    /\ end <= accepted
    /\ receipt' = [receipt EXCEPT ![r] =
                     [line |-> l, signer |-> signer, start |-> start,
                      end |-> end, accepted |-> accepted]]
    /\ line' = [LinesWithout(r) EXCEPT ![l].lastReceipt = accepted]
    /\ pool' = PoolsWithout(r)
    /\ spoilt' = spoilt \cup Losing(r)

\* settle_maturity of a line with no debt: only its status is written.
SettleClean(p, l, current) ==
    /\ p # l
    /\ ActivePool(p)
    /\ Initialized(line[l])
    /\ LineInPool(p, l)
    /\ current > line[l].maturity
    /\ OutstandingDefined(l)
    /\ Outstanding(l) = 0
    /\ line' = [line EXCEPT ![l].status = "Closed"]
    /\ UNCHANGED <<pool, receipt, spoilt>>

\* settle_maturity of a line that still owes: the debt is written off.
SettleDefault(p, l, current) ==
    /\ p # l
    /\ ActivePool(p)
    /\ Initialized(line[l])
    /\ LineInPool(p, l)
    /\ current > line[l].maturity
    /\ OutstandingDefined(l)
    /\ Outstanding(l) > 0
    /\ line[l].defaulted + Outstanding(l) <= MaxU32
    /\ pool[p].defaulted + Outstanding(l) <= MaxU32
    /\ Outstanding(l) <= pool[p].outstanding
    /\ line' = [line EXCEPT ![l].defaulted = @ + Outstanding(l),
                            ![l].status = "Defaulted"]
    /\ pool' = [pool EXCEPT ![p].defaulted = @ + Outstanding(l),
                            ![p].outstanding = @ - Outstanding(l)]
    /\ UNCHANGED <<receipt, spoilt>>

\* Anyone may send it; at or before maturity it returns Ok and writes nothing.
SettleMaturity(p, l, current) ==
    SettleClean(p, l, current) \/ SettleDefault(p, l, current)

\* Slip: unpausing does not ask what it unpauses.
PauseFromAny(signer, l, target) ==
    /\ Initialized(line[l])
    /\ signer = line[l].underwriter
    /\ target \in {"Active", "Paused"}
    /\ line' = [line EXCEPT ![l].status = target]
    /\ UNCHANGED <<pool, receipt, spoilt>>

PauseLine(signer, l, target) ==
    /\ Initialized(line[l])
    /\ signer = line[l].underwriter
    /\ \/ target = "Paused" /\ line[l].status = "Active"
       \/ target = "Active" /\ line[l].status = "Paused"
    /\ line' = [line EXCEPT ![l].status = target]
    /\ UNCHANGED <<pool, receipt, spoilt>>

Next ==
    \/ \E p \in Pools, u \in Underwriters \cup {ZeroKey},
          a \in Auditors \cup {ZeroKey}, t \in Terms, n \in U32, m \in Slots :
          InitializePool(p, u, a, t, n, m)
    \/ \E k \in Keys, p \in Pools, l \in Lines, b \in Borrowers \cup {ZeroKey},
          n \in U32, o \in Slots, m \in Slots :
          ApproveCreditLine(k, p, l, b, n, o, m)
    \/ \E k \in Keys, p \in Pools, l \in Lines, n \in U32, c \in Slots :
          DrawTranche(k, p, l, n, c)
    \/ \E k \in Keys, p \in Pools, l \in Lines, n \in U32 :
          RepayTranche(k, p, l, n)
    \/ \E k \in Keys, l \in Lines, r \in Receipts, s, e, a \in Slots :
          PostReceipt(k, l, r, s, e, a)
    \/ \E p \in Pools, l \in Lines, c \in Slots : SettleMaturity(p, l, c)
    \/ \E k \in Keys, l \in Lines, t \in LineStatus : PauseLine(k, l, t)

Spec == Init /\ [][Next]_vars

-----------------------------------------------------------------------------
(* What the program promises. *)

\* Every account holds values its layout can represent: in particular no u32
\* counter of a pool or a line ever wraps below zero or above MaxU32.
TypeOK ==
    /\ pool \in [Pools -> PoolAccount]
    /\ line \in [Lines -> CreditLineAccount]
    /\ receipt \in [Receipts -> ReceiptAccount]
    /\ spoilt \subseteq Pools

\* Each note of a line is counted once: what is repaid and what is written off
\* are parts of what was drawn, which never exceeds the approved limit, over
\* any mix of draws, repayments, settlements and pauses, and whatever account
\* is taken for another.
LineWithinLimit ==
    \A l \in Lines :
        /\ OutstandingDefined(l)
        /\ line[l].drawn <= line[l].limit

\* A pool's outstanding counter, which three instructions update on its own,
\* always equals drawn minus repaid minus defaulted of the same account.
PoolConserved ==
    \A p \in Pools :
        pool[p].outstanding = pool[p].drawn - pool[p].repaid - pool[p].defaulted

\* A line that is closed or defaulted owes nothing more: repay_tranche and
\* settle_maturity write the status and the counters in the same step.
SettledLinesOweNothing ==
    \A l \in Lines :
        line[l].status \in {"Closed", "Defaulted"} => Outstanding(l) = 0

\* The two of them: the counters of a line tell its debt, in every state of its life.
LineAccounting == LineWithinLimit /\ SettledLinesOweNothing

\* The pool of l exists and lost no account: what l and its pool say of each other
\* can be relied on.
Unspoilt(l) == Initialized(line[l]) /\ line[l].pool \notin spoilt

\* A line carries the identity, the authorities and the terms of its pool for
\* its whole life, so ensure_line_in_pool never locks an honest line out.  The
\* program keeps this only as long as no account of the pool is taken for
\* another type, which no handler refuses; a spoilt pool's lines are locked out.
LineMatchesPool ==
    \A l \in Lines :
        /\ Initialized(line[l]) => line[l].pool \in Pools
        /\ Unspoilt(l) =>
            /\ ActivePool(line[l].pool)
            /\ LineInPool(line[l].pool, l)
            /\ line[l].maturity <= pool[line[l].pool].maturity

LinesOf(p) == {l \in Lines : line[l].pool = p}

\* The counters of the lines, each as a function of the address.
Limits == [l \in Lines |-> line[l].limit]
Draws == [l \in Lines |-> line[l].drawn]
Repayments == [l \in Lines |-> line[l].repaid]
Losses == [l \in Lines |-> line[l].defaulted]

\* The pool's counters are the sums of its lines' counters: no instruction
\* updates one account of the pair and forgets, or misroutes, the other.  Pools
\* that lost an account are left out: they count notes nobody owes any more.
PoolIsSumOfLines ==
    \A p \in Pools \ spoilt :
        /\ pool[p].allocated = SumFunctionOnSet(Limits, LinesOf(p))
        /\ pool[p].drawn = SumFunctionOnSet(Draws, LinesOf(p))
        /\ pool[p].repaid = SumFunctionOnSet(Repayments, LinesOf(p))
        /\ pool[p].defaulted = SumFunctionOnSet(Losses, LinesOf(p))

\* The underwriter cannot hand out more than the pool's limit, and what the
\* lines of the pool ever drew stays within what was handed out.
PoolWithinLimit ==
    \A p \in Pools \ spoilt :
        /\ pool[p].drawn <= pool[p].allocated
        /\ pool[p].allocated <= pool[p].totalLimit

\* The two of them: a pool that lost no account adds its lines up, and they stay
\* within its limit.
PoolAccounting == PoolIsSumOfLines /\ PoolWithinLimit

\* The checked arithmetic of repay_tranche and settle_maturity never turns a
\* legal call down: a borrower can always repay all of a debt, and a debt past
\* maturity can always be written off, whatever the other lines did before, as
\* long as the pool lost no account (then the debt may stay for good).
DebtCanAlwaysLeave ==
    \A l \in Lines :
        Unspoilt(l) =>
            LET p == line[l].pool IN
            /\ Outstanding(l) <= pool[p].outstanding
            /\ line[l].repaid + Outstanding(l) <= MaxU32
            /\ pool[p].repaid + Outstanding(l) <= MaxU32
            /\ line[l].defaulted + Outstanding(l) <= MaxU32
            /\ pool[p].defaulted + Outstanding(l) <= MaxU32

\* No instruction takes a note back out of a counter: draws, repayments and
\* write-offs only accumulate, on the line and on its pool, and capacity that
\* was allocated is not handed out again.  An account that a step takes for
\* another type is no line or pool any more, and its counters are gone.
CountersOnlyGrow ==
    [][/\ \A l \in Lines :
            Initialized(line'[l]) =>
                /\ line[l].drawn <= line'[l].drawn
                /\ line[l].repaid <= line'[l].repaid
                /\ line[l].defaulted <= line'[l].defaulted
       /\ \A p \in Pools :
            Initialized(pool'[p]) =>
                /\ pool[p].allocated <= pool'[p].allocated
                /\ pool[p].drawn <= pool'[p].drawn
                /\ pool[p].repaid <= pool'[p].repaid
                /\ pool[p].defaulted <= pool'[p].defaulted]_vars

\* The account of l is taken for another type in this step; its pool, if it was
\* sound, is spoilt with it.
Taken(l) == ~Initialized(line'[l]) /\ line[l].pool \in spoilt'

\* Once a line is closed or defaulted it is over: it never becomes active or
\* paused again and its counters stay as they are, whoever sends what, as long
\* as its account is not taken for another type (it could be approved again).
SettledLinesAreFrozen ==
    [][\A l \in Lines :
         line[l].status \in {"Closed", "Defaulted"} =>
            \/ Taken(l)
            \/ /\ line'[l].status \in {"Closed", "Defaulted"}
               /\ line'[l].drawn = line[l].drawn
               /\ line'[l].repaid = line[l].repaid
               /\ line'[l].defaulted = line[l].defaulted]_vars

\* While a line is paused the borrower can neither draw nor repay; only the
\* settlement of its maturity may still move its counters, unless the account
\* is taken for another type.
PausedLinesOnlySettle ==
    [][\A l \in Lines :
         line[l].status = "Paused" =>
            \/ Taken(l)
            \/ /\ line'[l].drawn = line[l].drawn
               /\ line'[l].repaid = line[l].repaid
               /\ line'[l].defaulted # line[l].defaulted
                     => line'[l].status = "Defaulted"]_vars

\* The two of them: a line that is not active waits for its settlement, or is over.
StoppedLinesWait == SettledLinesAreFrozen /\ PausedLinesOnlySettle

-----------------------------------------------------------------------------
(* The program implements the ledger.  Pauses and receipts do not show in   *)
(* it, and neither does settling a line that is already settled.  A pool    *)
(* that is spoilt is one the ledger gave up, with its lines.                *)

InBooks(l) == IF line[l].pool \in spoilt THEN EmptyLine ELSE line[l]

Ledger == INSTANCE NoteLedger WITH
    NoPool <- ZeroKey,
    Notes <- U32,
    home <- [l \in Lines |-> InBooks(l).pool],
    unused <- [l \in Lines |-> InBooks(l).limit - InBooks(l).drawn],
    owed <- [l \in Lines |->
               InBooks(l).drawn - InBooks(l).repaid - InBooks(l).defaulted],
    over <- [l \in Lines |-> InBooks(l).status \in {"Closed", "Defaulted"}],
    exposure <- [p \in Pools |-> IF p \in spoilt THEN 0 ELSE pool[p].outstanding],
    lost <- spoilt

\* Every behaviour of the program is one of the ledger: each instruction is one
\* ledger operation or none, and taking an account for another type gives up
\* the pool it belonged to and no other.
ImplementsLedger == Ledger!Spec

=============================================================================
