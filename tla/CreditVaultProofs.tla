-------------------------- MODULE CreditVaultProofs --------------------------
(***************************************************************************)
(* Theorems about the credit-vault program, for any sets of pools, lines,  *)
(* receipts and keys and any u32 and slot bounds, and whichever addresses  *)
(* have room for several types of account.                                 *)
(***************************************************************************)
EXTENDS CreditVault, FiniteSums, TLAPS

-----------------------------------------------------------------------------
(* Types of the pieces the handlers compute with. *)

\* An account that was never packed has the fields of one that was.
LEMMA EmptyAccountsTyped ==
    /\ EmptyPool \in PoolAccount
    /\ EmptyLine \in CreditLineAccount
    /\ EmptyReceipt \in ReceiptAccount
  BY BoundsAssumption
  DEF EmptyPool, PoolAccount, PoolStatus, EmptyLine, CreditLineAccount,
      LineStatus, EmptyReceipt, ReceiptAccount, U32, Slots

\* What can be used of a line account once TypeOK is known.
LEMMA LineFields ==
    ASSUME TypeOK, NEW l \in Lines
    PROVE  /\ line[l] \in CreditLineAccount
           /\ line[l].limit \in U32 /\ line[l].drawn \in U32
           /\ line[l].repaid \in U32 /\ line[l].defaulted \in U32
           /\ Outstanding(l) \in Int
  BY BoundsAssumption DEF TypeOK, CreditLineAccount, U32, Outstanding

\* The counters of a pool are u32 numbers.
LEMMA PoolFields ==
    ASSUME TypeOK, NEW p \in Pools
    PROVE  /\ pool[p] \in PoolAccount
           /\ pool[p].totalLimit \in U32 /\ pool[p].allocated \in U32
           /\ pool[p].outstanding \in U32 /\ pool[p].drawn \in U32
           /\ pool[p].repaid \in U32 /\ pool[p].defaulted \in U32
  BY BoundsAssumption DEF TypeOK, PoolAccount, U32

\* The other readings of an account that is packed as one type: empty at its
\* address, as they were elsewhere.
LEMMA OtherReadings ==
    ASSUME TypeOK, NEW a
    PROVE  /\ PoolsWithout(a) \in [Pools -> PoolAccount]
           /\ LinesWithout(a) \in [Lines -> CreditLineAccount]
           /\ ReceiptsWithout(a) \in [Receipts -> ReceiptAccount]
           /\ \A p \in Pools :
                PoolsWithout(a)[p] = IF p = a THEN EmptyPool ELSE pool[p]
           /\ \A l \in Lines :
                LinesWithout(a)[l] = IF l = a THEN EmptyLine ELSE line[l]
           /\ Losing(a) \subseteq Pools
  <1>1. PoolsWithout(a) \in [Pools -> PoolAccount]
    BY EmptyAccountsTyped DEF TypeOK, PoolsWithout
  <1>2. LinesWithout(a) \in [Lines -> CreditLineAccount]
    BY EmptyAccountsTyped DEF TypeOK, LinesWithout
  <1>3. ReceiptsWithout(a) \in [Receipts -> ReceiptAccount]
    BY EmptyAccountsTyped DEF TypeOK, ReceiptsWithout
  <1> QED BY <1>1, <1>2, <1>3 DEF PoolsWithout, LinesWithout, Losing

\* The history only grows.
LEMMA SpoiltGrows == [Next]_vars => spoilt \subseteq spoilt'
  <1> SUFFICES ASSUME [Next]_vars
               PROVE  \E S : spoilt' = spoilt \cup S
    OBVIOUS
  <1>1. ASSUME UNCHANGED spoilt PROVE spoilt' = spoilt \cup {}
    BY <1>1
  <1>2. ASSUME NEW p, NEW u, NEW a, NEW t, NEW n, NEW m,
               InitializePool(p, u, a, t, n, m)
        PROVE  spoilt' = spoilt \cup Losing(p)
    BY <1>2 DEF InitializePool
  <1>3. ASSUME NEW k, NEW p, NEW l, NEW b, NEW n, NEW o, NEW m,
               ApproveCreditLine(k, p, l, b, n, o, m)
        PROVE  spoilt' = spoilt \cup Losing(l)
    BY <1>3 DEF ApproveCreditLine
  <1>4. ASSUME NEW k, NEW l, NEW r, NEW s, NEW e, NEW a, PostReceipt(k, l, r, s, e, a)
        PROVE  spoilt' = spoilt \cup Losing(r)
    BY <1>4 DEF PostReceipt
  <1>5. ASSUME NEW k, NEW p, NEW l, NEW n, NEW c,
               \/ DrawTranche(k, p, l, n, c) \/ RepayTranche(k, p, l, n)
               \/ SettleMaturity(p, l, c) \/ PauseLine(k, l, c)
        PROVE  UNCHANGED spoilt
    BY <1>5, Zenon DEF DrawTranche, RepayTranche, SettleMaturity, SettleClean,
                       SettleDefault, PauseLine
  <1>6. CASE UNCHANGED vars
    BY <1>1, <1>6 DEF vars
  <1>7. CASE Next
    <2>1. CASE \E p \in Pools, u \in Underwriters \cup {ZeroKey},
                 a \in Auditors \cup {ZeroKey}, t \in Terms, n \in U32, m \in Slots :
                 InitializePool(p, u, a, t, n, m)
      BY <1>2, <2>1
    <2>2. CASE \E k \in Keys, p \in Pools, l \in Lines, b \in Borrowers \cup {ZeroKey},
                 n \in U32, o \in Slots, m \in Slots :
                 ApproveCreditLine(k, p, l, b, n, o, m)
      BY <1>3, <2>2
    <2>3. CASE \E k \in Keys, l \in Lines, r \in Receipts, s, e, a \in Slots :
                 PostReceipt(k, l, r, s, e, a)
      BY <1>4, <2>3
    <2>4. CASE UNCHANGED spoilt
      BY <1>1, <2>4
    <2> QED BY <1>5, <1>7, <2>1, <2>2, <2>3, <2>4, Zenon DEF Next
  <1> QED BY <1>6, <1>7

\* A pool that is not spoilt by taking address a has neither its own account nor
\* one of its lines there.
LEMMA UnspoiltIsElsewhere ==
    ASSUME NEW a, NEW q \in Pools, q \notin Losing(a)
    PROVE  /\ Initialized(pool[q]) => q # a
           /\ \A l \in Lines : Initialized(line[l]) /\ line[l].pool = q => l # a
  BY DEF Losing

-----------------------------------------------------------------------------
(* Type correctness: no counter of an account ever leaves the u32 range.    *)

\* The accounts have their types at first.
LEMMA TypeOKInit == Init => TypeOK
  BY EmptyAccountsTyped DEF Init, TypeOK

\* Every instruction keeps them.
LEMMA TypeOKNext == TypeOK /\ [Next]_vars => TypeOK'
  <1> SUFFICES ASSUME TypeOK, [Next]_vars PROVE TypeOK'
    OBVIOUS
  <1> USE BoundsAssumption DEF U32, Slots
  <1>1. ASSUME NEW p \in Pools, NEW u \in Underwriters \cup {ZeroKey},
               NEW a \in Auditors \cup {ZeroKey}, NEW t \in Terms,
               NEW n \in U32, NEW m \in Slots,
               InitializePool(p, u, a, t, n, m)
        PROVE  TypeOK'
    <2>1. pool' \in [Pools -> PoolAccount]
      BY <1>1, EmptyAccountsTyped
      DEF InitializePool, TypeOK, PoolAccount, PoolStatus, Keys, EmptyPool
    <2> QED BY <1>1, <2>1, OtherReadings DEF InitializePool, TypeOK
  <1>2. ASSUME NEW k \in Keys, NEW p \in Pools, NEW l \in Lines,
               NEW b \in Borrowers \cup {ZeroKey},
               NEW n \in U32, NEW o \in Slots, NEW m \in Slots,
               ApproveCreditLine(k, p, l, b, n, o, m)
        PROVE  TypeOK'
    <2>1. pool' \in [Pools -> PoolAccount]
      <3>1. PoolsWithout(l)[p] = pool[p]
        BY <1>2, OtherReadings DEF ApproveCreditLine
      <3>2. pool[p].allocated + n \in U32
        BY <1>2, PoolFields DEF ApproveCreditLine, FitsPool
      <3>3. [pool[p] EXCEPT !.allocated = @ + n] \in PoolAccount
        BY <3>2, PoolFields DEF PoolAccount
      <3> QED BY <1>2, <3>1, <3>3, OtherReadings DEF ApproveCreditLine
    <2>2. line' \in [Lines -> CreditLineAccount]
      BY <1>2, PoolFields
      DEF ApproveCreditLine, TypeOK, PoolAccount, CreditLineAccount, LineStatus, Keys
    <2> QED BY <1>2, <2>1, <2>2, OtherReadings DEF ApproveCreditLine, TypeOK
  <1>3. ASSUME NEW k \in Keys, NEW p \in Pools, NEW l \in Lines,
               NEW n \in U32, NEW c \in Slots,
               DrawTranche(k, p, l, n, c)
        PROVE  TypeOK'
    <2>1. pool' \in [Pools -> PoolAccount]
      BY <1>3, PoolFields DEF DrawTranche, TypeOK, PoolAccount
    <2>2. line' \in [Lines -> CreditLineAccount]
      BY <1>3, LineFields DEF DrawTranche, TypeOK, CreditLineAccount
    <2> QED BY <1>3, <2>1, <2>2 DEF DrawTranche, TypeOK
  <1>4. ASSUME NEW k \in Keys, NEW p \in Pools, NEW l \in Lines, NEW n \in U32,
               RepayTranche(k, p, l, n)
        PROVE  TypeOK'
    <2>1. pool' \in [Pools -> PoolAccount]
      BY <1>4, PoolFields DEF RepayTranche, TypeOK, PoolAccount
    <2>2. line' \in [Lines -> CreditLineAccount]
      <3> DEFINE status == IF n = Outstanding(l) THEN "Closed" ELSE line[l].status
      <3>1. line[l].repaid + n \in U32
        BY <1>4, LineFields DEF RepayTranche
      <3>2. status \in LineStatus
        BY LineFields DEF CreditLineAccount, LineStatus
      <3>3. [line[l] EXCEPT !.repaid = @ + n, !.status = status] \in CreditLineAccount
        BY <3>1, <3>2, LineFields DEF CreditLineAccount
      <3> QED BY <1>4, <3>3 DEF RepayTranche, TypeOK
    <2> QED BY <1>4, <2>1, <2>2 DEF RepayTranche, TypeOK
  <1>5. ASSUME NEW k \in Keys, NEW l \in Lines, NEW r \in Receipts,
               NEW s \in Slots, NEW e \in Slots, NEW a \in Slots,
               PostReceipt(k, l, r, s, e, a)
        PROVE  TypeOK'
    <2>1. line' \in [Lines -> CreditLineAccount]
      BY <1>5, OtherReadings DEF PostReceipt, CreditLineAccount
    <2>2. receipt' \in [Receipts -> ReceiptAccount]
      <3>1. [line |-> l, signer |-> k, start |-> s, end |-> e, accepted |-> a]
              \in ReceiptAccount
        BY DEF ReceiptAccount
      <3> QED BY <1>5, <3>1 DEF PostReceipt, TypeOK
    <2> QED BY <1>5, <2>1, <2>2, OtherReadings DEF PostReceipt, TypeOK
  <1>6. ASSUME NEW p \in Pools, NEW l \in Lines, NEW c \in Slots,
               SettleMaturity(p, l, c)
        PROVE  TypeOK'
    <2>1. CASE SettleClean(p, l, c)
      BY <2>1, SMTT(30) DEF SettleClean, TypeOK, CreditLineAccount, LineStatus
    <2>2. CASE SettleDefault(p, l, c)
      <3>1. pool' \in [Pools -> PoolAccount]
        BY <2>2, PoolFields, LineFields DEF SettleDefault, TypeOK, PoolAccount
      <3>2. line' \in [Lines -> CreditLineAccount]
        <4>1. line[l].defaulted + Outstanding(l) \in U32
          BY <2>2, LineFields DEF SettleDefault
        <4>2. [line[l] EXCEPT !.defaulted = @ + Outstanding(l), !.status = "Defaulted"]
                \in CreditLineAccount
          BY <4>1, LineFields, ZenonT(60) DEF CreditLineAccount, LineStatus
        <4> QED BY <2>2, <4>2 DEF SettleDefault, TypeOK
      <3> QED BY <2>2, <3>1, <3>2 DEF SettleDefault, TypeOK
    <2> QED BY <1>6, <2>1, <2>2 DEF SettleMaturity
  <1>7. ASSUME NEW k \in Keys, NEW l \in Lines, NEW t \in LineStatus,
               PauseLine(k, l, t)
        PROVE  TypeOK'
    BY <1>7 DEF PauseLine, TypeOK, CreditLineAccount
  <1>8. CASE UNCHANGED vars
    BY <1>8 DEF vars, TypeOK
  <1> QED
    BY <1>1, <1>2, <1>3, <1>4, <1>5, <1>6, <1>7, <1>8 DEF Next

\* Every account keeps values of its layout: the checked additions and
\* subtractions of the handlers are enough to keep each counter a u32.
THEOREM TypeCorrect == Spec => []TypeOK
  BY TypeOKInit, TypeOKNext, PTL DEF Spec

-----------------------------------------------------------------------------
(* A line account changes in one of five ways.  The proofs below need what   *)
(* a step does to one line, not which keys and slots it was sent with.       *)

\* l is approved on p.
LineOpens(p, l) ==
    /\ ~Initialized(line[l])
    /\ ActivePool(p)
    /\ line'[l].status = "Active"
    /\ line'[l].pool = p
    /\ line'[l].underwriter = pool[p].underwriter
    /\ line'[l].auditor = pool[p].auditor
    /\ line'[l].terms = pool[p].terms
    /\ line'[l].maturity <= pool[p].maturity
    /\ line'[l].limit \in U32
    /\ line'[l].drawn = 0 /\ line'[l].repaid = 0 /\ line'[l].defaulted = 0

\* What never changes in the life of an initialized line.
SameIdentity(l) ==
    /\ line'[l].pool = line[l].pool
    /\ line'[l].underwriter = line[l].underwriter
    /\ line'[l].auditor = line[l].auditor
    /\ line'[l].terms = line[l].terms
    /\ line'[l].limit = line[l].limit
    /\ line'[l].maturity = line[l].maturity

SameCounters(l) ==
    /\ line'[l].drawn = line[l].drawn
    /\ line'[l].repaid = line[l].repaid
    /\ line'[l].defaulted = line[l].defaulted

\* n notes move on l: drawn, repaid or written off.
LineMoves(l, n) ==
    \/ /\ ActiveLine(l)
       /\ n > 0 /\ line[l].drawn + n <= line[l].limit
       /\ line'[l].status = "Active"
       /\ line'[l].drawn = line[l].drawn + n
       /\ line'[l].repaid = line[l].repaid
       /\ line'[l].defaulted = line[l].defaulted
    \/ /\ ActiveLine(l)
       /\ n > 0 /\ n <= Outstanding(l)
       /\ line'[l].status = IF n = Outstanding(l) THEN "Closed" ELSE "Active"
       /\ line'[l].drawn = line[l].drawn
       /\ line'[l].repaid = line[l].repaid + n
       /\ line'[l].defaulted = line[l].defaulted
    \/ /\ Initialized(line[l])
       /\ n > 0 /\ n = Outstanding(l)
       /\ line'[l].status = "Defaulted"
       /\ line'[l].drawn = line[l].drawn
       /\ line'[l].repaid = line[l].repaid
       /\ line'[l].defaulted = line[l].defaulted + n

\* Only the status moves, and only along the edges of pause_line and of the
\* settlement of a line without debt.
LineTurns(l) ==
    /\ SameCounters(l)
    /\ \/ line[l].status = "Active" /\ line'[l].status = "Paused"
       \/ line[l].status = "Paused" /\ line'[l].status = "Active"
       \/ /\ Initialized(line[l])
          /\ Outstanding(l) = 0
          /\ line'[l].status = "Closed"

\* The account is packed as another type, or was empty and still is.
LineTaken(l) ==
    /\ line'[l] = EmptyLine
    /\ \A q \in Pools : Initialized(line[l]) /\ line[l].pool = q => q \in spoilt'

LineStep(l) ==
    \/ LineTaken(l)
    \/ \E p \in Pools : LineOpens(p, l)
    \/ SameIdentity(l) /\ \E n \in U32 : LineMoves(l, n)
    \/ SameIdentity(l) /\ LineTurns(l)
    \/ SameIdentity(l) /\ SameCounters(l) /\ line'[l].status = line[l].status

\* What a step may do to a line.
LEMMA NextIsLineStep ==
    ASSUME TypeOK, [Next]_vars, NEW l \in Lines
    PROVE  LineStep(l)
  <1> USE BoundsAssumption DEF U32, Slots, TypeOK, CreditLineAccount
  <1>1. ASSUME NEW p \in Pools, NEW u \in Underwriters \cup {ZeroKey},
               NEW a \in Auditors \cup {ZeroKey}, NEW t \in Terms,
               NEW n \in U32, NEW m \in Slots,
               InitializePool(p, u, a, t, n, m)
        PROVE  LineStep(l)
    <2>1. CASE l = p
      BY <1>1, <2>1, OtherReadings DEF InitializePool, LineStep, LineTaken, Losing
    <2>2. CASE l # p
      BY <1>1, <2>2, OtherReadings
      DEF InitializePool, LineStep, SameIdentity, SameCounters
    <2> QED BY <2>1, <2>2
  <1>2. ASSUME NEW k \in Keys, NEW p \in Pools, NEW x \in Lines,
               NEW b \in Borrowers \cup {ZeroKey},
               NEW n \in U32, NEW o \in Slots, NEW m \in Slots,
               ApproveCreditLine(k, p, x, b, n, o, m)
        PROVE  LineStep(l)
    <2>1. CASE x = l
      <3>1. LineOpens(p, l)
        BY <1>2, <2>1 DEF ApproveCreditLine, FitsPool, LineOpens
      <3> QED BY <3>1 DEF LineStep
    <2>2. CASE x # l
      BY <1>2, <2>2 DEF ApproveCreditLine, FitsPool, LineStep, SameIdentity, SameCounters
    <2> QED BY <2>1, <2>2
  <1>3. ASSUME NEW k \in Keys, NEW p \in Pools, NEW x \in Lines,
               NEW n \in U32, NEW c \in Slots,
               DrawTranche(k, p, x, n, c)
        PROVE  LineStep(l)
    <2>1. CASE x = l
      <3>1. SameIdentity(l) /\ LineMoves(l, n)
        BY <1>3, <2>1 DEF DrawTranche, ActiveLine, SameIdentity, LineMoves
      <3> QED BY <3>1 DEF LineStep
    <2>2. CASE x # l
      BY <1>3, <2>2 DEF DrawTranche, LineStep, SameIdentity, SameCounters
    <2> QED BY <2>1, <2>2
  <1>4. ASSUME NEW k \in Keys, NEW p \in Pools, NEW x \in Lines, NEW n \in U32,
               RepayTranche(k, p, x, n)
        PROVE  LineStep(l)
    <2>1. CASE x = l
      <3>1. SameIdentity(l) /\ LineMoves(l, n)
        BY <1>4, <2>1 DEF RepayTranche, ActiveLine, SameIdentity, LineMoves
      <3> QED BY <3>1 DEF LineStep
    <2>2. CASE x # l
      BY <1>4, <2>2 DEF RepayTranche, LineStep, SameIdentity, SameCounters
    <2> QED BY <2>1, <2>2
  <1>5. ASSUME NEW k \in Keys, NEW x \in Lines, NEW r \in Receipts,
               NEW s \in Slots, NEW e \in Slots, NEW a \in Slots,
               PostReceipt(k, x, r, s, e, a)
        PROVE  LineStep(l)
    <2>1. CASE l = r
      <3>1. line'[l] = EmptyLine
        BY <1>5, <2>1, OtherReadings DEF PostReceipt
      <3> QED BY <1>5, <2>1, <3>1 DEF PostReceipt, LineStep, LineTaken, Losing
    <2>2. CASE l # r
      <3>1. LinesWithout(r)[l] = line[l] /\ LinesWithout(r) \in [Lines -> CreditLineAccount]
        BY <2>2, OtherReadings
      <3> QED BY <1>5, <3>1 DEF PostReceipt, LineStep, SameIdentity, SameCounters
    <2> QED BY <2>1, <2>2
  <1>6. ASSUME NEW p \in Pools, NEW x \in Lines, NEW c \in Slots,
               SettleClean(p, x, c)
        PROVE  LineStep(l)
    <2>1. CASE x = l
      BY <1>6, <2>1
      DEF SettleClean, LineStep, SameIdentity, LineTurns, SameCounters
    <2>2. CASE x # l
      BY <1>6, <2>2 DEF SettleClean, LineStep, SameIdentity, SameCounters
    <2> QED BY <2>1, <2>2
  <1>7. ASSUME NEW p \in Pools, NEW x \in Lines, NEW c \in Slots,
               SettleDefault(p, x, c)
        PROVE  LineStep(l)
    <2>1. CASE x = l
      <3>1. Outstanding(l) \in U32
        BY <1>7, <2>1, LineFields DEF SettleDefault
      <3>2. SameIdentity(l) /\ LineMoves(l, Outstanding(l))
        BY <1>7, <2>1, <3>1 DEF SettleDefault, SameIdentity, LineMoves
      <3> QED BY <3>1, <3>2 DEF LineStep
    <2>2. CASE x # l
      BY <1>7, <2>2 DEF SettleDefault, LineStep, SameIdentity, SameCounters
    <2> QED BY <2>1, <2>2
  <1>8. ASSUME NEW k \in Keys, NEW x \in Lines, NEW t \in LineStatus,
               PauseLine(k, x, t)
        PROVE  LineStep(l)
    BY <1>8 DEF PauseLine, LineStep, SameIdentity, LineTurns, SameCounters
  <1>9. CASE UNCHANGED vars
    BY <1>9 DEF vars, LineStep, SameIdentity, SameCounters
  <1> QED
    BY <1>1, <1>2, <1>3, <1>4, <1>5, <1>6, <1>7, <1>8, <1>9
    DEF Next, SettleMaturity

-----------------------------------------------------------------------------
(* The accounting of the lines. *)

\* The counters of every line stay in order, and a settled line owes nothing.
\* Neither conjunct is preserved without the other facts of LineStep: a second
\* settlement of a defaulted line closes it because its debt is zero.
LEMMA LineAccountingInit == Init => LineAccounting
  BY DEF Init, EmptyLine, LineAccounting, LineWithinLimit, OutstandingDefined,
         SettledLinesOweNothing

\* Every instruction keeps the accounting of the lines.
LEMMA LineAccountingNext ==
    TypeOK /\ LineAccounting /\ [Next]_vars => LineAccounting'
  <1> SUFFICES ASSUME TypeOK, LineAccounting, [Next]_vars, NEW l \in Lines
               PROVE  /\ OutstandingDefined(l)'
                      /\ line'[l].drawn <= line'[l].limit
                      /\ line'[l].status \in {"Closed", "Defaulted"}
                            => Outstanding(l)' = 0
    BY DEF LineAccounting, LineWithinLimit, SettledLinesOweNothing
  <1> USE BoundsAssumption DEF U32, OutstandingDefined, Outstanding
  <1>1. /\ OutstandingDefined(l)
        /\ line[l].drawn <= line[l].limit
        /\ line[l].status \in {"Closed", "Defaulted"} => Outstanding(l) = 0
    BY DEF LineAccounting, LineWithinLimit, SettledLinesOweNothing
  <1>2. LineStep(l)
    BY NextIsLineStep
  <1>0. CASE LineTaken(l)
    BY <1>0 DEF LineTaken, EmptyLine
  <1>3. CASE \E p \in Pools : LineOpens(p, l)
    BY <1>3 DEF LineOpens
  <1>4. CASE SameIdentity(l) /\ \E n \in U32 : LineMoves(l, n)
    <2> PICK n \in U32 : LineMoves(l, n)
      BY <1>4
    <2> QED
      BY <1>1, <1>4, LineFields DEF LineMoves, SameIdentity, ActiveLine
  <1>5. CASE SameIdentity(l) /\ LineTurns(l)
    BY <1>1, <1>5 DEF LineTurns, SameIdentity, SameCounters
  <1>6. CASE SameIdentity(l) /\ SameCounters(l) /\ line'[l].status = line[l].status
    BY <1>1, <1>6 DEF SameIdentity, SameCounters
  <1> QED BY <1>0, <1>2, <1>3, <1>4, <1>5, <1>6 DEF LineStep

\* No order of instructions makes a line owe more than its limit, accounts for a
\* note twice, or leaves a debt on a line that is closed or defaulted.
THEOREM LinesAreAccounted == Spec => []LineAccounting
  BY TypeOKInit, TypeOKNext, LineAccountingInit, LineAccountingNext, PTL DEF Spec

-----------------------------------------------------------------------------
(* The accounting of the pools. *)

\* Every instruction keeps the accounting of the pools.
LEMMA PoolConservedNext ==
    TypeOK /\ PoolConserved /\ [Next]_vars => PoolConserved'
  <1> SUFFICES ASSUME TypeOK, PoolConserved, [Next]_vars, NEW q \in Pools
               PROVE  pool'[q].outstanding =
                        pool'[q].drawn - pool'[q].repaid - pool'[q].defaulted
    BY DEF PoolConserved
  <1> USE BoundsAssumption DEF U32, TypeOK, PoolAccount
  <1>0. pool[q].outstanding = pool[q].drawn - pool[q].repaid - pool[q].defaulted
    BY DEF PoolConserved
  <1>1. ASSUME NEW p \in Pools, NEW u, NEW a, NEW t, NEW n, NEW m,
               InitializePool(p, u, a, t, n, m)
        PROVE  pool'[q].outstanding =
                 pool'[q].drawn - pool'[q].repaid - pool'[q].defaulted
    BY <1>0, <1>1 DEF InitializePool, EmptyPool
  <1>2. ASSUME NEW k, NEW p \in Pools, NEW l, NEW b, NEW n, NEW o, NEW m,
               ApproveCreditLine(k, p, l, b, n, o, m)
        PROVE  pool'[q].outstanding =
                 pool'[q].drawn - pool'[q].repaid - pool'[q].defaulted
    <2>1. /\ PoolsWithout(l)[q] = IF q = l THEN EmptyPool ELSE pool[q]
          /\ PoolsWithout(l) \in [Pools -> PoolAccount]
      BY OtherReadings
    <2> QED BY <1>0, <1>2, <2>1 DEF ApproveCreditLine, EmptyPool
  <1>7. ASSUME NEW k, NEW l, NEW r, NEW s, NEW e, NEW a,
               PostReceipt(k, l, r, s, e, a)
        PROVE  pool'[q].outstanding =
                 pool'[q].drawn - pool'[q].repaid - pool'[q].defaulted
    BY <1>0, <1>7, OtherReadings DEF PostReceipt, EmptyPool
  <1>3. ASSUME NEW k, NEW p \in Pools, NEW l \in Lines, NEW n \in U32, NEW c,
               DrawTranche(k, p, l, n, c)
        PROVE  pool'[q].outstanding =
                 pool'[q].drawn - pool'[q].repaid - pool'[q].defaulted
    BY <1>0, <1>3, PoolFields DEF DrawTranche
  <1>4. ASSUME NEW k, NEW p \in Pools, NEW l \in Lines, NEW n \in U32,
               RepayTranche(k, p, l, n)
        PROVE  pool'[q].outstanding =
                 pool'[q].drawn - pool'[q].repaid - pool'[q].defaulted
    BY <1>0, <1>4, PoolFields DEF RepayTranche
  <1>5. ASSUME NEW p \in Pools, NEW l \in Lines, NEW c,
               SettleMaturity(p, l, c)
        PROVE  pool'[q].outstanding =
                 pool'[q].drawn - pool'[q].repaid - pool'[q].defaulted
    <2>1. CASE SettleClean(p, l, c)
      BY <1>0, <2>1 DEF SettleClean
    <2>2. CASE SettleDefault(p, l, c)
      BY <1>0, <2>2, PoolFields, LineFields DEF SettleDefault
    <2> QED BY <1>5, <2>1, <2>2 DEF SettleMaturity
  <1>6. CASE UNCHANGED pool
    BY <1>0, <1>6
  <1> QED
    BY <1>1, <1>2, <1>3, <1>4, <1>5, <1>6, <1>7
    DEF Next, PauseLine, vars

\* The outstanding counter of a pool never drifts from the three counters it
\* is made of.
THEOREM PoolsConserveNotes == Spec => []PoolConserved
  <1>1. Init => PoolConserved
    BY DEF Init, EmptyPool, PoolConserved
  <1> QED BY <1>1, TypeOKInit, TypeOKNext, PoolConservedNext, PTL DEF Spec

-----------------------------------------------------------------------------
(* Lines and their pools. *)

\* A pool is initialized once: nothing rewrites the terms of an active pool, unless
\* its account is taken for another type.
LEMMA ActivePoolIsStable ==
    ASSUME TypeOK, [Next]_vars, NEW q \in Pools, ActivePool(q), q \notin spoilt'
    PROVE  /\ pool'[q].status = "Active"
           /\ pool'[q].underwriter = pool[q].underwriter
           /\ pool'[q].auditor = pool[q].auditor
           /\ pool'[q].terms = pool[q].terms
           /\ pool'[q].maturity = pool[q].maturity
           /\ pool'[q].totalLimit = pool[q].totalLimit
  <1> DEFINE Stable == /\ pool'[q].status = "Active"
                       /\ pool'[q].underwriter = pool[q].underwriter
                       /\ pool'[q].auditor = pool[q].auditor
                       /\ pool'[q].terms = pool[q].terms
                       /\ pool'[q].maturity = pool[q].maturity
                       /\ pool'[q].totalLimit = pool[q].totalLimit
  <1> USE DEF TypeOK, PoolAccount, ActivePool
  <1>1. ASSUME NEW p \in Pools, NEW u, NEW a, NEW t, NEW n, NEW m,
               InitializePool(p, u, a, t, n, m)
        PROVE  Stable
    BY <1>1 DEF InitializePool, Initialized
  <1>7. ASSUME NEW a, q \notin Losing(a)
        PROVE  PoolsWithout(a)[q] = pool[q] /\ PoolsWithout(a) \in [Pools -> PoolAccount]
    BY <1>7, OtherReadings, UnspoiltIsElsewhere DEF Initialized
  <1>2. ASSUME NEW k, NEW p \in Pools, NEW l, NEW b, NEW n, NEW o, NEW m,
               ApproveCreditLine(k, p, l, b, n, o, m)
        PROVE  Stable
    BY <1>2, <1>7 DEF ApproveCreditLine
  <1>8. ASSUME NEW k, NEW l, NEW r, NEW s, NEW e, NEW a,
               PostReceipt(k, l, r, s, e, a)
        PROVE  Stable
    BY <1>8, <1>7 DEF PostReceipt
  <1>3. ASSUME NEW k, NEW p \in Pools, NEW l, NEW n, NEW c,
               DrawTranche(k, p, l, n, c)
        PROVE  Stable
    BY <1>3 DEF DrawTranche
  <1>4. ASSUME NEW k, NEW p \in Pools, NEW l, NEW n, RepayTranche(k, p, l, n)
        PROVE  Stable
    BY <1>4 DEF RepayTranche
  <1>5. ASSUME NEW p \in Pools, NEW l, NEW c, SettleMaturity(p, l, c)
        PROVE  Stable
    BY <1>5 DEF SettleMaturity, SettleClean, SettleDefault
  <1>6. CASE UNCHANGED pool
    BY <1>6
  <1> QED
    BY <1>1, <1>2, <1>3, <1>4, <1>5, <1>6, <1>8
    DEF Next, PauseLine, vars

\* A line keeps the authorities and the terms of its pool.
LEMMA LineMatchesPoolNext ==
    TypeOK /\ LineMatchesPool /\ [Next]_vars => LineMatchesPool'
  <1> SUFFICES ASSUME TypeOK, LineMatchesPool, [Next]_vars,
                      NEW l \in Lines, Initialized(line'[l])
               PROVE  /\ line'[l].pool \in Pools
                      /\ line'[l].pool \notin spoilt' =>
                           /\ pool'[line'[l].pool].status = "Active"
                           /\ line'[l].underwriter = pool'[line'[l].pool].underwriter
                           /\ line'[l].auditor = pool'[line'[l].pool].auditor
                           /\ line'[l].terms = pool'[line'[l].pool].terms
                           /\ line'[l].maturity <= pool'[line'[l].pool].maturity
    BY DEF LineMatchesPool, Unspoilt, ActivePool, LineInPool, Initialized
  <1>1. LineStep(l) /\ ~LineTaken(l)
    BY NextIsLineStep DEF LineTaken, EmptyLine, Initialized
  <1>2. CASE \E p \in Pools : LineOpens(p, l)
    BY <1>2, ActivePoolIsStable DEF LineOpens
  <1>3. CASE Initialized(line[l]) /\ SameIdentity(l)
    BY <1>3, ActivePoolIsStable, SpoiltGrows
    DEF LineMatchesPool, Unspoilt, LineInPool, SameIdentity
  <1>4. Initialized(line[l]) \/ \E p \in Pools : LineOpens(p, l)
    BY <1>1 DEF LineStep, LineMoves, LineTurns, ActiveLine, Initialized
  <1>5. SameIdentity(l) \/ \E p \in Pools : LineOpens(p, l)
    BY <1>1 DEF LineStep
  <1> QED BY <1>2, <1>3, <1>4, <1>5

\* No line exists at first.
LEMMA LineMatchesPoolInit == Init => LineMatchesPool
  BY DEF Init, EmptyLine, LineMatchesPool, Unspoilt, Initialized

\* The link between a line and its pool survives every instruction that does not
\* take an account of the pool for another type, so a borrower of a pool that is
\* whole is never refused because the two accounts disagree.
THEOREM LinesMatchTheirPool == Spec => []LineMatchesPool
  BY LineMatchesPoolInit, TypeOKInit, TypeOKNext, LineMatchesPoolNext, PTL DEF Spec

-----------------------------------------------------------------------------
(* What no step may do. *)

\* A line that a step takes for another type leaves its pool spoilt.
LEMMA TakenIsSeen ==
    ASSUME LineMatchesPool, NEW l \in Lines, Initialized(line[l]), LineTaken(l)
    PROVE  Taken(l)
  BY DEF LineMatchesPool, LineTaken, Taken, EmptyLine, Initialized

\* A closed or defaulted line never comes back and its counters never move,
\* because a settled line has no debt left that an instruction could move; its
\* account ends only when a whole other account is made of it.
THEOREM SettledLinesStayFrozen == Spec => SettledLinesAreFrozen
  <1>1. TypeOK /\ LineAccounting /\ LineMatchesPool /\ [Next]_vars =>
          [\A l \in Lines :
             line[l].status \in {"Closed", "Defaulted"} =>
                \/ Taken(l)
                \/ /\ line'[l].status \in {"Closed", "Defaulted"}
                   /\ line'[l].drawn = line[l].drawn
                   /\ line'[l].repaid = line[l].repaid
                   /\ line'[l].defaulted = line[l].defaulted]_vars
    <2> SUFFICES ASSUME TypeOK, LineAccounting, LineMatchesPool, [Next]_vars,
                        NEW l \in Lines,
                        line[l].status \in {"Closed", "Defaulted"}, ~Taken(l)
                 PROVE  /\ line'[l].status \in {"Closed", "Defaulted"}
                        /\ SameCounters(l)
      BY DEF SameCounters
    <2>1. LineStep(l) /\ ~LineTaken(l)
      BY NextIsLineStep, TakenIsSeen DEF Initialized
    <2>2. Outstanding(l) = 0
      BY DEF LineAccounting, SettledLinesOweNothing
    <2> QED
      BY <2>1, <2>2 DEF LineStep, LineOpens, LineMoves, LineTurns, SameCounters,
                        Initialized, ActiveLine, U32
  <1> QED
    BY <1>1, TypeOKInit, TypeOKNext, LineAccountingInit, LineAccountingNext,
       LineMatchesPoolInit, LineMatchesPoolNext, PTL
    DEF Spec, SettledLinesAreFrozen

\* While a line is paused nothing but its settlement moves its counters.
THEOREM PausedLinesWait == Spec => PausedLinesOnlySettle
  <1>1. TypeOK /\ LineMatchesPool /\ [Next]_vars =>
          [\A l \in Lines :
             line[l].status = "Paused" =>
                \/ Taken(l)
                \/ /\ line'[l].drawn = line[l].drawn
                   /\ line'[l].repaid = line[l].repaid
                   /\ line'[l].defaulted # line[l].defaulted
                         => line'[l].status = "Defaulted"]_vars
    <2> SUFFICES ASSUME TypeOK, LineMatchesPool, [Next]_vars, NEW l \in Lines,
                        line[l].status = "Paused", ~Taken(l)
                 PROVE  /\ line'[l].drawn = line[l].drawn
                        /\ line'[l].repaid = line[l].repaid
                        /\ line'[l].defaulted # line[l].defaulted
                              => line'[l].status = "Defaulted"
      OBVIOUS
    <2>1. LineStep(l) /\ ~LineTaken(l)
      BY NextIsLineStep, TakenIsSeen DEF Initialized
    <2> QED
      BY <2>1 DEF LineStep, LineOpens, LineMoves, LineTurns, SameCounters,
                  Initialized, ActiveLine
  <1> QED
    BY <1>1, TypeOKInit, TypeOKNext, LineMatchesPoolInit, LineMatchesPoolNext, PTL
    DEF Spec, PausedLinesOnlySettle

\* A line that is over stays over, and one that is paused waits, until its account
\* is taken for another type, which spoils its pool: the two together.
THEOREM StoppedLinesStay == Spec => StoppedLinesWait
  BY SettledLinesStayFrozen, PausedLinesWait DEF StoppedLinesWait

-----------------------------------------------------------------------------
(* The program implements NoteLedger. *)

\* An account that was never packed is still empty.
BlankUntilOpened ==
    /\ \A p \in Pools : ~Initialized(pool[p]) => pool[p] = EmptyPool
    /\ \A l \in Lines : ~Initialized(line[l]) => line[l] = EmptyLine

RefinementInv == TypeOK /\ LineAccounting /\ LineMatchesPool /\ BlankUntilOpened

\* An account stays blank until it is opened.
LEMMA BlankNext == RefinementInv /\ [Next]_vars => BlankUntilOpened'
  <1> SUFFICES ASSUME RefinementInv, [Next]_vars PROVE BlankUntilOpened'
    OBVIOUS
  <1> USE DEF RefinementInv, TypeOK, PoolAccount, CreditLineAccount,
              BlankUntilOpened, Initialized, ActivePool, ActiveLine
  <1>1. ASSUME NEW p \in Pools, NEW u, NEW a, NEW t, NEW n, NEW m,
               InitializePool(p, u, a, t, n, m)
        PROVE  BlankUntilOpened'
    BY <1>1, OtherReadings DEF InitializePool, EmptyLine
  <1>2. ASSUME NEW k, NEW p \in Pools, NEW l \in Lines, NEW b, NEW n, NEW o, NEW m,
               ApproveCreditLine(k, p, l, b, n, o, m)
        PROVE  BlankUntilOpened'
    <2>1. /\ \A x \in Pools : PoolsWithout(l)[x] = IF x = l THEN EmptyPool ELSE pool[x]
          /\ PoolsWithout(l) \in [Pools -> PoolAccount]
      BY OtherReadings
    <2>2. ASSUME NEW x \in Pools, ~Initialized(pool'[x])
          PROVE  pool'[x] = EmptyPool
      <3>1. x # p
        BY <1>2, <2>1, <2>2 DEF ApproveCreditLine
      <3> QED BY <1>2, <2>1, <2>2, <3>1 DEF ApproveCreditLine
    <2>3. ASSUME NEW x \in Lines, ~Initialized(line'[x])
          PROVE  line'[x] = EmptyLine
      BY <1>2, <2>3 DEF ApproveCreditLine
    <2> QED BY <2>2, <2>3
  <1>3. ASSUME NEW k, NEW p \in Pools, NEW l \in Lines, NEW n, NEW c,
               DrawTranche(k, p, l, n, c)
        PROVE  BlankUntilOpened'
    BY <1>3 DEF DrawTranche
  <1>4. ASSUME NEW k, NEW p \in Pools, NEW l \in Lines, NEW n,
               RepayTranche(k, p, l, n)
        PROVE  BlankUntilOpened'
    BY <1>4 DEF RepayTranche
  <1>5. ASSUME NEW k, NEW l \in Lines, NEW r, NEW s, NEW e, NEW a,
               PostReceipt(k, l, r, s, e, a)
        PROVE  BlankUntilOpened'
    <2>1. \A x \in Pools : pool'[x] = IF x = r THEN EmptyPool ELSE pool[x]
      BY <1>5, OtherReadings DEF PostReceipt
    <2>2. /\ \A x \in Lines : LinesWithout(r)[x] = IF x = r THEN EmptyLine ELSE line[x]
          /\ LinesWithout(r) \in [Lines -> CreditLineAccount]
          /\ l # r
      BY <1>5, OtherReadings DEF PostReceipt
    <2>3. ASSUME NEW x \in Lines, ~Initialized(line'[x])
          PROVE  line'[x] = EmptyLine
      <3>1. x # l
        BY <1>5, <2>2, <2>3 DEF PostReceipt
      <3> QED BY <1>5, <2>2, <2>3, <3>1 DEF PostReceipt
    <2> QED BY <2>1, <2>3
  <1>6. ASSUME NEW p \in Pools, NEW l \in Lines, NEW c, SettleClean(p, l, c)
        PROVE  BlankUntilOpened'
    BY <1>6 DEF SettleClean
  <1>7. ASSUME NEW p \in Pools, NEW l \in Lines, NEW c, SettleDefault(p, l, c)
        PROVE  BlankUntilOpened'
    BY <1>7 DEF SettleDefault
  <1>8. ASSUME NEW k, NEW l \in Lines, NEW t, PauseLine(k, l, t)
        PROVE  BlankUntilOpened'
    BY <1>8 DEF PauseLine
  <1>9. CASE UNCHANGED vars
    BY <1>9 DEF vars
  <1> QED
    BY <1>1, <1>2, <1>3, <1>4, <1>5, <1>6, <1>7, <1>8, <1>9
    DEF Next, SettleMaturity

\* What the refinement relies on always holds.
LEMMA RefinementInvariant == Spec => []RefinementInv
  <1>1. Init => RefinementInv
    <2>1. Init => BlankUntilOpened
      BY DEF Init, BlankUntilOpened
    <2> QED
      BY <2>1, TypeOKInit, LineAccountingInit, LineMatchesPoolInit DEF RefinementInv
  <1>2. RefinementInv /\ [Next]_vars => RefinementInv'
    BY TypeOKNext, LineAccountingNext, LineMatchesPoolNext, BlankNext
    DEF RefinementInv
  <1> QED BY <1>1, <1>2, PTL DEF Spec

\* A line that opens was empty, so its counters begin where they were.
LEMMA LineCountersGrow ==
    ASSUME RefinementInv, [Next]_vars, NEW l \in Lines, Initialized(line'[l])
    PROVE  /\ line[l].drawn <= line'[l].drawn
           /\ line[l].repaid <= line'[l].repaid
           /\ line[l].defaulted <= line'[l].defaulted
  <1> USE BoundsAssumption DEF RefinementInv, U32
  <1>1. LineStep(l) /\ ~LineTaken(l)
    BY NextIsLineStep DEF LineTaken, Initialized, EmptyLine
  <1>2. ASSUME NEW p \in Pools, LineOpens(p, l)
        PROVE  /\ line[l].drawn = line'[l].drawn
               /\ line[l].repaid = line'[l].repaid
               /\ line[l].defaulted = line'[l].defaulted
    BY <1>2 DEF LineOpens, BlankUntilOpened, EmptyLine
  <1>3. ASSUME NEW n \in U32, LineMoves(l, n)
        PROVE  /\ line[l].drawn <= line'[l].drawn
               /\ line[l].repaid <= line'[l].repaid
               /\ line[l].defaulted <= line'[l].defaulted
    BY <1>3, LineFields DEF LineMoves
  <1> QED
    BY <1>1, <1>2, <1>3, LineFields DEF LineStep, LineTurns, SameCounters

\* One step per instruction that writes a pool.
LEMMA PoolCountersGrow ==
    ASSUME RefinementInv, [Next]_vars, NEW q \in Pools, Initialized(pool'[q])
    PROVE  /\ pool[q].allocated <= pool'[q].allocated
           /\ pool[q].drawn <= pool'[q].drawn
           /\ pool[q].repaid <= pool'[q].repaid
           /\ pool[q].defaulted <= pool'[q].defaulted
  <1> DEFINE Grows == /\ pool[q].allocated <= pool'[q].allocated
                      /\ pool[q].drawn <= pool'[q].drawn
                      /\ pool[q].repaid <= pool'[q].repaid
                      /\ pool[q].defaulted <= pool'[q].defaulted
  <1> USE BoundsAssumption DEF RefinementInv, TypeOK, PoolAccount, U32
  <1>1. ASSUME NEW p \in Pools, NEW u, NEW a, NEW t, NEW n, NEW m,
               InitializePool(p, u, a, t, n, m)
        PROVE  Grows
    <2>1. pool[p] = EmptyPool
      BY <1>1 DEF InitializePool, BlankUntilOpened
    <2> QED BY <1>1, <2>1 DEF InitializePool, EmptyPool
  <1>2. ASSUME NEW k, NEW p \in Pools, NEW l, NEW b, NEW n \in U32, NEW o, NEW m,
               ApproveCreditLine(k, p, l, b, n, o, m)
        PROVE  Grows
    <2>1. /\ PoolsWithout(l)[q] = IF q = l THEN EmptyPool ELSE pool[q]
          /\ PoolsWithout(l) \in [Pools -> PoolAccount]
      BY OtherReadings
    <2>2. q # l
      BY <1>2, <2>1 DEF ApproveCreditLine, Initialized, EmptyPool
    <2> QED BY <1>2, <2>1, <2>2, PoolFields DEF ApproveCreditLine, FitsPool
  <1>7. ASSUME NEW k, NEW l, NEW r, NEW s, NEW e, NEW a,
               PostReceipt(k, l, r, s, e, a)
        PROVE  Grows
    <2>1. pool'[q] = pool[q]
      BY <1>7, OtherReadings DEF PostReceipt, Initialized, EmptyPool
    <2> QED BY <2>1, PoolFields
  <1>3. ASSUME NEW k, NEW p \in Pools, NEW l \in Lines, NEW n \in U32, NEW c,
               DrawTranche(k, p, l, n, c)
        PROVE  Grows
    BY <1>3, PoolFields DEF DrawTranche
  <1>4. ASSUME NEW k, NEW p \in Pools, NEW l \in Lines, NEW n \in U32,
               RepayTranche(k, p, l, n)
        PROVE  Grows
    BY <1>4, PoolFields DEF RepayTranche
  <1>5. ASSUME NEW p \in Pools, NEW l \in Lines, NEW c, SettleMaturity(p, l, c)
        PROVE  Grows
    <2>1. CASE SettleClean(p, l, c)
      BY <2>1, PoolFields DEF SettleClean
    <2>2. CASE SettleDefault(p, l, c)
      BY <2>2, PoolFields, LineFields DEF SettleDefault
    <2> QED BY <1>5, <2>1, <2>2 DEF SettleMaturity
  <1>6. CASE UNCHANGED pool
    BY <1>6, PoolFields
  <1> QED
    BY <1>1, <1>2, <1>3, <1>4, <1>5, <1>6, <1>7
    DEF Next, PauseLine, vars

\* No counter of a line or of a pool is ever taken back by an instruction: what was
\* drawn, repaid, written off or handed out stays so, in any order of instructions,
\* for as long as the account is a line or a pool.
THEOREM CountersNeverFall == Spec => CountersOnlyGrow
  <1>1. RefinementInv /\ [Next]_vars =>
          [/\ \A l \in Lines :
                Initialized(line'[l]) =>
                    /\ line[l].drawn <= line'[l].drawn
                    /\ line[l].repaid <= line'[l].repaid
                    /\ line[l].defaulted <= line'[l].defaulted
           /\ \A p \in Pools :
                Initialized(pool'[p]) =>
                    /\ pool[p].allocated <= pool'[p].allocated
                    /\ pool[p].drawn <= pool'[p].drawn
                    /\ pool[p].repaid <= pool'[p].repaid
                    /\ pool[p].defaulted <= pool'[p].defaulted]_vars
    BY LineCountersGrow, PoolCountersGrow
  <1> QED BY <1>1, RefinementInvariant, PTL DEF Spec, CountersOnlyGrow

\* Nothing is lent at first.
LEMMA LedgerInit == Init => Ledger!Init
  <1> SUFFICES ASSUME Init PROVE Ledger!Init
    OBVIOUS
  <1>1. \A l \in Lines : /\ InBooks(l).pool = ZeroKey
                         /\ InBooks(l).limit - InBooks(l).drawn = 0
                         /\ InBooks(l).drawn - InBooks(l).repaid - InBooks(l).defaulted = 0
                         /\ (InBooks(l).status \in {"Closed", "Defaulted"}) = FALSE
    BY DEF Init, EmptyLine, InBooks
  <1>2. \A p \in Pools : (IF p \in spoilt THEN 0 ELSE pool[p].outstanding) = 0
    BY DEF Init, EmptyPool
  <1>3. spoilt = {}
    BY DEF Init
  <1> QED BY <1>1, <1>2, <1>3, Zenon DEF Ledger!Init

-----------------------------------------------------------------------------
(* What the ledger sees of a line, field by field.  A step either leaves the *)
(* books of a line as they were, or gives them up with those of its pool.    *)

SameBooks(x) ==
    /\ InBooks(x)'.pool = InBooks(x).pool
    /\ InBooks(x)'.limit = InBooks(x).limit
    /\ InBooks(x)'.drawn = InBooks(x).drawn
    /\ InBooks(x)'.repaid = InBooks(x).repaid
    /\ InBooks(x)'.defaulted = InBooks(x).defaulted
    /\ (InBooks(x)'.status \in {"Closed", "Defaulted"})
         = (InBooks(x).status \in {"Closed", "Defaulted"})

\* Its account was taken, or its pool's, or one of the pool's other lines'.
GivenUp(x) == InBooks(x)' = EmptyLine

Exposure(q) == IF q \in spoilt THEN 0 ELSE pool[q].outstanding

\* The fields of a line that the ledger does not look at may change.
SameFields(x) ==
    /\ line'[x].pool = line[x].pool
    /\ line'[x].limit = line[x].limit
    /\ SameCounters(x)
    /\ line'[x].status = line[x].status

\* Packing address a as another type gives up the lines of the pools it spoils and
\* leaves the books of every other line, its own lines apart.
LEMMA BooksAfterTaking ==
    ASSUME RefinementInv, NEW a, spoilt' = spoilt \cup Losing(a), NEW x \in Lines,
           x # a => SameFields(x), x = a => line'[x] = EmptyLine
    PROVE  IF InBooks(x).pool \in Losing(a) THEN GivenUp(x) ELSE SameBooks(x)
  <1> USE DEF RefinementInv
  <1>1. ZeroKey \notin Losing(a)
    BY AddressAssumption DEF Losing
  <1>2. CASE x # a
    <2>1. CASE line[x].pool \in spoilt
      BY <1>1, <1>2, <2>1 DEF InBooks, SameBooks, SameFields, EmptyLine
    <2>2. CASE line[x].pool \notin spoilt /\ line[x].pool \in Losing(a)
      BY <1>2, <2>2 DEF InBooks, GivenUp, SameFields
    <2>3. CASE line[x].pool \notin spoilt /\ line[x].pool \notin Losing(a)
      BY <1>2, <2>3 DEF InBooks, SameBooks, SameFields, SameCounters
    <2> QED BY <2>1, <2>2, <2>3
  <1>3. CASE x = a
    <2>1. InBooks(x)' = EmptyLine
      BY <1>3 DEF InBooks
    <2>2. CASE ~Initialized(line[x])
      BY <1>1, <2>1, <2>2 DEF InBooks, SameBooks, BlankUntilOpened, EmptyLine
    <2>3. CASE Initialized(line[x])
      <3>1. line[x].pool \in Losing(a)
        BY <1>3, <2>3 DEF LineMatchesPool, Losing
      <3> QED BY <1>1, <2>1, <3>1 DEF InBooks, SameBooks, GivenUp, EmptyLine
    <2> QED BY <2>2, <2>3
  <1> QED BY <1>2, <1>3

\* What the ledger reads in the books of a line that were kept or given up.
LEMMA BooksTell ==
    ASSUME NEW Q, NEW x \in Lines,
           IF InBooks(x).pool \in Q THEN GivenUp(x) ELSE SameBooks(x)
    PROVE  /\ InBooks(x)'.pool = IF InBooks(x).pool \in Q THEN ZeroKey ELSE InBooks(x).pool
           /\ InBooks(x)'.limit - InBooks(x)'.drawn
                = IF InBooks(x).pool \in Q THEN 0
                  ELSE InBooks(x).limit - InBooks(x).drawn
           /\ InBooks(x)'.drawn - InBooks(x)'.repaid - InBooks(x)'.defaulted
                = IF InBooks(x).pool \in Q THEN 0
                  ELSE InBooks(x).drawn - InBooks(x).repaid - InBooks(x).defaulted
           /\ (InBooks(x)'.status \in {"Closed", "Defaulted"})
                = IF InBooks(x).pool \in Q THEN FALSE
                  ELSE InBooks(x).status \in {"Closed", "Defaulted"}
  <1>1. CASE InBooks(x).pool \in Q
    <2>1. InBooks(x)' = EmptyLine
      BY <1>1 DEF GivenUp
    <2>2. /\ InBooks(x)'.pool = ZeroKey
          /\ InBooks(x)'.limit - InBooks(x)'.drawn = 0
          /\ InBooks(x)'.drawn - InBooks(x)'.repaid - InBooks(x)'.defaulted = 0
      BY <2>1 DEF EmptyLine
    <2>3. (InBooks(x)'.status \in {"Closed", "Defaulted"}) = FALSE
      BY <2>1 DEF EmptyLine
    <2> QED BY <1>1, <2>2, <2>3, Zenon
  <1>2. CASE InBooks(x).pool \notin Q
    BY <1>2 DEF SameBooks
  <1> QED BY <1>1, <1>2

\* Where the books of the lines and the exposure of the pools are as they were, or
\* given up, the ledger loses the pools of Q.
LEMMA GivingUpIsLosing ==
    ASSUME NEW Q, spoilt' = spoilt \cup Q,
           \A x \in Lines : IF InBooks(x).pool \in Q THEN GivenUp(x) ELSE SameBooks(x),
           \A q \in Pools : Exposure(q)' = IF q \in Q THEN 0 ELSE Exposure(q)
    PROVE  Ledger!Lose(Q)
  <1>1. ASSUME NEW x \in Lines
        PROVE  /\ InBooks(x)'.pool = IF InBooks(x).pool \in Q THEN ZeroKey ELSE InBooks(x).pool
               /\ InBooks(x)'.limit - InBooks(x)'.drawn
                    = IF InBooks(x).pool \in Q THEN 0
                      ELSE InBooks(x).limit - InBooks(x).drawn
               /\ InBooks(x)'.drawn - InBooks(x)'.repaid - InBooks(x)'.defaulted
                    = IF InBooks(x).pool \in Q THEN 0
                      ELSE InBooks(x).drawn - InBooks(x).repaid - InBooks(x).defaulted
               /\ (InBooks(x)'.status \in {"Closed", "Defaulted"})
                    = IF InBooks(x).pool \in Q THEN FALSE
                      ELSE InBooks(x).status \in {"Closed", "Defaulted"}
    BY BooksTell
  <1> QED BY <1>1 DEF Ledger!Lose, Ledger!Kept, Ledger!Exposures, Exposure

\* Approving a line grants its limit, and gives up the pool whose account the line
\* was made of.  An approval on a spoilt pool is none of the ledger's business.
LEMMA ApproveIsGrant ==
    ASSUME RefinementInv, NEW k, NEW p \in Pools, NEW l \in Lines, NEW b,
           NEW n \in U32, NEW o, NEW m, ApproveCreditLine(k, p, l, b, n, o, m),
           NEW Q, Q = Losing(l)
    PROVE  Ledger!Grant(p, l, n, Q) \/ Ledger!Lose(Q)
  <1> USE DEF RefinementInv
  <1>0. line \in [Lines -> CreditLineAccount] /\ pool \in [Pools -> PoolAccount]
    BY DEF TypeOK
  <1>1. /\ line[l] = EmptyLine
        /\ InBooks(l) = EmptyLine
        /\ p \notin Q
        /\ n > 0
        /\ spoilt' = spoilt \cup Q
        /\ ZeroKey \notin Q
    BY AddressAssumption
    DEF BlankUntilOpened, ApproveCreditLine, InBooks, Losing, Initialized, EmptyLine
  <1>2. /\ line'[l].pool = p
        /\ line'[l].limit = n /\ line'[l].drawn = 0
        /\ line'[l].repaid = 0 /\ line'[l].defaulted = 0
        /\ line'[l].status = "Active"
        /\ \A x \in Lines : x # l => line'[x] = line[x]
    BY <1>0 DEF ApproveCreditLine
  <1>3. \A q \in Pools : Exposure(q)' = IF q \in Q THEN 0 ELSE Exposure(q)
    <2> SUFFICES ASSUME NEW q \in Pools, q \notin spoilt, q \notin Q
                 PROVE  pool'[q].outstanding = pool[q].outstanding
      BY <1>1 DEF Exposure
    <2>1. q = l => pool[q] = EmptyPool
      BY DEF Losing, BlankUntilOpened
    <2>2. /\ PoolsWithout(l)[q] = pool[q]
          /\ PoolsWithout(l) \in [Pools -> PoolAccount]
      BY <2>1, OtherReadings
    <2> QED BY <2>2 DEF ApproveCreditLine, PoolAccount
  <1>4. \A x \in Lines : x # l =>
          IF InBooks(x).pool \in Q THEN GivenUp(x) ELSE SameBooks(x)
    <2> SUFFICES ASSUME NEW x \in Lines, x # l
                 PROVE  IF InBooks(x).pool \in Q THEN GivenUp(x) ELSE SameBooks(x)
      OBVIOUS
    <2>1. SameFields(x)
      BY <1>2 DEF SameFields, SameCounters
    <2> QED BY <1>1, <2>1, BooksAfterTaking
  <1>5. CASE p \in spoilt
    <2>1. SameBooks(l)
      BY <1>1, <1>2, <1>5 DEF InBooks, SameBooks, EmptyLine
    <2>2. InBooks(l).pool \notin Q
      BY <1>1 DEF EmptyLine
    <2>3. \A x \in Lines : IF InBooks(x).pool \in Q THEN GivenUp(x) ELSE SameBooks(x)
      BY <1>4, <2>1, <2>2
    <2> QED BY <1>1, <1>3, <2>3, GivingUpIsLosing
  <1>6. CASE p \notin spoilt
    <2>1. /\ InBooks(l)'.pool = p
          /\ InBooks(l)'.limit - InBooks(l)'.drawn = n
          /\ InBooks(l)'.drawn - InBooks(l)'.repaid - InBooks(l)'.defaulted = 0
          /\ (InBooks(l)'.status \in {"Closed", "Defaulted"}) = FALSE
      BY <1>1, <1>2, <1>6 DEF InBooks, U32
    <2>2. ASSUME NEW x \in Lines, x # l
          PROVE  /\ InBooks(x)'.pool
                      = IF InBooks(x).pool \in Q THEN ZeroKey ELSE InBooks(x).pool
                 /\ InBooks(x)'.limit - InBooks(x)'.drawn
                      = IF InBooks(x).pool \in Q THEN 0
                        ELSE InBooks(x).limit - InBooks(x).drawn
                 /\ InBooks(x)'.drawn - InBooks(x)'.repaid - InBooks(x)'.defaulted
                      = IF InBooks(x).pool \in Q THEN 0
                        ELSE InBooks(x).drawn - InBooks(x).repaid - InBooks(x).defaulted
                 /\ (InBooks(x)'.status \in {"Closed", "Defaulted"})
                      = IF InBooks(x).pool \in Q THEN FALSE
                        ELSE InBooks(x).status \in {"Closed", "Defaulted"}
      BY <1>4, <2>2, BooksTell
    <2>3. /\ InBooks(l).pool = ZeroKey
          /\ InBooks(l).drawn - InBooks(l).repaid - InBooks(l).defaulted = 0
          /\ (InBooks(l).status \in {"Closed", "Defaulted"}) = FALSE
      BY <1>1 DEF EmptyLine
    <2>4. [x \in Lines |-> InBooks(x)'.pool]
            = [Ledger!Kept([x \in Lines |-> InBooks(x).pool], Q, ZeroKey) EXCEPT ![l] = p]
      BY <2>1, <2>2 DEF Ledger!Kept
    <2>5. [x \in Lines |-> InBooks(x)'.limit - InBooks(x)'.drawn]
            = [Ledger!Kept([x \in Lines |-> InBooks(x).limit - InBooks(x).drawn], Q, 0)
                 EXCEPT ![l] = n]
      BY <2>1, <2>2 DEF Ledger!Kept
    <2>6. [x \in Lines |-> InBooks(x)'.drawn - InBooks(x)'.repaid - InBooks(x)'.defaulted]
            = Ledger!Kept([x \in Lines |->
                 InBooks(x).drawn - InBooks(x).repaid - InBooks(x).defaulted], Q, 0)
      BY <2>1, <2>2, <2>3 DEF Ledger!Kept
    <2>7. [x \in Lines |-> InBooks(x)'.status \in {"Closed", "Defaulted"}]
            = Ledger!Kept([x \in Lines |->
                 InBooks(x).status \in {"Closed", "Defaulted"}], Q, FALSE)
      BY <2>1, <2>2, <2>3 DEF Ledger!Kept
    <2>8. [q \in Pools |-> IF q \in spoilt' THEN 0 ELSE pool'[q].outstanding]
            = Ledger!Exposures(Q)
      BY <1>3 DEF Ledger!Exposures, Exposure
    <2>9. p \notin spoilt \cup Q
      BY <1>1, <1>6
    <2>10. spoilt' = spoilt \cup Q /\ n > 0
      BY <1>1
    <2> QED
      BY <2>3, <2>4, <2>5, <2>6, <2>7, <2>8, <2>9, <2>10, Zenon DEF Ledger!Grant
  <1> QED BY <1>5, <1>6

\* Opening a pool gives up whatever its account was before.
LEMMA OpeningLoses ==
    ASSUME RefinementInv, NEW p \in Pools, NEW u, NEW a, NEW t, NEW n, NEW m,
           InitializePool(p, u, a, t, n, m), NEW Q, Q = Losing(p)
    PROVE  Ledger!Lose(Q)
  <1> USE DEF RefinementInv
  <1>0. line \in [Lines -> CreditLineAccount] /\ pool \in [Pools -> PoolAccount]
    BY DEF TypeOK
  <1>1. spoilt' = spoilt \cup Q
    BY DEF InitializePool
  <1>2. ASSUME NEW x \in Lines
        PROVE  IF InBooks(x).pool \in Q THEN GivenUp(x) ELSE SameBooks(x)
    <2>1. line'[x] = IF x = p THEN EmptyLine ELSE line[x]
      BY OtherReadings DEF InitializePool
    <2>2. x # p => SameFields(x)
      BY <2>1 DEF SameFields, SameCounters
    <2> QED BY <1>1, <2>1, <2>2, BooksAfterTaking
  <1>3. ASSUME NEW q \in Pools
        PROVE  Exposure(q)' = IF q \in Q THEN 0 ELSE Exposure(q)
    <2>1. pool[p].outstanding = 0 /\ pool'[p].outstanding = 0
      BY <1>0 DEF InitializePool, BlankUntilOpened, EmptyPool
    <2>2. q # p => pool'[q] = pool[q]
      BY <1>0 DEF InitializePool
    <2> QED BY <1>1, <2>1, <2>2 DEF Exposure
  <1> QED BY <1>1, <1>2, <1>3, GivingUpIsLosing

\* A receipt moves no note, and gives up whatever its account was before.
LEMMA PostingLoses ==
    ASSUME RefinementInv, NEW k, NEW l \in Lines, NEW r, NEW s, NEW e, NEW a,
           PostReceipt(k, l, r, s, e, a), NEW Q, Q = Losing(r)
    PROVE  Ledger!Lose(Q)
  <1> USE DEF RefinementInv
  <1>1. spoilt' = spoilt \cup Q
    BY DEF PostReceipt
  <1>2. ASSUME NEW x \in Lines
        PROVE  IF InBooks(x).pool \in Q THEN GivenUp(x) ELSE SameBooks(x)
    <2>1. /\ LinesWithout(r)[x] = IF x = r THEN EmptyLine ELSE line[x]
          /\ LinesWithout(r) \in [Lines -> CreditLineAccount]
          /\ l # r
      BY OtherReadings DEF PostReceipt
    <2>2. x = r => line'[x] = EmptyLine
      BY <2>1 DEF PostReceipt
    <2>3. x # r => SameFields(x)
      BY <2>1 DEF PostReceipt, SameFields, SameCounters, CreditLineAccount
    <2> QED BY <1>1, <2>2, <2>3, BooksAfterTaking
  <1>3. ASSUME NEW q \in Pools
        PROVE  Exposure(q)' = IF q \in Q THEN 0 ELSE Exposure(q)
    <2>1. pool'[q] = IF q = r THEN EmptyPool ELSE pool[q]
      BY OtherReadings DEF PostReceipt
    <2>2. q = r /\ q \notin Q => pool[q] = EmptyPool
      BY DEF Losing, BlankUntilOpened
    <2> QED BY <1>1, <2>1, <2>2 DEF Exposure
  <1> QED BY <1>1, <1>2, <1>3, GivingUpIsLosing

-----------------------------------------------------------------------------
(* The other instructions touch one line and its pool. *)

\* A step that leaves the view is a stutter of the ledger.
SameView ==
    /\ \A x \in Lines : SameBooks(x)
    /\ \A q \in Pools : Exposure(q)' = Exposure(q)
    /\ UNCHANGED spoilt

\* The same, of the ledger's own variables.
LEMMA SameViewStutters == SameView => UNCHANGED Ledger!ledgerVars
  BY DEF SameView, SameBooks, Exposure, Ledger!ledgerVars

\* Only line l and pool p move, and l stays a line of p.
Touches(p, l) ==
    /\ UNCHANGED spoilt
    /\ line[l].pool = p /\ line'[l].pool = p
    /\ \A x \in Lines : x # l => line'[x] = line[x]
    /\ \A q \in Pools : q # p => pool'[q] = pool[q]

\* On a spoilt pool the ledger does not see it.
LEMMA SpoiltIsUnseen ==
    ASSUME NEW p \in Pools, NEW l \in Lines, Touches(p, l), p \in spoilt
    PROVE  SameView
  BY DEF Touches, SameView, SameBooks, InBooks, Exposure

\* On a pool that lost no account it sees the line as it is.
LEMMA SoundIsSeen ==
    ASSUME NEW p \in Pools, NEW l \in Lines, Touches(p, l), p \notin spoilt
    PROVE  /\ InBooks(l) = line[l] /\ InBooks(l)' = line'[l]
           /\ \A x \in Lines : x # l => InBooks(x)' = InBooks(x)
           /\ \A q \in Pools : q # p => Exposure(q)' = Exposure(q)
           /\ Exposure(p) = pool[p].outstanding /\ Exposure(p)' = pool'[p].outstanding
           /\ UNCHANGED spoilt
  BY DEF Touches, InBooks, Exposure

\* A draw lends notes of the line's pool.
LEMMA DrawIsLend ==
    ASSUME RefinementInv, NEW k, NEW p \in Pools, NEW l \in Lines,
           NEW n \in U32, NEW c, DrawTranche(k, p, l, n, c)
    PROVE  Ledger!Lend(p, l, n) \/ SameView
  <1> USE DEF RefinementInv
  <1>0. line \in [Lines -> CreditLineAccount] /\ pool \in [Pools -> PoolAccount]
    BY DEF TypeOK
  <1>1. /\ line'[l].pool = line[l].pool
        /\ line'[l].limit = line[l].limit
        /\ line'[l].drawn = line[l].drawn + n
        /\ line'[l].repaid = line[l].repaid
        /\ line'[l].defaulted = line[l].defaulted
        /\ line'[l].status = line[l].status
        /\ pool'[p].outstanding = pool[p].outstanding + n
    BY <1>0 DEF DrawTranche, CreditLineAccount, PoolAccount
  <1>2. Touches(p, l)
    BY <1>0, <1>1 DEF DrawTranche, LineInPool, Touches
  <1>3. /\ line[l].pool = p
        /\ line[l].status \notin {"Closed", "Defaulted"}
        /\ 0 < n /\ line[l].drawn + n <= line[l].limit
    BY DEF DrawTranche, LineInPool, ActiveLine
  <1>4. CASE p \in spoilt
    BY <1>2, <1>4, SpoiltIsUnseen
  <1>5. CASE p \notin spoilt
    <2>1. /\ InBooks(l) = line[l] /\ InBooks(l)' = line'[l]
          /\ \A x \in Lines : x # l => InBooks(x)' = InBooks(x)
          /\ \A q \in Pools : q # p => Exposure(q)' = Exposure(q)
          /\ Exposure(p) = pool[p].outstanding /\ Exposure(p)' = pool'[p].outstanding
          /\ UNCHANGED spoilt
      BY <1>2, <1>5, SoundIsSeen
    <2>2. /\ InBooks(l)'.pool = InBooks(l).pool
          /\ InBooks(l)'.limit - InBooks(l)'.drawn = (InBooks(l).limit - InBooks(l).drawn) - n
          /\ InBooks(l)'.drawn - InBooks(l)'.repaid - InBooks(l)'.defaulted
               = (InBooks(l).drawn - InBooks(l).repaid - InBooks(l).defaulted) + n
          /\ InBooks(l)'.status = InBooks(l).status
          /\ InBooks(l).status \notin {"Closed", "Defaulted"}
          /\ InBooks(l).pool = p
          /\ 0 < n /\ n <= InBooks(l).limit - InBooks(l).drawn
      BY <1>1, <1>3, <2>1, LineFields, BoundsAssumption DEF U32
    <2>3. Exposure(p)' = Exposure(p) + n
      BY <1>1, <2>1
    <2> QED BY <2>1, <2>2, <2>3 DEF Ledger!Lend, Exposure
  <1> QED BY <1>4, <1>5

\* A repayment recovers notes.
LEMMA RepayIsRecover ==
    ASSUME RefinementInv, NEW k, NEW p \in Pools, NEW l \in Lines,
           NEW n \in U32, RepayTranche(k, p, l, n)
    PROVE  Ledger!Recover(p, l, n) \/ SameView
  <1> USE DEF RefinementInv
  <1>0. line \in [Lines -> CreditLineAccount] /\ pool \in [Pools -> PoolAccount]
    BY DEF TypeOK
  <1>1. /\ line'[l].pool = line[l].pool
        /\ line'[l].limit = line[l].limit
        /\ line'[l].drawn = line[l].drawn
        /\ line'[l].repaid = line[l].repaid + n
        /\ line'[l].defaulted = line[l].defaulted
        /\ line'[l].status = IF n = Outstanding(l) THEN "Closed" ELSE line[l].status
        /\ pool'[p].outstanding = pool[p].outstanding - n
    BY <1>0 DEF RepayTranche, CreditLineAccount, PoolAccount
  <1>2. Touches(p, l)
    BY <1>0, <1>1 DEF RepayTranche, LineInPool, Touches
  <1>3. /\ line[l].pool = p
        /\ line[l].status = "Active"
        /\ 0 < n /\ n <= Outstanding(l)
    BY DEF RepayTranche, LineInPool, ActiveLine
  <1>4. CASE p \in spoilt
    BY <1>2, <1>4, SpoiltIsUnseen
  <1>5. CASE p \notin spoilt
    <2>1. /\ InBooks(l) = line[l] /\ InBooks(l)' = line'[l]
          /\ \A x \in Lines : x # l => InBooks(x)' = InBooks(x)
          /\ \A q \in Pools : q # p => Exposure(q)' = Exposure(q)
          /\ Exposure(p) = pool[p].outstanding /\ Exposure(p)' = pool'[p].outstanding
          /\ UNCHANGED spoilt
      BY <1>2, <1>5, SoundIsSeen
    <2> DEFINE owes == InBooks(l).drawn - InBooks(l).repaid - InBooks(l).defaulted
    <2>2. /\ InBooks(l)'.pool = InBooks(l).pool
          /\ InBooks(l)'.limit - InBooks(l)'.drawn = InBooks(l).limit - InBooks(l).drawn
          /\ InBooks(l)'.drawn - InBooks(l)'.repaid - InBooks(l)'.defaulted = owes - n
          /\ InBooks(l).pool = p
          /\ 0 < n /\ n <= owes
      BY <1>1, <1>3, <2>1, LineFields, BoundsAssumption DEF U32, Outstanding
    <2>3. /\ (InBooks(l)'.status \in {"Closed", "Defaulted"}) = (n = owes)
          /\ (InBooks(l).status \in {"Closed", "Defaulted"}) = FALSE
      BY <1>1, <1>3, <2>1 DEF Outstanding
    <2>4. [x \in Lines |-> InBooks(x)'.status \in {"Closed", "Defaulted"}]
            = [[x \in Lines |-> InBooks(x).status \in {"Closed", "Defaulted"}]
                 EXCEPT ![l] = n = owes]
      BY <2>1, <2>3, Zenon
    <2>5. [x \in Lines |-> InBooks(x)'.pool] = [x \in Lines |-> InBooks(x).pool]
      BY <2>1, <2>2
    <2>6. [x \in Lines |-> InBooks(x)'.limit - InBooks(x)'.drawn]
            = [x \in Lines |-> InBooks(x).limit - InBooks(x).drawn]
      BY <2>1, <2>2
    <2>7. [x \in Lines |-> InBooks(x)'.drawn - InBooks(x)'.repaid - InBooks(x)'.defaulted]
            = [[x \in Lines |-> InBooks(x).drawn - InBooks(x).repaid - InBooks(x).defaulted]
                 EXCEPT ![l] = @ - n]
      BY <2>1, <2>2
    <2>8. [q \in Pools |-> IF q \in spoilt' THEN 0 ELSE pool'[q].outstanding]
            = [[q \in Pools |-> IF q \in spoilt THEN 0 ELSE pool[q].outstanding]
                 EXCEPT ![p] = @ - n]
      BY <1>1, <2>1 DEF Exposure
    <2> QED
      BY <2>1, <2>2, <2>3, <2>4, <2>5, <2>6, <2>7, <2>8 DEF Ledger!Recover
  <1> QED BY <1>4, <1>5

\* What both settlements of a line do to the ledger's variables.
LEMMA SettlingFinishes ==
    ASSUME RefinementInv, NEW p \in Pools, NEW l \in Lines, Touches(p, l),
           p \notin spoilt, line[l].status \notin {"Closed", "Defaulted"},
           line'[l].status \in {"Closed", "Defaulted"},
           line'[l].limit = line[l].limit, line'[l].drawn = line[l].drawn,
           Outstanding(l)' = 0,
           pool'[p].outstanding = pool[p].outstanding - Outstanding(l)
    PROVE  Ledger!Finish(p, l)
  <1>1. /\ InBooks(l) = line[l] /\ InBooks(l)' = line'[l]
        /\ \A x \in Lines : x # l => InBooks(x)' = InBooks(x)
        /\ \A q \in Pools : q # p => Exposure(q)' = Exposure(q)
        /\ Exposure(p) = pool[p].outstanding /\ Exposure(p)' = pool'[p].outstanding
        /\ UNCHANGED spoilt
    BY SoundIsSeen
  <1> DEFINE owes == InBooks(l).drawn - InBooks(l).repaid - InBooks(l).defaulted
  <1>2. /\ InBooks(l)'.pool = InBooks(l).pool
        /\ InBooks(l)'.limit - InBooks(l)'.drawn = InBooks(l).limit - InBooks(l).drawn
        /\ InBooks(l)'.drawn - InBooks(l)'.repaid - InBooks(l)'.defaulted = 0
        /\ InBooks(l).pool = p
        /\ owes = Outstanding(l)
    BY <1>1 DEF Touches, Outstanding
  <1>3. /\ (InBooks(l)'.status \in {"Closed", "Defaulted"}) = TRUE
        /\ (InBooks(l).status \in {"Closed", "Defaulted"}) = FALSE
    BY <1>1
  <1>4. [x \in Lines |-> InBooks(x)'.status \in {"Closed", "Defaulted"}]
          = [[x \in Lines |-> InBooks(x).status \in {"Closed", "Defaulted"}]
               EXCEPT ![l] = TRUE]
    BY <1>1, <1>3, Zenon
  <1>5. [x \in Lines |-> InBooks(x)'.pool] = [x \in Lines |-> InBooks(x).pool]
    BY <1>1, <1>2
  <1>6. [x \in Lines |-> InBooks(x)'.limit - InBooks(x)'.drawn]
          = [x \in Lines |-> InBooks(x).limit - InBooks(x).drawn]
    BY <1>1, <1>2
  <1>7. [x \in Lines |-> InBooks(x)'.drawn - InBooks(x)'.repaid - InBooks(x)'.defaulted]
          = [[x \in Lines |-> InBooks(x).drawn - InBooks(x).repaid - InBooks(x).defaulted]
               EXCEPT ![l] = 0]
    BY <1>1, <1>2
  <1>8. [q \in Pools |-> IF q \in spoilt' THEN 0 ELSE pool'[q].outstanding]
          = [[q \in Pools |-> IF q \in spoilt THEN 0 ELSE pool[q].outstanding]
               EXCEPT ![p] = @ - owes]
    BY <1>1, <1>2 DEF Exposure
  <1> QED
    BY <1>1, <1>2, <1>3, <1>4, <1>5, <1>6, <1>7, <1>8 DEF Ledger!Finish

\* Writing a line off finishes it.
LEMMA SettleDefaultIsFinish ==
    ASSUME RefinementInv, NEW p \in Pools, NEW l \in Lines, NEW c,
           SettleDefault(p, l, c)
    PROVE  Ledger!Finish(p, l) \/ SameView
  <1> USE DEF RefinementInv
  <1>0. line \in [Lines -> CreditLineAccount] /\ pool \in [Pools -> PoolAccount]
    BY DEF TypeOK
  <1>1. /\ line'[l].pool = line[l].pool
        /\ line'[l].limit = line[l].limit /\ line'[l].drawn = line[l].drawn
        /\ Outstanding(l)' = 0
        /\ line'[l].status = "Defaulted"
        /\ pool'[p].outstanding = pool[p].outstanding - Outstanding(l)
    BY <1>0, LineFields, BoundsAssumption
    DEF SettleDefault, Outstanding, CreditLineAccount, PoolAccount, U32
  <1>2. Touches(p, l)
    BY <1>0, <1>1 DEF SettleDefault, LineInPool, Touches
  <1>3. line[l].status \notin {"Closed", "Defaulted"}
    BY DEF SettleDefault, LineAccounting, SettledLinesOweNothing
  <1>4. CASE p \in spoilt
    BY <1>2, <1>4, SpoiltIsUnseen
  <1>5. CASE p \notin spoilt
    BY <1>1, <1>2, <1>3, <1>5, SettlingFinishes
  <1> QED BY <1>4, <1>5

\* Settling a line that owes nothing ends it, or repeats what ended it before.
LEMMA SettleCleanIsFinishOrStutter ==
    ASSUME RefinementInv, NEW p \in Pools, NEW l \in Lines, NEW c,
           SettleClean(p, l, c)
    PROVE  Ledger!Finish(p, l) \/ SameView
  <1> USE DEF RefinementInv
  <1>0. line \in [Lines -> CreditLineAccount] /\ pool \in [Pools -> PoolAccount]
    BY DEF TypeOK
  <1>1. /\ line'[l].pool = line[l].pool
        /\ line'[l].limit = line[l].limit /\ line'[l].drawn = line[l].drawn
        /\ line'[l].repaid = line[l].repaid /\ line'[l].defaulted = line[l].defaulted
        /\ Outstanding(l)' = 0
        /\ line'[l].status = "Closed"
        /\ pool' = pool
        /\ Outstanding(l) = 0
    BY <1>0 DEF SettleClean, Outstanding, CreditLineAccount
  <1>2. Touches(p, l)
    BY <1>0, <1>1 DEF SettleClean, LineInPool, Touches
  <1>3. pool'[p].outstanding = pool[p].outstanding - Outstanding(l)
    BY <1>1, PoolFields, BoundsAssumption DEF U32
  <1>4. CASE p \in spoilt
    BY <1>2, <1>4, SpoiltIsUnseen
  <1>5. CASE p \notin spoilt /\ line[l].status \in {"Closed", "Defaulted"}
    <2>1. /\ InBooks(l) = line[l] /\ InBooks(l)' = line'[l]
          /\ \A x \in Lines : x # l => InBooks(x)' = InBooks(x)
          /\ UNCHANGED spoilt
      BY <1>2, <1>5, SoundIsSeen
    <2>2. SameBooks(l)
      BY <1>1, <1>5, <2>1 DEF SameBooks
    <2> QED BY <1>1, <2>1, <2>2 DEF SameView, SameBooks, Exposure
  <1>6. CASE p \notin spoilt /\ line[l].status \notin {"Closed", "Defaulted"}
    BY <1>1, <1>2, <1>3, <1>6, SettlingFinishes
  <1> QED BY <1>4, <1>5, <1>6

\* A pause moves no note.
LEMMA OthersKeepView ==
    ASSUME RefinementInv
    PROVE  /\ \A l \in Lines : \A k, t : PauseLine(k, l, t) => SameView
           /\ UNCHANGED vars => SameView
  <1> USE DEF RefinementInv
  <1>0. line \in [Lines -> CreditLineAccount] /\ pool \in [Pools -> PoolAccount]
    BY DEF TypeOK
  <1>1. ASSUME NEW k, NEW l \in Lines, NEW t, PauseLine(k, l, t)
        PROVE  SameView
    <2>1. /\ UNCHANGED <<pool, spoilt>>
          /\ \A x \in Lines : x # l => line'[x] = line[x]
          /\ line'[l].pool = line[l].pool /\ line'[l].limit = line[l].limit
          /\ SameCounters(l)
          /\ line[l].status \in {"Active", "Paused"} /\ line'[l].status \in {"Active", "Paused"}
      BY <1>0, <1>1 DEF PauseLine, SameCounters, CreditLineAccount
    <2>2. \A x \in Lines : SameBooks(x)
      BY <2>1 DEF SameBooks, InBooks, SameCounters
    <2> QED BY <2>1, <2>2 DEF SameView, Exposure
  <1>2. ASSUME UNCHANGED vars PROVE SameView
    BY <1>2 DEF vars, SameView, SameBooks, InBooks, Exposure
  <1> QED BY <1>1, <1>2

\* Every instruction of the program is one operation of the ledger or none of
\* its business: what a pool has at stake is lent, recovered and written off
\* note by note, once each, for any number of pools, lines and keys, and an
\* account taken for another type costs the books of its own pool only.
THEOREM VaultImplementsLedger == Spec => ImplementsLedger
  <1>1. RefinementInv /\ [Next]_vars => [Ledger!Next]_(Ledger!ledgerVars)
    <2> SUFFICES ASSUME RefinementInv, [Next]_vars
                 PROVE  Ledger!Next \/ UNCHANGED Ledger!ledgerVars
      OBVIOUS
    <2>a. ASSUME NEW a PROVE \E Q \in SUBSET Pools : Q = Losing(a)
      BY DEF Losing
    <2>1. ASSUME NEW p \in Pools, NEW u, NEW a, NEW t, NEW n, NEW m,
                 InitializePool(p, u, a, t, n, m)
          PROVE  Ledger!Next
      <3>1. PICK Q \in SUBSET Pools : Q = Losing(p)
        BY <2>a
      <3> QED BY <2>1, <3>1, OpeningLoses DEF Ledger!Next
    <2>2. ASSUME NEW k, NEW p \in Pools, NEW l \in Lines, NEW b, NEW n \in U32,
                 NEW o, NEW m, ApproveCreditLine(k, p, l, b, n, o, m)
          PROVE  Ledger!Next
      <3>1. PICK Q \in SUBSET Pools : Q = Losing(l)
        BY <2>a
      <3> QED BY <2>2, <3>1, ApproveIsGrant DEF Ledger!Next
    <2>3. ASSUME NEW k, NEW p \in Pools, NEW l \in Lines, NEW n \in U32, NEW c,
                 DrawTranche(k, p, l, n, c)
          PROVE  Ledger!Next \/ UNCHANGED Ledger!ledgerVars
      BY <2>3, DrawIsLend, SameViewStutters DEF Ledger!Next
    <2>4. ASSUME NEW k, NEW p \in Pools, NEW l \in Lines, NEW n \in U32,
                 RepayTranche(k, p, l, n)
          PROVE  Ledger!Next \/ UNCHANGED Ledger!ledgerVars
      BY <2>4, RepayIsRecover, SameViewStutters DEF Ledger!Next
    <2>5. ASSUME NEW k, NEW l \in Lines, NEW r, NEW s, NEW e, NEW a,
                 PostReceipt(k, l, r, s, e, a)
          PROVE  Ledger!Next
      <3>1. PICK Q \in SUBSET Pools : Q = Losing(r)
        BY <2>a
      <3> QED BY <2>5, <3>1, PostingLoses DEF Ledger!Next
    <2>6. ASSUME NEW p \in Pools, NEW l \in Lines, NEW c, SettleMaturity(p, l, c)
          PROVE  Ledger!Next \/ UNCHANGED Ledger!ledgerVars
      <3>1. CASE SettleClean(p, l, c)
        BY <3>1, SettleCleanIsFinishOrStutter, SameViewStutters DEF Ledger!Next
      <3>2. CASE SettleDefault(p, l, c)
        BY <3>2, SettleDefaultIsFinish, SameViewStutters DEF Ledger!Next
      <3> QED BY <2>6, <3>1, <3>2 DEF SettleMaturity
    <2>7. ASSUME NEW k, NEW l \in Lines, NEW t, PauseLine(k, l, t)
          PROVE  UNCHANGED Ledger!ledgerVars
      BY <2>7, OthersKeepView, SameViewStutters
    <2>8. CASE UNCHANGED vars
      BY <2>8, OthersKeepView, SameViewStutters
    <2> QED
      BY <2>1, <2>2, <2>3, <2>4, <2>5, <2>6, <2>7, <2>8 DEF Next
  <1> QED
    BY <1>1, LedgerInit, RefinementInvariant, PTL
    DEF Spec, ImplementsLedger, Ledger!Spec

-----------------------------------------------------------------------------
(* The pools add their lines up.  A step touches one line and its pool, so   *)
(* the sums of the other pools stay, and those of its own pool follow the     *)
(* one term that changed.                                                     *)

\* The counters of the lines can be summed.
LEMMA LinesAreSummable ==
    ASSUME TypeOK, NEW p \in Pools
    PROVE  /\ IsFiniteSet(LinesOf(p))
           /\ \A l \in LinesOf(p) :
                /\ l \in Lines
                /\ Limits[l] = line[l].limit /\ Limits[l] \in Nat
                /\ Draws[l] = line[l].drawn /\ Draws[l] \in Nat
                /\ Repayments[l] = line[l].repaid /\ Repayments[l] \in Nat
                /\ Losses[l] = line[l].defaulted /\ Losses[l] \in Nat
  <1>1. IsFiniteSet(LinesOf(p))
    BY AddressAssumption, FS_Subset DEF LinesOf
  <1> QED
    BY <1>1, LineFields, BoundsAssumption
    DEF LinesOf, Limits, Draws, Repayments, Losses, U32

\* The four counters of a pool, as its lines have them.
SumsOfLines(p) ==
    [allocated |-> SumFunctionOnSet(Limits, LinesOf(p)),
     drawn |-> SumFunctionOnSet(Draws, LinesOf(p)),
     repaid |-> SumFunctionOnSet(Repayments, LinesOf(p)),
     defaulted |-> SumFunctionOnSet(Losses, LinesOf(p))]

\* A pool whose lines kept their counters has the sums it had.
LEMMA SumsStay ==
    ASSUME TypeOK, TypeOK', NEW p \in Pools, LinesOf(p)' = LinesOf(p),
           \A l \in LinesOf(p) : SameCounters(l) /\ line'[l].limit = line[l].limit
    PROVE  SumsOfLines(p)' = SumsOfLines(p)
  <1>1. IsFiniteSet(LinesOf(p)) /\ LinesOf(p) \subseteq Lines
    BY LinesAreSummable DEF LinesOf
  <1>2. \A l \in LinesOf(p) :
          /\ Limits'[l] = Limits[l] /\ Draws'[l] = Draws[l]
          /\ Repayments'[l] = Repayments[l] /\ Losses'[l] = Losses[l]
    BY <1>1 DEF Limits, Draws, Repayments, Losses, SameCounters
  <1>3. /\ SumFunctionOnSet(Limits', LinesOf(p)) = SumFunctionOnSet(Limits, LinesOf(p))
        /\ SumFunctionOnSet(Draws', LinesOf(p)) = SumFunctionOnSet(Draws, LinesOf(p))
        /\ SumFunctionOnSet(Repayments', LinesOf(p)) = SumFunctionOnSet(Repayments, LinesOf(p))
        /\ SumFunctionOnSet(Losses', LinesOf(p)) = SumFunctionOnSet(Losses, LinesOf(p))
    BY <1>1, <1>2, SumSame
  <1> QED BY <1>3 DEF SumsOfLines

\* When one line of a pool changes its counters, the sums change by as much.
LEMMA SumsFollow ==
    ASSUME TypeOK, TypeOK', NEW p \in Pools, NEW l \in LinesOf(p),
           LinesOf(p)' = LinesOf(p), line'[l].limit = line[l].limit,
           \A x \in LinesOf(p) : x # l => line'[x] = line[x]
    PROVE  LET before == SumsOfLines(p)
               after == SumsOfLines(p)'
           IN  /\ after.allocated = before.allocated
               /\ after.drawn = before.drawn + line'[l].drawn - line[l].drawn
               /\ after.repaid = before.repaid + line'[l].repaid - line[l].repaid
               /\ after.defaulted = before.defaulted + line'[l].defaulted - line[l].defaulted
  <1>1. /\ IsFiniteSet(LinesOf(p)) /\ LinesOf(p) \subseteq Lines
        /\ \A x \in LinesOf(p) :
             /\ Limits[x] \in Int /\ Draws[x] \in Int
             /\ Repayments[x] \in Int /\ Losses[x] \in Int
    BY LinesAreSummable
  <1>2. \A x \in LinesOf(p) :
             /\ Limits'[x] = line'[x].limit /\ Limits'[x] \in Int
             /\ Draws'[x] = line'[x].drawn /\ Draws'[x] \in Int
             /\ Repayments'[x] = line'[x].repaid /\ Repayments'[x] \in Int
             /\ Losses'[x] = line'[x].defaulted /\ Losses'[x] \in Int
    BY <1>1, BoundsAssumption
    DEF TypeOK, CreditLineAccount, U32, Limits, Draws, Repayments, Losses
  <1>3. /\ Limits[l] = line[l].limit /\ Draws[l] = line[l].drawn
        /\ Repayments[l] = line[l].repaid /\ Losses[l] = line[l].defaulted
    BY LinesAreSummable
  <1>4. \A x \in LinesOf(p) : x # l =>
             /\ Limits[x] = Limits'[x] /\ Draws[x] = Draws'[x]
             /\ Repayments[x] = Repayments'[x] /\ Losses[x] = Losses'[x]
    BY <1>1 DEF Limits, Draws, Repayments, Losses
  <1>5. SumFunctionOnSet(Limits', LinesOf(p))
          = SumFunctionOnSet(Limits, LinesOf(p)) + Limits'[l] - Limits[l]
    BY <1>1, <1>2, <1>4, SumUpdate
  <1>6. SumFunctionOnSet(Draws', LinesOf(p))
          = SumFunctionOnSet(Draws, LinesOf(p)) + Draws'[l] - Draws[l]
    BY <1>1, <1>2, <1>4, SumUpdate
  <1>7. SumFunctionOnSet(Repayments', LinesOf(p))
          = SumFunctionOnSet(Repayments, LinesOf(p)) + Repayments'[l] - Repayments[l]
    BY <1>1, <1>2, <1>4, SumUpdate
  <1>8. SumFunctionOnSet(Losses', LinesOf(p))
          = SumFunctionOnSet(Losses, LinesOf(p)) + Losses'[l] - Losses[l]
    BY <1>1, <1>2, <1>4, SumUpdate
  <1>9. SumFunctionOnSet(Limits, LinesOf(p)) \in Int
    BY <1>1, SumType
  <1> QED BY <1>1, <1>2, <1>3, <1>5, <1>6, <1>7, <1>8, <1>9 DEF SumsOfLines

\* A line that joins a pool brings its limit, and counters of zero.
LEMMA SumsGain ==
    ASSUME TypeOK, TypeOK', NEW p \in Pools, NEW l \in Lines, l \notin LinesOf(p),
           LinesOf(p)' = LinesOf(p) \cup {l},
           \A x \in LinesOf(p) : line'[x] = line[x],
           line'[l].drawn = 0, line'[l].repaid = 0, line'[l].defaulted = 0
    PROVE  LET before == SumsOfLines(p)
               after == SumsOfLines(p)'
           IN  /\ after.allocated = before.allocated + line'[l].limit
               /\ after.drawn = before.drawn
               /\ after.repaid = before.repaid
               /\ after.defaulted = before.defaulted
  <1> DEFINE S == LinesOf(p)
  <1>1. /\ IsFiniteSet(S) /\ S \subseteq Lines
        /\ \A x \in S : /\ Limits[x] \in Int /\ Draws[x] \in Int
                        /\ Repayments[x] \in Int /\ Losses[x] \in Int
    BY LinesAreSummable
  <1>2. \A x \in S \cup {l} :
             /\ Limits'[x] = line'[x].limit /\ Limits'[x] \in Int
             /\ Draws'[x] = line'[x].drawn /\ Draws'[x] \in Int
             /\ Repayments'[x] = line'[x].repaid /\ Repayments'[x] \in Int
             /\ Losses'[x] = line'[x].defaulted /\ Losses'[x] \in Int
    BY <1>1, BoundsAssumption
    DEF TypeOK, CreditLineAccount, U32, Limits, Draws, Repayments, Losses
  <1>3. \A x \in S : /\ Limits'[x] = Limits[x] /\ Draws'[x] = Draws[x]
                     /\ Repayments'[x] = Repayments[x] /\ Losses'[x] = Losses[x]
    BY <1>1 DEF Limits, Draws, Repayments, Losses
  <1> HIDE DEF S
  <1>4. l \notin S
    BY DEF S
  <1>5. /\ SumFunctionOnSet(Limits', S \cup {l}) = Limits'[l] + SumFunctionOnSet(Limits', S)
        /\ SumFunctionOnSet(Draws', S \cup {l}) = Draws'[l] + SumFunctionOnSet(Draws', S)
    BY <1>1, <1>2, <1>4, SumAdd
  <1>6. /\ SumFunctionOnSet(Repayments', S \cup {l})
             = Repayments'[l] + SumFunctionOnSet(Repayments', S)
        /\ SumFunctionOnSet(Losses', S \cup {l}) = Losses'[l] + SumFunctionOnSet(Losses', S)
    BY <1>1, <1>2, <1>4, SumAdd
  <1>7. /\ SumFunctionOnSet(Limits', S) = SumFunctionOnSet(Limits, S)
        /\ SumFunctionOnSet(Draws', S) = SumFunctionOnSet(Draws, S)
        /\ SumFunctionOnSet(Repayments', S) = SumFunctionOnSet(Repayments, S)
        /\ SumFunctionOnSet(Losses', S) = SumFunctionOnSet(Losses, S)
    BY <1>1, <1>3, SumSame
  <1>8. /\ SumFunctionOnSet(Limits, S) \in Int /\ SumFunctionOnSet(Draws, S) \in Int
        /\ SumFunctionOnSet(Repayments, S) \in Int /\ SumFunctionOnSet(Losses, S) \in Int
    BY <1>1, SumType
  <1>9. Limits'[l] = line'[l].limit /\ Draws'[l] = 0 /\ Repayments'[l] = 0 /\ Losses'[l] = 0
        /\ Limits'[l] \in Int
    BY <1>2
  <1> QED BY <1>5, <1>6, <1>7, <1>8, <1>9 DEF SumsOfLines, S

\* PoolIsSumOfLines in terms of SumsOfLines.
LEMMA SumsTell ==
    PoolIsSumOfLines <=>
      \A p \in Pools \ spoilt :
        /\ pool[p].allocated = SumsOfLines(p).allocated
        /\ pool[p].drawn = SumsOfLines(p).drawn
        /\ pool[p].repaid = SumsOfLines(p).repaid
        /\ pool[p].defaulted = SumsOfLines(p).defaulted
  BY DEF PoolIsSumOfLines, SumsOfLines

\* Every instruction keeps the sums.
LEMMA PoolSumsNext ==
    RefinementInv /\ PoolIsSumOfLines /\ [Next]_vars => PoolIsSumOfLines'
  <1> SUFFICES ASSUME RefinementInv, PoolIsSumOfLines, [Next]_vars,
                      NEW q \in Pools \ spoilt'
               PROVE  /\ pool'[q].allocated = SumsOfLines(q)'.allocated
                      /\ pool'[q].drawn = SumsOfLines(q)'.drawn
                      /\ pool'[q].repaid = SumsOfLines(q)'.repaid
                      /\ pool'[q].defaulted = SumsOfLines(q)'.defaulted
    BY DEF PoolIsSumOfLines, SumsOfLines
  <1> DEFINE Kept == /\ pool'[q].allocated = pool[q].allocated
                     /\ pool'[q].drawn = pool[q].drawn
                     /\ pool'[q].repaid = pool[q].repaid
                     /\ pool'[q].defaulted = pool[q].defaulted
             Goal == /\ pool'[q].allocated = SumsOfLines(q)'.allocated
                     /\ pool'[q].drawn = SumsOfLines(q)'.drawn
                     /\ pool'[q].repaid = SumsOfLines(q)'.repaid
                     /\ pool'[q].defaulted = SumsOfLines(q)'.defaulted
  <1>a. /\ TypeOK /\ TypeOK' /\ BlankUntilOpened
        /\ \A l \in Lines : line[l].pool \in Pools => Initialized(line[l])
        /\ q \in Pools /\ q \notin spoilt /\ q \notin spoilt'
    BY TypeOKNext, AddressAssumption, SpoiltGrows
    DEF RefinementInv, BlankUntilOpened, EmptyLine
  <1>b. /\ pool[q].allocated = SumsOfLines(q).allocated
        /\ pool[q].drawn = SumsOfLines(q).drawn
        /\ pool[q].repaid = SumsOfLines(q).repaid
        /\ pool[q].defaulted = SumsOfLines(q).defaulted
    BY <1>a, SumsTell
  <1>c. ASSUME Kept, LinesOf(q)' = LinesOf(q),
               \A l \in LinesOf(q) : SameCounters(l) /\ line'[l].limit = line[l].limit
        PROVE  Goal
    BY <1>a, <1>b, <1>c, SumsStay
  <1> DEFINE Elsewhere(l) == \A x \in Lines : x # l => line'[x] = line[x]
  <1>d. ASSUME NEW l \in Lines, Elsewhere(l), line'[l].pool = line[l].pool,
               line[l].pool # q, Kept
        PROVE  Goal
    <2>1. LinesOf(q)' = LinesOf(q) /\ l \notin LinesOf(q)
      BY <1>d DEF LinesOf
    <2>2. \A x \in LinesOf(q) : SameCounters(x) /\ line'[x].limit = line[x].limit
      BY <1>d, <2>1 DEF LinesOf, SameCounters
    <2> QED BY <1>c, <1>d, <2>1, <2>2
  <1>e. ASSUME NEW l \in Lines, Elsewhere(l), line'[l].pool = line[l].pool,
               line[l].pool = q, line'[l].limit = line[l].limit
        PROVE  /\ SumsOfLines(q)'.allocated = pool[q].allocated
               /\ SumsOfLines(q)'.drawn = pool[q].drawn + line'[l].drawn - line[l].drawn
               /\ SumsOfLines(q)'.repaid = pool[q].repaid + line'[l].repaid - line[l].repaid
               /\ SumsOfLines(q)'.defaulted
                    = pool[q].defaulted + line'[l].defaulted - line[l].defaulted
    <2>1. LinesOf(q)' = LinesOf(q) /\ l \in LinesOf(q)
      BY <1>e DEF LinesOf
    <2>2. \A x \in LinesOf(q) : x # l => line'[x] = line[x]
      BY <1>e DEF LinesOf
    <2> QED BY <1>a, <1>b, <1>e, <2>1, <2>2, SumsFollow
  <1>f. ASSUME NEW a, spoilt' = spoilt \cup Losing(a)
        PROVE  /\ PoolsWithout(a)[q] = pool[q]
               /\ PoolsWithout(a) \in [Pools -> PoolAccount]
               /\ \A x \in Lines : /\ x = a => x \notin LinesOf(q)
                                   /\ LinesWithout(a)[x]
                                       = IF x = a THEN EmptyLine ELSE line[x]
    <2>1. Initialized(pool[q]) => q # a
      BY <1>a, <1>f, UnspoiltIsElsewhere
    <2>2. PoolsWithout(a)[q] = pool[q]
      BY <1>a, <2>1, OtherReadings DEF BlankUntilOpened
    <2>3. \A x \in Lines : x = a => x \notin LinesOf(q)
      BY <1>a, <1>f, UnspoiltIsElsewhere DEF LinesOf
    <2> QED BY <1>a, <2>2, <2>3, OtherReadings
  <1>g. ASSUME NEW a, spoilt' = spoilt \cup Losing(a), Kept,
               \A x \in Lines : /\ x = a => line'[x] = EmptyLine
                                /\ x # a => SameIdentity(x) /\ SameCounters(x)
        PROVE  Goal
    <2>1. LinesOf(q)' = LinesOf(q)
      <3>1. EmptyLine.pool # q
        BY <1>a, AddressAssumption DEF EmptyLine
      <3>2. ASSUME NEW x \in Lines
            PROVE  line'[x].pool = q <=> line[x].pool = q
        <4>1. x = a => line[x].pool # q
          BY <1>f, <1>g DEF LinesOf
        <4>2. CASE x = a
          <5>1. line'[x] = EmptyLine
            BY <1>g, <4>2
          <5> QED BY <3>1, <4>1, <4>2, <5>1
        <4>3. CASE x # a
          <5>1. SameIdentity(x)
            BY <1>g, <4>3
          <5> QED BY <5>1 DEF SameIdentity
        <4> QED BY <4>2, <4>3
      <3> QED BY <3>2 DEF LinesOf
    <2>2. \A x \in LinesOf(q) : SameCounters(x) /\ line'[x].limit = line[x].limit
      BY <1>f, <1>g DEF LinesOf, SameIdentity
    <2> QED BY <1>c, <1>g, <2>1, <2>2
  <1>1. ASSUME NEW p \in Pools, NEW u, NEW a, NEW t, NEW n, NEW m,
               InitializePool(p, u, a, t, n, m)
        PROVE  Goal
    <2>1. Kept
      BY <1>1, <1>a
      DEF InitializePool, BlankUntilOpened, EmptyPool, TypeOK, PoolAccount
    <2>2. \A x \in Lines : /\ x = p => line'[x] = EmptyLine
                           /\ x # p => SameIdentity(x) /\ SameCounters(x)
      BY <1>1, <1>a, OtherReadings DEF InitializePool, SameIdentity, SameCounters
    <2>3. spoilt' = spoilt \cup Losing(p)
      BY <1>1 DEF InitializePool
    <2> QED BY <1>g, <2>1, <2>2, <2>3
  <1>2. ASSUME NEW k, NEW p \in Pools, NEW l \in Lines, NEW b,
               NEW n \in U32, NEW o, NEW m,
               ApproveCreditLine(k, p, l, b, n, o, m)
        PROVE  Goal
    <2>1. l \notin LinesOf(q) /\ Elsewhere(l) /\ line'[l].pool = p
      BY <1>2, <1>a DEF ApproveCreditLine, FitsPool, LinesOf, TypeOK
    <2>0. PoolsWithout(l)[q] = pool[q] /\ PoolsWithout(l) \in [Pools -> PoolAccount]
      BY <1>f, <1>2 DEF ApproveCreditLine
    <2>2. CASE q # p
      <3>1. Kept
        BY <1>2, <2>0, <2>2 DEF ApproveCreditLine
      <3>2. LinesOf(q)' = LinesOf(q)
        BY <2>1, <2>2 DEF LinesOf
      <3>3. \A x \in LinesOf(q) : SameCounters(x) /\ line'[x].limit = line[x].limit
        BY <2>1 DEF LinesOf, SameCounters
      <3> QED BY <1>c, <3>1, <3>2, <3>3
    <2>3. CASE q = p
      <3>1. LinesOf(q)' = LinesOf(q) \cup {l}
        BY <2>1, <2>3 DEF LinesOf
      <3>2. \A x \in LinesOf(q) : line'[x] = line[x]
        BY <2>1 DEF LinesOf
      <3>3. /\ line'[l].drawn = 0 /\ line'[l].repaid = 0 /\ line'[l].defaulted = 0
            /\ line'[l].limit = n
        BY <1>2, <1>a DEF ApproveCreditLine, FitsPool, TypeOK
      <3>4. /\ SumsOfLines(q)'.allocated = SumsOfLines(q).allocated + n
            /\ SumsOfLines(q)'.drawn = SumsOfLines(q).drawn
            /\ SumsOfLines(q)'.repaid = SumsOfLines(q).repaid
            /\ SumsOfLines(q)'.defaulted = SumsOfLines(q).defaulted
        BY <1>a, <2>1, <3>1, <3>2, <3>3, SumsGain
      <3>5. /\ pool'[q].allocated = pool[q].allocated + n
            /\ pool'[q].drawn = pool[q].drawn
            /\ pool'[q].repaid = pool[q].repaid
            /\ pool'[q].defaulted = pool[q].defaulted
        BY <1>2, <2>0, <2>3 DEF ApproveCreditLine, PoolAccount
      <3> QED BY <1>b, <3>4, <3>5
    <2> QED BY <2>2, <2>3
  <1>3. ASSUME NEW k, NEW p \in Pools, NEW l \in Lines, NEW n \in U32, NEW c,
               DrawTranche(k, p, l, n, c)
        PROVE  Goal
    <2>1. /\ Elsewhere(l) /\ line[l].pool = p /\ line'[l].pool = p
          /\ line'[l].limit = line[l].limit
          /\ line'[l].drawn = line[l].drawn + n
          /\ line'[l].repaid = line[l].repaid /\ line'[l].defaulted = line[l].defaulted
      BY <1>3, <1>a DEF DrawTranche, LineInPool, TypeOK, CreditLineAccount
    <2>2. CASE q # p
      <3>1. Kept
        BY <1>a, <1>3, <2>2 DEF DrawTranche, TypeOK
      <3> QED BY <1>d, <2>1, <2>2, <3>1
    <2>3. CASE q = p
      <3>1. /\ pool'[q].allocated = pool[q].allocated
            /\ pool'[q].drawn = pool[q].drawn + n
            /\ pool'[q].repaid = pool[q].repaid
            /\ pool'[q].defaulted = pool[q].defaulted
        BY <1>3, <1>a, <2>3 DEF DrawTranche, TypeOK, PoolAccount
      <3> HIDE DEF Elsewhere
      <3> QED BY <1>a, <1>e, <2>1, <2>3, <3>1, PoolFields, LineFields, BoundsAssumption DEF U32
    <2> QED BY <2>2, <2>3
  <1>4. ASSUME NEW k, NEW p \in Pools, NEW l \in Lines, NEW n \in U32,
               RepayTranche(k, p, l, n)
        PROVE  Goal
    <2>1. /\ Elsewhere(l) /\ line[l].pool = p /\ line'[l].pool = p
          /\ line'[l].limit = line[l].limit
          /\ line'[l].drawn = line[l].drawn
          /\ line'[l].repaid = line[l].repaid + n /\ line'[l].defaulted = line[l].defaulted
      BY <1>4, <1>a DEF RepayTranche, LineInPool, TypeOK, CreditLineAccount
    <2>2. CASE q # p
      <3>1. Kept
        BY <1>a, <1>4, <2>2 DEF RepayTranche, TypeOK
      <3> QED BY <1>d, <2>1, <2>2, <3>1
    <2>3. CASE q = p
      <3>1. /\ pool'[q].allocated = pool[q].allocated
            /\ pool'[q].drawn = pool[q].drawn
            /\ pool'[q].repaid = pool[q].repaid + n
            /\ pool'[q].defaulted = pool[q].defaulted
        BY <1>4, <1>a, <2>3 DEF RepayTranche, TypeOK, PoolAccount
      <3> HIDE DEF Elsewhere
      <3> QED BY <1>a, <1>e, <2>1, <2>3, <3>1, PoolFields, LineFields, BoundsAssumption DEF U32
    <2> QED BY <2>2, <2>3
  <1>5. ASSUME NEW p \in Pools, NEW l \in Lines, NEW c, SettleDefault(p, l, c)
        PROVE  Goal
    <2>1. /\ Elsewhere(l) /\ line[l].pool = p /\ line'[l].pool = p
          /\ line'[l].limit = line[l].limit
          /\ line'[l].drawn = line[l].drawn
          /\ line'[l].repaid = line[l].repaid
          /\ line'[l].defaulted = line[l].defaulted + Outstanding(l)
      BY <1>5, <1>a DEF SettleDefault, LineInPool, TypeOK, CreditLineAccount
    <2>2. CASE q # p
      <3>1. Kept
        BY <1>a, <1>5, <2>2 DEF SettleDefault, TypeOK
      <3> QED BY <1>d, <2>1, <2>2, <3>1
    <2>3. CASE q = p
      <3>1. /\ pool'[q].allocated = pool[q].allocated
            /\ pool'[q].drawn = pool[q].drawn
            /\ pool'[q].repaid = pool[q].repaid
            /\ pool'[q].defaulted = pool[q].defaulted + Outstanding(l)
        BY <1>5, <1>a, <2>3 DEF SettleDefault, TypeOK, PoolAccount
      <3> HIDE DEF Elsewhere
      <3> QED BY <1>a, <1>e, <2>1, <2>3, <3>1, PoolFields, LineFields, BoundsAssumption DEF U32
    <2> QED BY <2>2, <2>3
  <1>6. ASSUME UNCHANGED pool,
               \A l \in Lines : SameIdentity(l) /\ SameCounters(l)
        PROVE  Goal
    <2>1. Kept /\ LinesOf(q)' = LinesOf(q)
      BY <1>6 DEF LinesOf, SameIdentity
    <2>2. \A l \in LinesOf(q) : SameCounters(l) /\ line'[l].limit = line[l].limit
      BY <1>6 DEF LinesOf, SameIdentity
    <2> QED BY <1>c, <2>1, <2>2
  <1>7. ASSUME NEW k, NEW l \in Lines, NEW r, NEW s, NEW e, NEW a,
               PostReceipt(k, l, r, s, e, a)
        PROVE  Goal
    <2>1. spoilt' = spoilt \cup Losing(r)
      BY <1>7 DEF PostReceipt
    <2>2. Kept
      BY <1>7, <1>f, <2>1 DEF PostReceipt
    <2>3. /\ \A x \in Lines : LinesWithout(r)[x] = IF x = r THEN EmptyLine ELSE line[x]
          /\ LinesWithout(r) \in [Lines -> CreditLineAccount]
      BY <1>a, OtherReadings
    <2>4. \A x \in Lines : /\ x = r => line'[x] = EmptyLine
                           /\ x # r => SameIdentity(x) /\ SameCounters(x)
      BY <1>7, <2>3 DEF PostReceipt, CreditLineAccount, SameIdentity, SameCounters
    <2> QED BY <1>g, <2>1, <2>2, <2>4
  <1>8. ASSUME NEW p \in Pools, NEW l \in Lines, NEW c, SettleClean(p, l, c)
        PROVE  Goal
    BY <1>6, <1>8, <1>a DEF SettleClean, TypeOK, CreditLineAccount, SameIdentity, SameCounters
  <1>9. ASSUME NEW k, NEW l \in Lines, NEW t, PauseLine(k, l, t)
        PROVE  Goal
    BY <1>6, <1>9, <1>a DEF PauseLine, TypeOK, CreditLineAccount, SameIdentity, SameCounters
  <1>10. CASE UNCHANGED vars
    BY <1>6, <1>10 DEF vars, SameIdentity, SameCounters
  <1> QED
    BY <1>1, <1>2, <1>3, <1>4, <1>5, <1>7, <1>8, <1>9, <1>10
    DEF Next, SettleMaturity

\* What a pool handed out stays within its limit: only approvals add to it.
AllocatedWithinLimit == \A p \in Pools : pool[p].allocated <= pool[p].totalLimit

\* Every instruction keeps it.
LEMMA AllocatedWithinLimitNext ==
    RefinementInv /\ AllocatedWithinLimit /\ [Next]_vars => AllocatedWithinLimit'
  <1> SUFFICES ASSUME RefinementInv, AllocatedWithinLimit, [Next]_vars, NEW q \in Pools
               PROVE  pool'[q].allocated <= pool'[q].totalLimit
    BY DEF AllocatedWithinLimit
  <1>a. pool[q].allocated <= pool[q].totalLimit /\ TypeOK
    BY DEF AllocatedWithinLimit, RefinementInv
  <1> USE BoundsAssumption DEF U32, TypeOK, PoolAccount
  <1>1. ASSUME NEW p \in Pools, NEW u, NEW a, NEW t, NEW n \in U32, NEW m,
               InitializePool(p, u, a, t, n, m)
        PROVE  pool'[q].allocated <= pool'[q].totalLimit
    BY <1>1, <1>a DEF InitializePool, EmptyPool
  <1>2. ASSUME NEW k, NEW p \in Pools, NEW l, NEW b, NEW n \in U32, NEW o, NEW m,
               ApproveCreditLine(k, p, l, b, n, o, m)
        PROVE  pool'[q].allocated <= pool'[q].totalLimit
    <2>1. /\ PoolsWithout(l)[q] = IF q = l THEN EmptyPool ELSE pool[q]
          /\ PoolsWithout(l) \in [Pools -> PoolAccount]
      BY <1>a, OtherReadings
    <2> QED BY <1>2, <1>a, <2>1 DEF ApproveCreditLine, FitsPool, EmptyPool
  <1>7. ASSUME NEW k, NEW l, NEW r, NEW s, NEW e, NEW a,
               PostReceipt(k, l, r, s, e, a)
        PROVE  pool'[q].allocated <= pool'[q].totalLimit
    BY <1>7, <1>a, OtherReadings DEF PostReceipt, EmptyPool
  <1>3. ASSUME pool'[q].allocated = pool[q].allocated, pool'[q].totalLimit = pool[q].totalLimit
        PROVE  pool'[q].allocated <= pool'[q].totalLimit
    BY <1>3, <1>a
  <1>4. ASSUME NEW k, NEW p \in Pools, NEW l, NEW n \in U32, NEW c,
               DrawTranche(k, p, l, n, c) \/ RepayTranche(k, p, l, n)
        PROVE  pool'[q].allocated <= pool'[q].totalLimit
    BY <1>3, <1>4, <1>a DEF DrawTranche, RepayTranche
  <1>5. ASSUME NEW p \in Pools, NEW l, NEW c, SettleMaturity(p, l, c)
        PROVE  pool'[q].allocated <= pool'[q].totalLimit
    BY <1>3, <1>5, <1>a DEF SettleMaturity, SettleClean, SettleDefault
  <1>6. CASE UNCHANGED pool
    BY <1>3, <1>6
  <1> QED
    BY <1>1, <1>2, <1>4, <1>5, <1>6, <1>7 DEF Next, PauseLine, vars

\* What the accounting of the pools rests on.
PoolInv == RefinementInv /\ PoolIsSumOfLines /\ AllocatedWithinLimit /\ PoolConserved

\* It holds from the empty accounts on.
LEMMA PoolInvariant == Spec => []PoolInv
  <1>1. Init => PoolInv
    <2> SUFFICES ASSUME Init PROVE PoolInv
      OBVIOUS
    <2>1. RefinementInv
      BY TypeOKInit, LineAccountingInit, LineMatchesPoolInit
      DEF Init, BlankUntilOpened, RefinementInv
    <2>2. AllocatedWithinLimit /\ PoolConserved
      BY DEF Init, EmptyPool, AllocatedWithinLimit, PoolConserved
    <2>3. ASSUME NEW p \in Pools PROVE LinesOf(p) = {}
      BY AddressAssumption DEF Init, EmptyLine, LinesOf
    <2>4. PoolIsSumOfLines
      BY <2>3, SumEmpty DEF Init, EmptyPool, PoolIsSumOfLines
    <2> QED BY <2>1, <2>2, <2>4 DEF PoolInv
  <1>2. PoolInv /\ [Next]_vars => PoolInv'
    BY TypeOKNext, LineAccountingNext, LineMatchesPoolNext, BlankNext, PoolSumsNext,
       AllocatedWithinLimitNext, PoolConservedNext
    DEF PoolInv, RefinementInv
  <1> QED BY <1>1, <1>2, PTL DEF Spec

\* A pool's counters are the sums of its lines', for any number of lines, and what
\* they drew and were granted stays within its limit, until one of its accounts
\* is taken for another type; what becomes of the other pools does not matter.
THEOREM PoolsAddTheirLinesUp == Spec => []PoolAccounting
  <1>1. PoolInv => PoolAccounting
    <2> SUFFICES ASSUME PoolInv, NEW p \in Pools \ spoilt
                 PROVE  pool[p].drawn <= pool[p].allocated
      BY DEF PoolInv, PoolAccounting, PoolWithinLimit, AllocatedWithinLimit
    <2>1. TypeOK /\ LineAccounting
      BY DEF PoolInv, RefinementInv
    <2>2. IsFiniteSet(LinesOf(p))
      BY <2>1, LinesAreSummable
    <2>3. \A l \in LinesOf(p) :
            Draws[l] \in Int /\ Limits[l] \in Int /\ Draws[l] <= Limits[l]
      BY <2>1, LinesAreSummable DEF LineAccounting, LineWithinLimit
    <2>4. SumFunctionOnSet(Draws, LinesOf(p)) <= SumFunctionOnSet(Limits, LinesOf(p))
      BY <2>2, <2>3, SumMonotone
    <2> QED BY <2>4 DEF PoolInv, PoolIsSumOfLines
  <1> QED BY <1>1, PoolInvariant, PTL

\* The debts of the lines of a pool are what the pool has outstanding, so that no
\* one of them is more.
LEMMA DebtIsPartOfThePool ==
    ASSUME PoolInv, NEW p \in Pools \ spoilt, NEW l \in LinesOf(p)
    PROVE  Outstanding(l) <= pool[p].outstanding
  <1> DEFINE Debts == [x \in Lines |-> Outstanding(x)]
             Left == [x \in Lines |-> line[x].repaid + line[x].defaulted]
             S == LinesOf(p)
  <1>a. TypeOK /\ LineAccounting
    BY DEF PoolInv, RefinementInv
  <1>1. /\ IsFiniteSet(S)
        /\ \A x \in S : /\ Draws[x] \in Int /\ Repayments[x] \in Int /\ Losses[x] \in Int
                        /\ Left[x] = Repayments[x] + Losses[x]
                        /\ Left[x] \in Int
                        /\ Debts[x] \in Nat
                        /\ Draws[x] = Debts[x] + Left[x]
    <2>1. ASSUME NEW x \in S
          PROVE  /\ x \in Lines /\ Left[x] = line[x].repaid + line[x].defaulted
                 /\ Debts[x] = line[x].drawn - line[x].repaid - line[x].defaulted
                 /\ line[x].repaid + line[x].defaulted <= line[x].drawn
      BY <1>a, LinesAreSummable, LineFields, BoundsAssumption
      DEF LineAccounting, LineWithinLimit, OutstandingDefined, Outstanding, U32
    <2> HIDE DEF Debts, Left
    <2> QED BY <1>a, <2>1, LinesAreSummable
  <1>2. Debts[l] = Outstanding(l) /\ l \in S
    BY DEF LinesOf
  <1> HIDE DEF Debts, Left, S
  <1>3. SumFunctionOnSet(Left, S)
          = SumFunctionOnSet(Repayments, S) + SumFunctionOnSet(Losses, S)
    BY <1>1, SumPlus
  <1>4. SumFunctionOnSet(Draws, S) = SumFunctionOnSet(Debts, S) + SumFunctionOnSet(Left, S)
    BY <1>1, SumPlus
  <1>5. Debts[l] <= SumFunctionOnSet(Debts, S)
    BY <1>1, <1>2, SumOfNaturals
  <1>6. /\ SumFunctionOnSet(Debts, S) \in Int /\ SumFunctionOnSet(Repayments, S) \in Int
        /\ SumFunctionOnSet(Losses, S) \in Int
    BY <1>1, SumType
  <1>7. pool[p].outstanding
          = SumFunctionOnSet(Draws, S) - SumFunctionOnSet(Repayments, S)
              - SumFunctionOnSet(Losses, S)
    BY DEF PoolInv, PoolIsSumOfLines, PoolConserved, S
  <1> QED BY <1>2, <1>3, <1>4, <1>5, <1>6, <1>7

\* The checked arithmetic of a repayment or a settlement never turns a legal one
\* down, however many lines share the pool, as long as it lost no account.
THEOREM DebtAlwaysLeaves == Spec => []DebtCanAlwaysLeave
  <1>1. PoolInv => DebtCanAlwaysLeave
    <2> SUFFICES ASSUME PoolInv, NEW l \in Lines, Unspoilt(l)
                 PROVE  LET p == line[l].pool IN
                        /\ Outstanding(l) <= pool[p].outstanding
                        /\ line[l].repaid + Outstanding(l) <= MaxU32
                        /\ pool[p].repaid + Outstanding(l) <= MaxU32
                        /\ line[l].defaulted + Outstanding(l) <= MaxU32
                        /\ pool[p].defaulted + Outstanding(l) <= MaxU32
      BY DEF DebtCanAlwaysLeave
    <2> DEFINE p == line[l].pool
    <2>1. /\ TypeOK /\ LineAccounting /\ l \in LinesOf(p)
          /\ p \in Pools /\ p \notin spoilt
      BY DEF PoolInv, RefinementInv, LineMatchesPool, Unspoilt, LinesOf
    <2>2. Outstanding(l) <= pool[p].outstanding
      BY <2>1, DebtIsPartOfThePool
    <2>3. pool[p].outstanding = pool[p].drawn - pool[p].repaid - pool[p].defaulted
      BY <2>1 DEF PoolInv, PoolConserved
    <2>4. OutstandingDefined(l)
      BY <2>1 DEF LineAccounting, LineWithinLimit
    <2>5. /\ pool[p].outstanding \in U32 /\ pool[p].drawn \in U32
          /\ pool[p].repaid \in U32 /\ pool[p].defaulted \in U32
      BY <2>1, PoolFields
    <2>6. line[l].drawn \in U32 /\ line[l].repaid \in U32 /\ line[l].defaulted \in U32
      BY <2>1, LineFields
    <2> HIDE DEF p
    <2>7. /\ line[l].repaid + Outstanding(l) <= MaxU32
          /\ line[l].defaulted + Outstanding(l) <= MaxU32
      BY <2>4, <2>6, BoundsAssumption DEF U32, Outstanding, OutstandingDefined
    <2>8. /\ pool[p].repaid + Outstanding(l) <= MaxU32
          /\ pool[p].defaulted + Outstanding(l) <= MaxU32
      BY <2>1, <2>2, <2>3, <2>5, LineFields, BoundsAssumption DEF U32
    <2> QED BY <2>2, <2>7, <2>8 DEF p
  <1> QED BY <1>1, PoolInvariant, PTL

-----------------------------------------------------------------------------
(* Clients that make a new key for every account.                           *)

\* With addresses of their own, no account is taken for another type: an instruction
\* writes the accounts of its own type only.
LEMMA FreshKeysAreNotTaken ==
    ASSUME Pools \cap Lines = {}, Lines \cap Receipts = {}, Receipts \cap Pools = {},
           pool = [x \in Pools |-> pool[x]], line = [x \in Lines |-> line[x]]
    PROVE  /\ \A p \in Pools : LinesWithout(p) = line
           /\ \A l \in Lines : PoolsWithout(l) = pool
           /\ \A p \in Pools : ~Initialized(pool[p]) => Losing(p) = {}
           /\ \A l \in Lines : ~Initialized(line[l]) => Losing(l) = {}
  <1>1. ASSUME NEW p \in Pools PROVE LinesWithout(p) = line
    <2>1. \A x \in Lines : x # p
      OBVIOUS
    <2>2. LinesWithout(p) = [x \in Lines |-> line[x]]
      BY <2>1, Zenon DEF LinesWithout
    <2> QED BY <2>2
  <1>2. ASSUME NEW l \in Lines PROVE PoolsWithout(l) = pool
    <2>1. \A x \in Pools : x # l
      OBVIOUS
    <2>2. PoolsWithout(l) = [x \in Pools |-> pool[x]]
      BY <2>1, Zenon DEF PoolsWithout
    <2> QED BY <2>2
  <1>3. ASSUME NEW p \in Pools, ~Initialized(pool[p]) PROVE Losing(p) = {}
    BY <1>3 DEF Losing
  <1>4. ASSUME NEW l \in Lines, ~Initialized(line[l]) PROVE Losing(l) = {}
    BY <1>4 DEF Losing
  <1> QED BY <1>1, <1>2, <1>3, <1>4

=============================================================================
