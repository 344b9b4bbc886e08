----------------------------- MODULE PageProofs -----------------------------
(***************************************************************************)
(* Proofs about the pages of the web client, for any pools, lines, notes,  *)
(* wallets, mints and edits: a line approved on the pool that the          *)
(* underwriter page showed keeps to the mandate typed for it, however late *)
(* the reads and the approvals come; the entry of a wallet keeps the notes *)
(* and tells of each what became of it, whatever pages and handlers        *)
(* follow; and the home page keeps the addresses of its line.  At the end  *)
(* the scripts, and all the parts beside each other: what was proved of    *)
(* each alone holds of their composition.                                  *)
(*                                                                         *)
(* A pool's note size and maturity never change once it is initialized,    *)
(* so what was read, and what was sent, stays true of the chain.           *)
(***************************************************************************)
EXTENDS Parts, LibraryProofs, ServerProofs, CreditVaultProofs

-----------------------------------------------------------------------------
(* The underwriter page.                                                   *)

PoolData == {NoPoolData} \cup [of : Pools, noteSize : Terms, maturity : Slots]

Form == [typed : Pools \cup {ZeroKey}, spend : Nat, data : PoolData,
         loading : BOOLEAN, busy : BOOLEAN]

NoMandate == [of |-> ZeroKey]
Mandate == {NoMandate} \cup [of : Pools, typed : Pools, noteSize : Terms, spend : Nat]

Approval == [pool : Pools, line : Lines, opened : Nat, limit : Nat, maturity : Slots]

PageValues ==
    /\ pool \in [Pools -> PoolAccount]
    /\ line = [l \in Lines |-> line[l]]
    /\ slot \in Nat
    /\ form \in Form
    /\ sent \subseteq Approval
    /\ mandate \in [Lines -> Mandate]

\* Among these pools p is one with this note size and this maturity.
PoolTells(pools, p, noteSize, maturity) ==
    /\ Initialized(pools[p])
    /\ pools[p].terms = noteSize
    /\ pools[p].maturity = maturity

MandateInv ==
    /\ PageValues
    /\ \A l \in Lines :
          Initialized(line[l]) => line[l].pool \in Pools /\ Initialized(pool[line[l].pool])
    /\ \A p \in Pools : Initialized(pool[p]) => pool[p].terms \in Terms
    /\ form.data # NoPoolData =>
          PoolTells(pool, form.data.of, form.data.noteSize, form.data.maturity)
    /\ \A tx \in sent : LET m == mandate[tx.line] IN
          /\ m # NoMandate
          /\ tx.limit = LimitNotes(m.spend, m)
          /\ PoolTells(pool, m.of, m.noteSize, tx.maturity)
    /\ MandateKept

-----------------------------------------------------------------------------
(* Whole notes, and the chain below the page.                              *)

\* The whole notes that an amount pays for cost no more than it.
LEMMA WholeNotesFit ==
    ASSUME NEW amount \in Nat, NEW size \in Nat, size > 0
    PROVE  (amount \div size) * size <= amount /\ amount \div size \in Nat
OBVIOUS

\* Sizes of notes are positive numbers.
LEMMA SizesArePositive ==
    ASSUME NEW size \in Terms
    PROVE  size \in Nat /\ size > 0
BY UnderwriterAssumption

\* No pool is at the empty address: a mandate that names a pool is one.
LEMMA MandatesNamePools ==
    ASSUME NEW m \in Mandate
    PROVE  m # NoMandate <=> m.of \in Pools
BY AddressAssumption DEF Mandate, NoMandate

\* A pool that appears is new, and tells its own terms.
LEMMA PoolAppearsKeepsPools ==
    ASSUME PageValues, NEW q \in Pools, PoolAppears(q)
    PROVE  /\ pool' \in [Pools -> PoolAccount]
           /\ \A p \in Pools : Initialized(pool[p]) => pool'[p] = pool[p]
           /\ Initialized(pool'[q]) /\ pool'[q].terms \in Terms
           /\ \A p \in Pools : p # q => pool'[p] = pool[p]
           /\ line' = line
<1>1. PICK u \in Underwriters, a \in Auditors, t \in Terms, m \in Slots :
          InitializePool(q, u, a, t, PoolSize, m)
  BY DEF PoolAppears
<1> DEFINE new == [EmptyPool EXCEPT !.status = "Active", !.underwriter = u, !.auditor = a,
                                    !.terms = t, !.totalLimit = PoolSize, !.maturity = m]
<1>2. pool' = [pool EXCEPT ![q] = new] /\ ~Initialized(pool[q])
  BY <1>1 DEF InitializePool
<1>2a. line' = line
  BY <1>1, FreshKeyAssumption, FreshKeysAreNotTaken DEF InitializePool, PageValues
<1>3. new \in PoolAccount
  <2>1. PoolSize \in U32 /\ 0 \in U32
    BY UnderwriterAssumption, BoundsAssumption DEF U32
  <2>2. /\ u \in Keys \cup {ZeroKey} /\ a \in Keys \cup {ZeroKey}
        /\ t \in Terms \cup {NoTerms} /\ "Active" \in PoolStatus
    BY DEF Keys, PoolStatus
  <2>3. EmptyPool \in PoolAccount
    BY <2>1, BoundsAssumption DEF EmptyPool, PoolAccount, PoolStatus, Slots
  <2> QED BY <2>1, <2>2, <2>3 DEF PoolAccount
<1>4. Initialized(new) /\ new.terms \in Terms
  BY DEF Initialized, EmptyPool
<1> HIDE DEF new
<1> QED BY <1>2, <1>2a, <1>3, <1>4 DEF PageValues

\* An approval changes no term of a pool.
LEMMA ApprovalKeepsPools ==
    ASSUME PageValues, NEW tx \in sent, ApprovalLands(tx)
    PROVE  /\ pool' \in [Pools -> PoolAccount]
           /\ \A p \in Pools : /\ Initialized(pool'[p]) <=> Initialized(pool[p])
                               /\ pool'[p].terms = pool[p].terms
                               /\ pool'[p].maturity = pool[p].maturity
<1>1. tx \in Approval /\ tx.pool \in Pools /\ tx.limit \in Nat
  BY DEF PageValues, Approval
<1>1a. tx.line \in Lines /\ PoolsWithout(tx.line) = pool
  BY FreshKeyAssumption, FreshKeysAreNotTaken DEF PageValues, Approval
<1>2. /\ pool' = [pool EXCEPT ![tx.pool].allocated = @ + tx.limit]
      /\ pool[tx.pool].allocated + tx.limit <= MaxU32
  BY <1>1a DEF ApprovalLands, ApproveCreditLine, FitsPool
<1> DEFINE new == [pool[tx.pool] EXCEPT !.allocated = @ + tx.limit]
<1>3. pool[tx.pool] \in PoolAccount
  BY <1>1 DEF PageValues
<1>4. pool[tx.pool].allocated + tx.limit \in U32
  BY <1>1, <1>2, <1>3, BoundsAssumption DEF PoolAccount, U32
<1>5. /\ new \in PoolAccount /\ new.status = pool[tx.pool].status
      /\ new.terms = pool[tx.pool].terms /\ new.maturity = pool[tx.pool].maturity
  BY <1>3, <1>4 DEF PoolAccount
<1>6. pool' = [pool EXCEPT ![tx.pool] = new]
  BY <1>2
<1> HIDE DEF new
<1> QED BY <1>1, <1>5, <1>6 DEF PageValues, Initialized

\* An address that is no address, and a read, leave data the form may show.
LEMMA AnswersAreTrue ==
    ASSUME MandateInv, NEW p \in Pools, NEW data \in Answers(p)
    PROVE  /\ data \in PoolData
           /\ data # NoPoolData => PoolTells(pool, data.of, data.noteSize, data.maturity)
<1>1. pool[p] \in PoolAccount /\ pool[p].maturity \in Slots
  BY DEF MandateInv, PageValues, PoolAccount
<1>2. CASE data = NoPoolData
  BY <1>2 DEF PoolData
<1>3. CASE data # NoPoolData
  <2>1. /\ Initialized(pool[p])
        /\ data = [of |-> p, noteSize |-> pool[p].terms, maturity |-> pool[p].maturity]
    BY <1>3 DEF Answers
  <2> QED BY <1>1, <2>1 DEF MandateInv, PoolData, PoolTells
<1> QED BY <1>2, <1>3

-----------------------------------------------------------------------------
(* The steps.                                                              *)

\* Editing, reading and waiting leave the chain, the approvals and the mandates.
LEMMA FormStepsKeepMandates ==
    ASSUME MandateInv, UNCHANGED <<pool, line, sent, mandate>>, slot' \in Nat,
           form' \in Form,
           form'.data # NoPoolData =>
               PoolTells(pool, form'.data.of, form'.data.noteSize, form'.data.maturity)
    PROVE  MandateInv'
<1>1. PageValues'
  BY DEF MandateInv, PageValues
<1>2. form'.data # NoPoolData =>
          PoolTells(pool', form'.data.of, form'.data.noteSize, form'.data.maturity)
  BY DEF PoolTells
<1>3. MandateKept'
  BY DEF MandateInv, MandateKept
<1>4. \A tx \in sent' : LET m == mandate'[tx.line] IN
          /\ m # NoMandate
          /\ tx.limit = LimitNotes(m.spend, m)
          /\ PoolTells(pool', m.of, m.noteSize, tx.maturity)
  BY DEF MandateInv, PoolTells
<1> QED BY <1>1, <1>2, <1>3, <1>4 DEF MandateInv

\* A pool that appears was not there when anything was read or sent.
LEMMA NewPoolKeepsMandates ==
    ASSUME MandateInv, NEW q \in Pools, PoolAppears(q)
    PROVE  MandateInv'
<1>1. UNCHANGED <<line, slot, form, sent, mandate>>
  BY PoolAppearsKeepsPools DEF PoolAppears, MandateInv
<1>2. /\ pool' \in [Pools -> PoolAccount]
      /\ \A p \in Pools : Initialized(pool[p]) => pool'[p] = pool[p]
      /\ Initialized(pool'[q]) /\ pool'[q].terms \in Terms
      /\ \A p \in Pools : p # q => pool'[p] = pool[p]
  BY PoolAppearsKeepsPools DEF MandateInv
<1>3. ASSUME NEW p \in Pools, NEW noteSize, NEW maturity,
             PoolTells(pool, p, noteSize, maturity)
      PROVE  PoolTells(pool', p, noteSize, maturity)
  BY <1>2, <1>3 DEF PoolTells
<1>4. PageValues'
  BY <1>1, <1>2 DEF MandateInv, PageValues
<1>5. \A p \in Pools : Initialized(pool'[p]) => pool'[p].terms \in Terms
  BY <1>2 DEF MandateInv
<1>6. form'.data # NoPoolData =>
          PoolTells(pool', form.data.of, form.data.noteSize, form.data.maturity)
  <2> HAVE form'.data # NoPoolData
  <2>1. form.data # NoPoolData /\ form.data.of \in Pools
    BY <1>1 DEF MandateInv, PageValues, Form, PoolData
  <2>2. PoolTells(pool, form.data.of, form.data.noteSize, form.data.maturity)
    BY <2>1 DEF MandateInv
  <2> QED BY <1>1, <1>2, <2>1, <2>2 DEF PoolTells
<1>7. ASSUME NEW tx \in sent
      PROVE  LET m == mandate'[tx.line] IN
             /\ m # NoMandate
             /\ tx.limit = LimitNotes(m.spend, m)
             /\ PoolTells(pool', m.of, m.noteSize, tx.maturity)
  <2> DEFINE m == mandate[tx.line]
  <2>1. /\ m # NoMandate
        /\ tx.limit = LimitNotes(m.spend, m)
        /\ PoolTells(pool, m.of, m.noteSize, tx.maturity)
    BY DEF MandateInv
  <2>2. m.of \in Pools
    <3>1. tx.line \in Lines
      BY DEF MandateInv, PageValues, Approval
    <3> QED BY <2>1, <3>1, MandatesNamePools DEF MandateInv, PageValues
  <2>3. m = mandate'[tx.line]
    BY <1>1
  <2> HIDE DEF m
  <2>4. PoolTells(pool', m.of, m.noteSize, tx.maturity)
    BY <1>2, <2>1, <2>2 DEF PoolTells
  <2> QED BY <1>1, <2>1, <2>3, <2>4 DEF PoolTells
<1>8. MandateKept'
  <2> SUFFICES ASSUME NEW l \in Lines, Initialized(line[l]), mandate[l].of = line[l].pool
               PROVE  /\ line[l].limit * line[l].terms <= mandate[l].spend
                      /\ line[l].maturity = pool'[line[l].pool].maturity
                      /\ line[l].underwriter = Approver
    BY <1>1 DEF MandateKept
  <2>1. line[l].pool \in Pools /\ Initialized(pool[line[l].pool])
    BY DEF MandateInv
  <2>2. pool'[line[l].pool] = pool[line[l].pool]
    BY <1>2, <2>1
  <2> QED BY <2>2 DEF MandateInv, MandateKept
<1>9. \A l \in Lines :
          Initialized(line'[l]) => line'[l].pool \in Pools /\ Initialized(pool'[line'[l].pool])
  BY <1>1, <1>2 DEF MandateInv
<1> QED BY <1>1, <1>4, <1>5, <1>6, <1>7, <1>8, <1>9 DEF MandateInv

\* A mandate is written from what was read, for a line that is not on the chain and
\* that no approval under way names.
LEMMA ApproveKeepsMandates ==
    ASSUME MandateInv, NEW k \in Lines, HandleApproveMandate(k)
    PROVE  MandateInv'
<1> DEFINE new == [of |-> form.data.of, typed |-> form.typed,
                   noteSize |-> form.data.noteSize, spend |-> form.spend]
           tx0 == [pool |-> form.typed, line |-> k, opened |-> slot,
                   limit |-> LimitNotes(form.spend, form.data),
                   maturity |-> form.data.maturity]
<1>1. /\ UNCHANGED <<pool, line, slot>>
      /\ form' = [form EXCEPT !.busy = TRUE]
      /\ sent' = sent \cup {tx0}
      /\ mandate' = [mandate EXCEPT ![k] = new]
      /\ ~Initialized(line[k]) /\ mandate[k].of = ZeroKey
  BY DEF HandleApproveMandate, chainVars
<1>2. /\ form \in Form /\ form.typed \in Pools /\ form.spend \in Nat
      /\ form.data \in [of : Pools, noteSize : Terms, maturity : Slots]
  BY DEF HandleApproveMandate, CanApprove, MandateInv, PageValues, Form, PoolData
<1>3. PoolTells(pool, form.data.of, form.data.noteSize, form.data.maturity)
  BY DEF HandleApproveMandate, CanApprove, MandateInv
<1>4. form.data.noteSize \in Nat /\ form.data.noteSize > 0
  BY <1>2, SizesArePositive
<1>5. LimitNotes(form.spend, form.data) \in Nat
  BY <1>2, <1>4, WholeNotesFit DEF LimitNotes
<1>6. /\ new \in Mandate /\ new # NoMandate
      /\ new.of = form.data.of /\ new.noteSize = form.data.noteSize /\ new.spend = form.spend
  <2>1. new \in Mandate /\ new.of \in Pools
    BY <1>2 DEF Mandate
  <2> QED BY <2>1, MandatesNamePools
<1>7. /\ tx0 \in Approval /\ tx0.line = k /\ tx0.maturity = form.data.maturity
      /\ tx0.limit = LimitNotes(new.spend, new)
  BY <1>2, <1>5 DEF Approval, LimitNotes, MandateInv, PageValues
<1>8. form' \in Form /\ form'.data = form.data
  BY <1>1, <1>2 DEF Form
<1> HIDE DEF new, tx0
<1>9. \A l \in Lines : mandate'[l] = IF l = k THEN new ELSE mandate[l]
  BY <1>1 DEF MandateInv, PageValues
<1>10. PageValues'
  <2>1. mandate' \in [Lines -> Mandate]
    BY <1>1, <1>6 DEF MandateInv, PageValues
  <2> QED BY <1>1, <1>7, <1>8, <2>1 DEF MandateInv, PageValues
<1>11. ASSUME NEW tx \in sent'
       PROVE  LET m == mandate'[tx.line] IN
              /\ m # NoMandate
              /\ tx.limit = LimitNotes(m.spend, m)
              /\ PoolTells(pool', m.of, m.noteSize, tx.maturity)
  <2>1. CASE tx = tx0
    <3>1. mandate'[tx.line] = new
      BY <1>7, <1>9, <2>1
    <3> QED BY <1>1, <1>3, <1>6, <1>7, <2>1, <3>1 DEF PoolTells
  <2>2. CASE tx \in sent
    <3>1. tx.line \in Lines /\ mandate[tx.line] # NoMandate
      BY <2>2 DEF MandateInv, PageValues, Approval
    <3>2. mandate[tx.line].of \in Pools
      BY <3>1, MandatesNamePools DEF MandateInv, PageValues
    <3>3. tx.line # k
      BY <1>1, <3>2, AddressAssumption
    <3>4. mandate'[tx.line] = mandate[tx.line]
      BY <1>9, <3>1, <3>3
    <3> QED BY <1>1, <2>2, <3>4 DEF MandateInv, PoolTells
  <2> QED BY <1>1, <2>1, <2>2
<1>12. MandateKept'
  <2> SUFFICES ASSUME NEW l \in Lines, Initialized(line[l]), mandate'[l].of = line[l].pool
               PROVE  /\ line[l].limit * line[l].terms <= mandate'[l].spend
                      /\ line[l].maturity = pool[line[l].pool].maturity
                      /\ line[l].underwriter = Approver
    BY <1>1 DEF MandateKept
  <2>1. mandate'[l] = mandate[l]
    BY <1>1, <1>9
  <2> QED BY <2>1 DEF MandateInv, MandateKept
<1>13. form'.data # NoPoolData =>
           PoolTells(pool', form'.data.of, form'.data.noteSize, form'.data.maturity)
  BY <1>1, <1>3, <1>8 DEF PoolTells
<1>14. /\ \A l \in Lines : Initialized(line'[l]) =>
              line'[l].pool \in Pools /\ Initialized(pool'[line'[l].pool])
       /\ \A p \in Pools : Initialized(pool'[p]) => pool'[p].terms \in Terms
  BY <1>1 DEF MandateInv
<1> QED BY <1>10, <1>11, <1>12, <1>13, <1>14 DEF MandateInv

\* The approval lands on the pool it was sent for; when that is the pool of its
\* mandate, the pool's terms and maturity are those that were read.
LEMMA LandingKeepsMandates ==
    ASSUME MandateInv, NEW tx \in sent, ApprovalLands(tx)
    PROVE  MandateInv'
<1> DEFINE k == tx.line
           m == mandate[k]
<1>1. /\ ApproveCreditLine(Approver, tx.pool, k, Client, tx.limit, tx.opened, tx.maturity)
      /\ sent' = sent \ {tx}
      /\ UNCHANGED <<slot, form, mandate>>
  BY DEF ApprovalLands
<1>2. k \in Lines /\ tx.pool \in Pools
  BY DEF MandateInv, PageValues, Approval
<1>3. /\ m \in [of : Pools, typed : Pools, noteSize : Terms, spend : Nat]
      /\ tx.limit = LimitNotes(m.spend, m)
      /\ PoolTells(pool, m.of, m.noteSize, tx.maturity)
  BY <1>2 DEF MandateInv, PageValues, Mandate
<1>4. /\ pool' \in [Pools -> PoolAccount]
      /\ \A p \in Pools : /\ Initialized(pool'[p]) <=> Initialized(pool[p])
                          /\ pool'[p].terms = pool[p].terms
                          /\ pool'[p].maturity = pool[p].maturity
  BY ApprovalKeepsPools DEF MandateInv
<1>5. /\ DOMAIN line' = Lines
      /\ \A l \in Lines \ {k} : line'[l] = line[l]
      /\ line'[k].pool = tx.pool /\ line'[k].limit = tx.limit
      /\ line'[k].terms = pool[tx.pool].terms /\ line'[k].maturity = tx.maturity
      /\ line'[k].underwriter = Approver
      /\ Initialized(pool[tx.pool])
  BY <1>1, <1>2 DEF ApproveCreditLine, ActivePool, Initialized, MandateInv, PageValues
<1>6. PageValues'
  <2>1. line' = [l \in Lines |-> line'[l]]
    <3> DEFINE approved == line'[k]
    <3>1. line' = [line EXCEPT ![k] = approved]
      BY <1>1, <1>2, Zenon DEF ApproveCreditLine, MandateInv, PageValues
    <3> HIDE DEF approved
    <3> QED BY <1>5, <3>1 DEF MandateInv, PageValues
  <2> QED BY <1>1, <1>4, <2>1 DEF MandateInv, PageValues
<1>7. /\ \A l \in Lines : Initialized(line'[l]) =>
             line'[l].pool \in Pools /\ Initialized(pool'[line'[l].pool])
      /\ \A p \in Pools : Initialized(pool'[p]) => pool'[p].terms \in Terms
  BY <1>2, <1>4, <1>5 DEF MandateInv
<1>8. form'.data # NoPoolData =>
          PoolTells(pool', form'.data.of, form'.data.noteSize, form'.data.maturity)
  <2> HAVE form'.data # NoPoolData
  <2>1. form.data.of \in Pools
    BY <1>1 DEF MandateInv, PageValues, Form, PoolData
  <2> QED BY <1>1, <1>4, <2>1 DEF MandateInv, PoolTells
<1>9. ASSUME NEW x \in sent'
      PROVE  LET n == mandate'[x.line] IN
             /\ n # NoMandate
             /\ x.limit = LimitNotes(n.spend, n)
             /\ PoolTells(pool', n.of, n.noteSize, x.maturity)
  <2>1. x \in sent /\ x.line \in Lines
    BY <1>1 DEF MandateInv, PageValues, Approval
  <2>2. mandate[x.line].of \in Pools
    BY <2>1, MandatesNamePools DEF MandateInv, PageValues
  <2> QED BY <1>1, <1>4, <2>1, <2>2 DEF MandateInv, PoolTells
<1>10. MandateKept'
  <2> SUFFICES ASSUME NEW l \in Lines, Initialized(line'[l]), mandate[l].of = line'[l].pool
               PROVE  /\ line'[l].limit * line'[l].terms <= mandate[l].spend
                      /\ line'[l].maturity = pool'[line'[l].pool].maturity
                      /\ line'[l].underwriter = Approver
    BY <1>1 DEF MandateKept
  <2>1. CASE l = k
    <3>1. m.of = tx.pool
      BY <1>5, <2>1
    <3>2. /\ line'[l].terms = m.noteSize /\ line'[l].limit = m.spend \div m.noteSize
          /\ line'[l].maturity = pool'[line'[l].pool].maturity
      BY <1>2, <1>3, <1>4, <1>5, <2>1, <3>1 DEF PoolTells, LimitNotes
    <3>3. m.spend \in Nat /\ m.noteSize \in Terms
      BY <1>3
    <3> DEFINE amount == m.spend
               size == m.noteSize
    <3>4. amount \in Nat /\ size \in Nat /\ size > 0
      BY <3>3, SizesArePositive
    <3> HIDE DEF amount, size
    <3>5. (amount \div size) * size <= amount
      BY <3>4, WholeNotesFit
    <3>6. line'[l].limit * line'[l].terms <= mandate[l].spend
      BY <2>1, <3>2, <3>5 DEF amount, size
    <3> QED BY <1>5, <2>1, <3>2, <3>6
  <2>2. CASE l # k
    <3>1. line'[l] = line[l] /\ line[l].pool \in Pools
      BY <1>5, <2>2 DEF MandateInv
    <3> QED BY <1>4, <3>1 DEF MandateInv, MandateKept
  <2> QED BY <2>1, <2>2
<1> QED BY <1>6, <1>7, <1>8, <1>9, <1>10 DEF MandateInv

\* An approval that is dropped is forgotten.
LEMMA DropKeepsMandates ==
    ASSUME MandateInv, NEW tx \in sent, ApprovalDropped(tx)
    PROVE  MandateInv'
<1>1. /\ UNCHANGED <<pool, line, slot, form, mandate>>
      /\ \A x \in sent' : x \in sent
  BY DEF ApprovalDropped, chainVars
<1>2. PageValues'
  BY <1>1 DEF MandateInv, PageValues
<1>3. MandateKept'
  BY <1>1 DEF MandateInv, MandateKept
<1>4. form'.data # NoPoolData =>
          PoolTells(pool', form'.data.of, form'.data.noteSize, form'.data.maturity)
  BY <1>1 DEF MandateInv, PoolTells
<1>5. \A x \in sent' : LET m == mandate'[x.line] IN
          /\ m # NoMandate
          /\ x.limit = LimitNotes(m.spend, m)
          /\ PoolTells(pool', m.of, m.noteSize, x.maturity)
  BY <1>1 DEF MandateInv, PoolTells
<1> QED BY <1>1, <1>2, <1>3, <1>4, <1>5 DEF MandateInv

\* The steps that only touch the form.
LEMMA EditsKeepMandates ==
    ASSUME MandateInv,
           \/ Tick /\ UNCHANGED <<form, reads, sent, mandate, edits>>
           \/ \E p \in Pools : TypePool(p) \/ ReadAnswers(p)
           \/ ClearPool
           \/ \E usd \in 1 .. MaxSpend : TypeSpend(usd)
           \/ HandlerEnds
    PROVE  MandateInv'
<1>1. form \in Form /\ slot \in Nat
  BY DEF MandateInv, PageValues
<1>2. UNCHANGED <<pool, line, sent, mandate>> /\ slot' \in Nat
  <2>1. ASSUME Tick /\ UNCHANGED <<form, reads, sent, mandate, edits>>
        PROVE  UNCHANGED <<pool, line, sent, mandate>> /\ slot' \in Nat
    BY <1>1, <2>1 DEF Tick, vars
  <2>2. ASSUME NEW p \in Pools, TypePool(p) \/ ReadAnswers(p)
        PROVE  UNCHANGED <<pool, line, sent, mandate>> /\ slot' \in Nat
    BY <1>1, <2>2 DEF TypePool, ReadAnswers, chainVars
  <2>3. ASSUME NEW usd, ClearPool \/ TypeSpend(usd) \/ HandlerEnds
        PROVE  UNCHANGED <<pool, line, sent, mandate>> /\ slot' \in Nat
    BY <1>1, <2>3 DEF ClearPool, TypeSpend, HandlerEnds, chainVars
  <2> QED BY <2>1, <2>2, <2>3
<1>3. \/ form' \in Form /\ form'.data \in {form.data, NoPoolData}
      \/ \E p \in Pools : ReadAnswers(p)
  <2>1. NoPoolData \in PoolData
    BY DEF PoolData
  <2>2. \A usd \in 1 .. MaxSpend : usd \in Nat
    OBVIOUS
  <2>3. ASSUME NEW p \in Pools, TypePool(p)
        PROVE  form' \in Form /\ form'.data = form.data
    BY <1>1, <2>3 DEF TypePool, Form
  <2>4. ASSUME ClearPool
        PROVE  form' \in Form /\ form'.data = NoPoolData
    BY <1>1, <2>1, <2>4 DEF ClearPool, Form
  <2>5. ASSUME NEW usd \in 1 .. MaxSpend, TypeSpend(usd)
        PROVE  form' \in Form /\ form'.data = form.data
    BY <1>1, <2>2, <2>5 DEF TypeSpend, Form
  <2>6. ASSUME HandlerEnds
        PROVE  form' \in Form /\ form'.data = form.data
    BY <1>1, <2>6 DEF HandlerEnds, Form
  <2> QED BY <1>1, <2>3, <2>4, <2>5, <2>6
<1>4. CASE form' \in Form /\ form'.data \in {form.data, NoPoolData}
  <2>1. form'.data # NoPoolData =>
            PoolTells(pool, form'.data.of, form'.data.noteSize, form'.data.maturity)
    BY <1>4 DEF MandateInv
  <2> QED BY <1>2, <1>4, <2>1, FormStepsKeepMandates
<1>5. ASSUME NEW p \in Pools, ReadAnswers(p)
      PROVE  MandateInv'
  <2>1. PICK data \in Answers(p) : form' = [form EXCEPT !.data = data, !.loading = FALSE]
    BY <1>5 DEF ReadAnswers
  <2>2. /\ data \in PoolData
        /\ data # NoPoolData => PoolTells(pool, data.of, data.noteSize, data.maturity)
    BY AnswersAreTrue
  <2>3. form' \in Form /\ form'.data = data
    BY <1>1, <2>1, <2>2 DEF Form
  <2> QED BY <1>2, <2>2, <2>3, FormStepsKeepMandates
<1> QED BY <1>3, <1>4, <1>5

-----------------------------------------------------------------------------

\* No mandate was given at first.
LEMMA MandateInvInit == UnderwriterInit => MandateInv
  <1> SUFFICES ASSUME UnderwriterInit
               PROVE  MandateInv
    OBVIOUS
  <1>1. EmptyPool \in PoolAccount
    BY BoundsAssumption DEF EmptyPool, PoolAccount, PoolStatus, U32, Slots
  <1>2. ~Initialized(EmptyPool) /\ ~Initialized(EmptyLine)
    BY DEF Initialized, EmptyPool, EmptyLine
  <1>3. /\ pool = [p \in Pools |-> EmptyPool] /\ line = [l \in Lines |-> EmptyLine]
        /\ slot = 0 /\ sent = {} /\ mandate = [l \in Lines |-> NoMandate]
        /\ form = [typed |-> ZeroKey, spend |-> 1, data |-> NoPoolData,
                   loading |-> FALSE, busy |-> FALSE]
    BY DEF UnderwriterInit, ChainInit, Init, NoMandate
  <1>4. PageValues
    BY <1>1, <1>3 DEF PageValues, Form, PoolData, Mandate
  <1>5. MandateKept
    BY <1>2, <1>3 DEF MandateKept
  <1> QED BY <1>2, <1>3, <1>4, <1>5 DEF MandateInv

\* Every step of the page keeps the mandates.
LEMMA MandateInvNext ==
    MandateInv /\ [UnderwriterNext]_underwriterVars => MandateInv'
  <1> SUFFICES ASSUME MandateInv, [UnderwriterNext]_underwriterVars
               PROVE  MandateInv'
    OBVIOUS
  <1>1. CASE UNCHANGED underwriterVars
    <2>1. UNCHANGED <<pool, line, slot, form, sent, mandate>>
      BY <1>1 DEF underwriterVars, chainVars
    <2>2. slot' \in Nat /\ form' \in Form
      BY <2>1 DEF MandateInv, PageValues
    <2>3. form'.data # NoPoolData =>
              PoolTells(pool, form'.data.of, form'.data.noteSize, form'.data.maturity)
      BY <2>1 DEF MandateInv
    <2> QED BY <2>1, <2>2, <2>3, FormStepsKeepMandates
  <1>2. CASE UnderwriterNext
    BY <1>2, EditsKeepMandates, NewPoolKeepsMandates, ApproveKeepsMandates,
       LandingKeepsMandates, DropKeepsMandates DEF UnderwriterNext
  <1> QED BY <1>1, <1>2

\* A line approved on the pool the page showed exposes no more dollars than its
\* mandate's daily spend and lasts as long as its pool, whatever was typed, read or
\* delayed meanwhile (handleApproveMandate, underwriter/page.tsx).
THEOREM LinesKeepTheirMandates == UnderwriterSpec => []MandateKept
<1>1. MandateInv => MandateKept
  BY DEF MandateInv
<1> QED BY <1>1, MandateInvInit, MandateInvNext, PTL DEF UnderwriterSpec

-----------------------------------------------------------------------------
(* The entries of the notes.                                               *)

Entry == {Absent, Corrupt} \cup {Kept(l) : l \in NoteLists}

Page == [name : Pages, wallet : Owners \cup {NoWallet}, notes : NoteLists,
         restore : Entry, visits : Nat]

Job == [kind : {"buy", "sell", "import"}, wallet : Owners, notes : NoteLists,
        file : NoteLists, ids : SUBSET NoteIds]

StoreValues ==
    /\ entry \in [Owners -> Entry]
    /\ page \in Page
    /\ job # NoJob => job \in Job
    /\ backup.notes \in NoteLists
    /\ order \in Seq(SUBSET NoteIds)
    /\ owned \in [Owners -> SUBSET NoteIds] /\ owed \in [Owners -> SUBSET NoteIds]
    /\ loose \in SUBSET NoteIds /\ overtaken \in BOOLEAN

\* The notes there are, those that an order offers, and those that must not be drawn.
Born == UNION {owned[w] : w \in Owners}
Offered == UNION {order[i] : i \in DOMAIN order}
Locked == Offered \ loose

\* A list of notes there are, none of which is drawn while it is locked.
Good(notes, born, locked) ==
    /\ notes \in NoteLists
    /\ DOMAIN notes \subseteq born
    /\ \A n \in DOMAIN notes : n \in locked => notes[n] # "drawn"

\* Wherever a list of a wallet is, it is good, and all in it that is not loose was
\* given to the wallet.
ListsOK ==
    /\ \A w \in Owners : /\ Good(entry[w].notes, Born, Locked)
                         /\ DOMAIN entry[w].notes \subseteq owned[w] \cup loose
    /\ Good(page.notes, Born, Locked) /\ Good(page.restore.notes, Born, Locked)
    /\ page.wallet \in Owners =>
          /\ DOMAIN page.notes \subseteq owned[page.wallet] \cup loose
          /\ DOMAIN page.restore.notes \subseteq owned[page.wallet] \cup loose
    /\ page.restore # NoRestore => page.name = "trade" /\ page.wallet \in Owners
    /\ job # NoJob =>
          /\ Good(job.notes, Born, Locked)
          /\ DOMAIN job.notes \subseteq owned[job.wallet] \cup loose
          /\ DOMAIN job.file \subseteq Born
          /\ job.ids \subseteq DOMAIN job.notes /\ job.ids \cap Locked = {}

\* Each note was given to one wallet; what is offered or in a backup was given.
BirthsOK ==
    /\ \A v, w \in Owners : v # w => owned[v] \cap owned[w] = {}
    /\ DOMAIN backup.notes \subseteq Born /\ Offered \subseteq Born

\* While no handler outlived its page: a page that writes the notes of its wallet
\* shows what the entry owes, and a handler is of the page and the wallet shown.
ShowsOwed ==
    page.wallet \in Owners /\ page.restore = NoRestore =>
        /\ page.name # "home" => owed[page.wallet] \subseteq DOMAIN page.notes
        /\ \A n \in DOMAIN page.notes :
              n \in WithStatus(entry[page.wallet].notes, "repaid") \ loose =>
                  page.notes[n] = "repaid"

HandlerStays ==
    job # NoJob =>
        /\ page.wallet = job.wallet
        /\ page.name = IF job.kind = "import" THEN "vault" ELSE "exchange"
        /\ job.kind = "sell" =>
              job.ids \cap WithStatus(entry[job.wallet].notes, "repaid") \subseteq loose

KeptOK ==
    overtaken \/ /\ \A w \in Owners : owed[w] \subseteq DOMAIN Holding(w)
                 /\ ShowsOwed
                 /\ HandlerStays

OrdersApart == \A i, j \in DOMAIN order : i # j => order[i] \cap order[j] \subseteq loose

StoreInv == StoreValues /\ ListsOK /\ BirthsOK /\ KeptOK /\ OrdersApart

\* What a step may not do to a repaid note.
RepaidKept ==
    \A w \in Owners : \A n \in WithStatus(Holding(w), "repaid") \ loose' :
        n \in DOMAIN Holding(w)' => Holding(w)'[n] = "repaid" \/ overtaken'

\* Lists are functions from notes to statuses.
LEMMA ListFacts ==
    /\ \A notes : notes \in NoteLists <=>
          notes \in [DOMAIN notes -> NoteState] /\ DOMAIN notes \subseteq NoteIds
    /\ NoNotes \in NoteLists /\ DOMAIN NoNotes = {}
BY DEF NoteLists, NoNotes

\* The kinds of entries.
LEMMA EntryFacts ==
    /\ Absent \in Entry /\ Corrupt \in Entry /\ NoRestore = Absent
    /\ Absent.notes = NoNotes /\ Corrupt.notes = NoNotes
    /\ Absent.kind # "kept" /\ Corrupt.kind # "kept"
    /\ \A l \in NoteLists : /\ Kept(l) \in Entry /\ Kept(l).notes = l
                            /\ Kept(l).kind = "kept" /\ Kept(l) # NoRestore
    /\ \A e \in Entry : /\ e.notes \in NoteLists
                        /\ e.kind # "kept" => e.notes = NoNotes
                        /\ e.kind = "kept" => e = Kept(e.notes)
<1>1. /\ Absent.notes = NoNotes /\ Corrupt.notes = NoNotes
      /\ Absent.kind = "absent" /\ Corrupt.kind = "corrupt"
  BY DEF Absent, Corrupt
<1>2. \A l : Kept(l).notes = l /\ Kept(l).kind = "kept"
  BY DEF Kept
<1>3. Absent \in Entry /\ Corrupt \in Entry /\ \A l \in NoteLists : Kept(l) \in Entry
  BY Zenon DEF Entry
<1>4. \A e \in Entry : e = Absent \/ e = Corrupt \/ \E l \in NoteLists : e = Kept(l)
  BY Zenon DEF Entry
<1>5. NoNotes \in NoteLists
  BY ListFacts
<1>6. Absent.kind # "kept" /\ Corrupt.kind # "kept"
  BY <1>1
<1>7. \A l \in NoteLists : Kept(l) # NoRestore
  BY <1>2, <1>6 DEF NoRestore
<1>8. ASSUME NEW e \in Entry
      PROVE  /\ e.notes \in NoteLists
             /\ e.kind # "kept" => e.notes = NoNotes
             /\ e.kind = "kept" => e = Kept(e.notes)
  BY <1>1, <1>2, <1>4, <1>5, <1>6
<1> QED BY <1>1, <1>2, <1>3, <1>6, <1>7, <1>8 DEF NoRestore

\* A page reads the notes of an entry, or none where there is no wallet.
LEMMA ReadsEntry ==
    ASSUME entry \in [Owners -> Entry]
    PROVE  /\ \A w \in Owners : GetNotes(w) = entry[w].notes
           /\ GetNotes(NoWallet) = NoNotes
BY EntryFacts, StoreAssumption DEF GetNotes, Readable

\* What merging and marking make of good lists.
LEMMA MergedIsGood ==
    ASSUME NEW a, NEW b, NEW born, NEW locked, Good(a, born, locked), Good(b, born, locked)
    PROVE  Good(Merged(a, b), born, locked)
BY ListFacts DEF Good, Merged

LEMMA MarkedIsGood ==
    ASSUME NEW a, NEW ids, NEW status \in NoteState, NEW born, NEW locked,
           Good(a, born, locked), status = "drawn" => ids \cap locked = {}
    PROVE  Good(Marked(a, ids, status), born, locked)
BY ListFacts DEF Good, Marked, NoteState

\* A good list stays good when there are more notes and none is newly locked.
LEMMA GoodStaysGood ==
    ASSUME NEW a, NEW born, NEW locked, Good(a, born, locked),
           NEW more, born \subseteq more, NEW fewer, fewer \subseteq locked
    PROVE  Good(a, more, fewer)
BY DEF Good

\* What saving the notes of a wallet does to the entries.
LEMMA SavedNotes ==
    ASSUME entry \in [Owners -> Entry], NEW v \in Owners, NEW notes \in NoteLists,
           SaveNotes(v, notes)
    PROVE  /\ entry' \in [Owners -> Entry]
           /\ \A w \in Owners : entry'[w] = IF w = v THEN Kept(notes) ELSE entry[w]
           /\ \A w \in Owners : entry'[w].notes = IF w = v THEN notes ELSE entry[w].notes
<1>1. Kept(notes) \in Entry /\ Kept(notes).notes = notes
  BY EntryFacts
<1>2. entry' = [entry EXCEPT ![v] = Kept(notes)]
  BY DEF SaveNotes
<1> QED BY <1>1, <1>2

\* What a wallet's entry holds, now and after a step.
LEMMA HoldingIs ==
    /\ entry \in [Owners -> Entry] => \A w \in Owners :
          Holding(w) = IF page.restore # NoRestore /\ page.wallet = w
                       THEN page.restore.notes ELSE entry[w].notes
    /\ entry' \in [Owners -> Entry] => \A w \in Owners :
          Holding(w)' = IF page'.restore # NoRestore /\ page'.wallet = w
                        THEN page'.restore.notes ELSE entry'[w].notes
<1>1. \A e \in Entry : e.kind # "kept" => e.notes = NoNotes
  BY EntryFacts
<1>2. ASSUME entry \in [Owners -> Entry], NEW w \in Owners
      PROVE  GetNotes(w) = entry[w].notes
  BY <1>1, <1>2 DEF GetNotes, Readable
<1>3. ASSUME entry' \in [Owners -> Entry], NEW w \in Owners
      PROVE  GetNotes(w)' = entry'[w].notes
  BY <1>1, <1>3 DEF GetNotes, Readable
<1> QED BY <1>2, <1>3 DEF Holding

\* Where no order and no note comes, what is good stays good.
LEMMA SameNotes ==
    ASSUME UNCHANGED <<order, owned>>, loose \subseteq loose'
    PROVE  /\ Born' = Born /\ Offered' = Offered /\ Locked' \subseteq Locked
           /\ OrdersApart => OrdersApart'
           /\ \A notes : Good(notes, Born, Locked) => Good(notes, Born', Locked')
<1>1. Born' = Born /\ Offered' = Offered
  BY DEF Born, Offered
<1>2. Locked' \subseteq Locked
  BY <1>1 DEF Locked
<1>3. OrdersApart => OrdersApart'
  BY DEF OrdersApart
<1> QED BY <1>1, <1>2, <1>3, GoodStaysGood

\* A handler begins or ends, the backup is written, the vault reads the entry again:
\* no entry changes.
LEMMA QuietKeepsStore ==
    ASSUME StoreInv, UNCHANGED <<entry, order, history>>,
           \/ page' = page
           \/ On("vault") /\ page' = [page EXCEPT !.notes = GetNotes(page.wallet)],
           UNCHANGED backup \/ backup'.notes = page.notes,
           \/ job' = job \/ job' = NoJob
           \/ /\ job' \in Job /\ page.wallet \in Owners /\ page.restore = NoRestore
              /\ page' = page /\ job'.wallet = page.wallet /\ job'.notes = page.notes
              /\ page.name = IF job'.kind = "import" THEN "vault" ELSE "exchange"
              /\ DOMAIN job'.file \subseteq Born
              /\ job'.ids \subseteq WithStatus(page.notes, "drawn")
    PROVE  StoreInv' /\ RepaidKept
<1> USE DEF StoreInv
<1>1. UNCHANGED <<order, owned, owed, loose, overtaken>>
  BY DEF history
<1>2. /\ Born' = Born /\ Offered' = Offered /\ Locked' = Locked /\ OrdersApart'
  BY <1>1, SameNotes DEF Born, Offered, Locked, OrdersApart
<1>3. /\ page' \in Page /\ page'.wallet = page.wallet /\ page'.name = page.name
      /\ page'.restore = page.restore
      /\ \/ page'.notes = page.notes
         \/ page.wallet \in Owners /\ page'.notes = entry[page.wallet].notes
  <2>1. CASE page' = page
    BY <2>1 DEF StoreValues
  <2>2. CASE On("vault") /\ page' = [page EXCEPT !.notes = GetNotes(page.wallet)]
    <3>1. page \in Page /\ page.wallet \in Owners
      BY <2>2 DEF On, StoreValues, Page
    <3>2. PICK notes \in NoteLists : notes = GetNotes(page.wallet) /\ notes = entry[page.wallet].notes
      BY <3>1, ReadsEntry, EntryFacts DEF StoreValues
    <3>3. page' = [page EXCEPT !.notes = notes]
      BY <2>2, <3>2
    <3> QED BY <3>1, <3>2, <3>3 DEF Page
  <2> QED BY <2>1, <2>2
<1>4. backup'.notes \in NoteLists /\ DOMAIN backup'.notes \subseteq Born
  BY DEF StoreValues, Page, BirthsOK, ListsOK, Good
<1>5. job' # NoJob => job' \in Job
  BY DEF StoreValues
<1>6. StoreValues'
  BY <1>1, <1>3, <1>4, <1>5 DEF StoreValues
<1>7. /\ Good(page'.notes, Born, Locked)
      /\ page.wallet \in Owners => DOMAIN page'.notes \subseteq owned[page.wallet] \cup loose
  BY <1>3 DEF ListsOK
<1>8. ASSUME job' # NoJob
      PROVE  /\ Good(job'.notes, Born, Locked)
             /\ DOMAIN job'.notes \subseteq owned[job'.wallet] \cup loose
             /\ DOMAIN job'.file \subseteq Born
             /\ job'.ids \subseteq DOMAIN job'.notes /\ job'.ids \cap Locked = {}
  <2>1. CASE job' = job
    BY <1>8, <2>1 DEF ListsOK
  <2>2. CASE /\ job' \in Job /\ page.wallet \in Owners /\ page.restore = NoRestore
             /\ page' = page /\ job'.wallet = page.wallet /\ job'.notes = page.notes
             /\ DOMAIN job'.file \subseteq Born
             /\ job'.ids \subseteq WithStatus(page.notes, "drawn")
    BY <2>2 DEF ListsOK, Good, WithStatus
  <2> QED BY <1>8, <2>1, <2>2
<1>9. ListsOK'
  BY <1>1, <1>2, <1>3, <1>7, <1>8 DEF ListsOK
<1>10. BirthsOK'
  BY <1>1, <1>2, <1>4 DEF BirthsOK
<1>11. \A w \in Owners : Holding(w)' = Holding(w)
  BY <1>3, HoldingIs DEF StoreValues
<1>12. ASSUME ~overtaken PROVE ShowsOwed'
  <2>1. (\A w \in Owners : owed[w] \subseteq DOMAIN Holding(w)) /\ ShowsOwed
    BY <1>12 DEF KeptOK
  <2>2. page.wallet \in Owners /\ page.restore = NoRestore =>
            Holding(page.wallet) = entry[page.wallet].notes
    BY HoldingIs DEF StoreValues
  <2>3. CASE page'.notes = page.notes
    BY <1>1, <1>3, <2>1, <2>3 DEF ShowsOwed
  <2>4. CASE page.wallet \in Owners /\ page'.notes = entry[page.wallet].notes
    BY <1>1, <1>3, <2>1, <2>2, <2>4 DEF ShowsOwed, WithStatus
  <2> QED BY <1>3, <2>3, <2>4
<1>13. ASSUME ~overtaken PROVE HandlerStays'
  <2>1. HandlerStays /\ ShowsOwed
    BY <1>13 DEF KeptOK
  <2>2. CASE job' = job
    BY <1>1, <1>3, <2>1, <2>2 DEF HandlerStays
  <2>3. CASE job' = NoJob
    BY <2>3 DEF HandlerStays
  <2>4. CASE /\ job' \in Job /\ page.wallet \in Owners /\ page.restore = NoRestore
             /\ page' = page /\ job'.wallet = page.wallet
             /\ page.name = IF job'.kind = "import" THEN "vault" ELSE "exchange"
             /\ job'.ids \subseteq WithStatus(page.notes, "drawn")
    <3>1. job'.ids \cap WithStatus(entry[page.wallet].notes, "repaid") \subseteq loose
      BY <2>1, <2>4 DEF ShowsOwed, WithStatus
    <3> QED BY <1>1, <2>4, <3>1 DEF HandlerStays
  <2> QED BY <2>2, <2>3, <2>4
<1>14. KeptOK'
  BY <1>1, <1>11, <1>12, <1>13 DEF KeptOK
<1>15. RepaidKept
  BY <1>11 DEF RepaidKept, WithStatus
<1> QED BY <1>2, <1>6, <1>9, <1>10, <1>14, <1>15

\* The notes of a wallet are written, and shown or not: the lists stay good.
LEMMA WriteKeepsLists ==
    ASSUME StoreInv, NEW v \in Owners, NEW notes \in NoteLists, SaveNotes(v, notes),
           Born \subseteq Born', Locked' \subseteq Locked, loose \subseteq loose',
           \A w \in Owners : owned[w] \subseteq owned'[w],
           Good(notes, Born', Locked'), DOMAIN notes \subseteq owned'[v] \cup loose',
           \/ page' = page
           \/ /\ page' = [page EXCEPT !.notes = notes]
              /\ page.wallet = v \/ DOMAIN notes \subseteq loose',
           job' = job \/ job' = NoJob
    PROVE  /\ entry' \in [Owners -> Entry] /\ page' \in Page
           /\ job' # NoJob => job' \in Job
           /\ ListsOK'
<1> USE DEF StoreInv
<1>1. /\ entry' \in [Owners -> Entry]
      /\ \A w \in Owners : entry'[w].notes = IF w = v THEN notes ELSE entry[w].notes
  BY SavedNotes DEF StoreValues
<1>2. \A list : Good(list, Born, Locked) => Good(list, Born', Locked')
  BY GoodStaysGood
<1>3. /\ page' \in Page /\ page'.wallet = page.wallet /\ page'.name = page.name
      /\ page'.restore = page.restore
      /\ \/ page'.notes = page.notes
         \/ page'.notes = notes /\ (page.wallet = v \/ DOMAIN notes \subseteq loose')
  BY DEF StoreValues, Page
<1>4. \A w \in Owners : /\ Good(entry'[w].notes, Born', Locked')
                        /\ DOMAIN entry'[w].notes \subseteq owned'[w] \cup loose'
  BY <1>1, <1>2 DEF ListsOK
<1>5. Good(page'.notes, Born', Locked') /\ Good(page'.restore.notes, Born', Locked')
  BY <1>2, <1>3 DEF ListsOK
<1>6. page'.wallet \in Owners =>
          /\ DOMAIN page'.notes \subseteq owned'[page'.wallet] \cup loose'
          /\ DOMAIN page'.restore.notes \subseteq owned'[page'.wallet] \cup loose'
  BY <1>3 DEF ListsOK
<1>7. job' # NoJob =>
          /\ job' \in Job
          /\ Good(job'.notes, Born', Locked')
          /\ DOMAIN job'.notes \subseteq owned'[job'.wallet] \cup loose'
          /\ DOMAIN job'.file \subseteq Born'
          /\ job'.ids \subseteq DOMAIN job'.notes /\ job'.ids \cap Locked' = {}
  <2> SUFFICES ASSUME job' = job, job # NoJob
               PROVE  /\ job \in Job
                      /\ Good(job.notes, Born', Locked')
                      /\ DOMAIN job.notes \subseteq owned'[job.wallet] \cup loose'
                      /\ DOMAIN job.file \subseteq Born'
                      /\ job.ids \subseteq DOMAIN job.notes /\ job.ids \cap Locked' = {}
    OBVIOUS
  <2>1. job \in Job /\ job.wallet \in Owners
    BY DEF StoreValues, Job
  <2> QED BY <1>2, <2>1 DEF ListsOK
<1> QED BY <1>1, <1>3, <1>4, <1>5, <1>6, <1>7 DEF ListsOK

\* They are shown where the wallet's page writes them: the entry holds what it owes.
LEMMA WriteKeepsOwed ==
    ASSUME StoreInv, NEW v \in Owners, NEW notes \in NoteLists, SaveNotes(v, notes),
           ~overtaken, page.restore = NoRestore, page.wallet = v,
           page' = [page EXCEPT !.notes = notes],
           loose \subseteq loose',
           \A w \in Owners : w # v => owed'[w] = owed[w],
           owed'[v] \subseteq DOMAIN notes,
           \A n \in WithStatus(entry[v].notes, "repaid") \ loose' :
               n \in DOMAIN notes => notes[n] = "repaid",
           job' = NoJob \/ (job' = job /\ page.name # "exchange")
    PROVE  /\ \A w \in Owners : owed'[w] \subseteq DOMAIN Holding(w)'
           /\ ShowsOwed' /\ HandlerStays' /\ RepaidKept
<1> USE DEF StoreInv
<1>1. /\ entry' \in [Owners -> Entry]
      /\ \A w \in Owners : entry'[w].notes = IF w = v THEN notes ELSE entry[w].notes
  BY SavedNotes DEF StoreValues
<1>2. /\ page'.wallet = v /\ page'.name = page.name /\ page'.restore = NoRestore
      /\ page'.notes = notes
  BY DEF StoreValues, Page
<1>3. \A w \in Owners : Holding(w) = entry[w].notes /\ Holding(w)' = entry'[w].notes
  BY <1>1, <1>2, HoldingIs DEF StoreValues
<1>4. (\A w \in Owners : owed[w] \subseteq DOMAIN Holding(w)) /\ HandlerStays
  BY DEF KeptOK
<1>5. \A w \in Owners : owed'[w] \subseteq DOMAIN Holding(w)'
  BY <1>1, <1>3, <1>4
<1>6. ShowsOwed'
  BY <1>1, <1>2 DEF ShowsOwed, WithStatus
<1>7. HandlerStays'
  <2>1. CASE job' = NoJob
    BY <2>1 DEF HandlerStays
  <2>2. CASE job' = job /\ page.name # "exchange"
    BY <1>2, <1>4, <2>2 DEF HandlerStays
  <2> QED BY <2>1, <2>2
<1>8. RepaidKept
  BY <1>1, <1>3 DEF RepaidKept, WithStatus
<1> QED BY <1>5, <1>6, <1>7, <1>8

\* A draw or a purchase gives a new note.
LEMMA GivenNote ==
    ASSUME StoreInv, NEW v \in Owners, NEW n \in NoteIds, n \in Unborn, Give(v, n),
           UNCHANGED <<order, backup, loose>>
    PROVE  /\ Born' = Born \cup {n} /\ Locked' = Locked
           /\ \A w \in Owners : owned[w] \subseteq owned'[w]
           /\ owned'[v] = owned[v] \cup {n} /\ owed'[v] = owed[v] \cup {n}
           /\ \A w \in Owners : w # v => owed'[w] = owed[w]
           /\ owned' \in [Owners -> SUBSET NoteIds] /\ owed' \in [Owners -> SUBSET NoteIds]
           /\ BirthsOK' /\ OrdersApart'
           /\ n \notin Locked /\ \A w \in Owners : n \notin owned[w]
<1> USE DEF StoreInv
<1>1. \A w \in Owners : n \notin owned[w]
  BY DEF Unborn, Range, StoreValues
<1>2. /\ owned' \in [Owners -> SUBSET NoteIds] /\ owed' \in [Owners -> SUBSET NoteIds]
      /\ \A w \in Owners : owned'[w] = IF w = v THEN owned[w] \cup {n} ELSE owned[w]
      /\ \A w \in Owners : owed'[w] = IF w = v THEN owed[w] \cup {n} ELSE owed[w]
  BY DEF Give, StoreValues
<1>3. Born' = Born \cup {n} /\ Offered' = Offered /\ Locked' = Locked
  BY <1>2 DEF Born, Offered, Locked
<1>4. BirthsOK'
  <2>1. \A w, x \in Owners : w # x => owned'[w] \cap owned'[x] = {}
    BY <1>1, <1>2 DEF BirthsOK
  <2> QED BY <1>3, <2>1 DEF BirthsOK
<1>5. OrdersApart'
  BY DEF OrdersApart
<1>6. n \notin Locked
  BY <1>1 DEF Locked, BirthsOK, Born
<1> QED BY <1>1, <1>2, <1>3, <1>4, <1>5, <1>6

\* It comes to a good list.
LEMMA ListOfGiven ==
    ASSUME NEW born, NEW locked, NEW held, Good(held, born, locked),
           NEW n \in NoteIds, n \notin locked,
           NEW one \in [{n} -> NoteState], one[n] = "drawn",
           NEW notes, notes = Merged(held, one), NEW more, more = born \cup {n}
    PROVE  /\ Good(notes, more, locked)
           /\ DOMAIN notes = DOMAIN held \cup {n}
           /\ \A m \in DOMAIN notes : m # n => notes[m] = held[m]
<1>1. Good(one, more, locked)
  BY ListFacts DEF Good
<1>2. Good(held, more, locked)
  BY GoodStaysGood
<1>3. Good(Merged(held, one), more, locked)
  BY <1>1, <1>2, MergedIsGood
<1>4. /\ DOMAIN Merged(held, one) = DOMAIN held \cup {n}
      /\ \A m \in DOMAIN Merged(held, one) : m # n => Merged(held, one)[m] = held[m]
  BY DEF Merged
<1> QED BY <1>3, <1>4

\* The notes of a wallet are written and the lists stay good: the store is kept.
LEMMA WriteKeepsStore ==
    ASSUME StoreInv, StoreValues', ListsOK', BirthsOK', OrdersApart',
           NEW v \in Owners, NEW notes \in NoteLists, SaveNotes(v, notes),
           loose \subseteq loose',
           ~overtaken' =>
               /\ ~overtaken /\ page.restore = NoRestore /\ page.wallet = v
               /\ page' = [page EXCEPT !.notes = notes]
               /\ \A w \in Owners : w # v => owed'[w] = owed[w]
               /\ owed'[v] \subseteq DOMAIN notes
               /\ \A n \in WithStatus(entry[v].notes, "repaid") \ loose' :
                      n \in DOMAIN notes => notes[n] = "repaid"
               /\ job' = NoJob \/ (job' = job /\ page.name # "exchange")
    PROVE  StoreInv' /\ RepaidKept
<1>1. CASE overtaken'
  BY <1>1 DEF StoreInv, KeptOK, RepaidKept
<1>2. CASE ~overtaken'
  <2>1. /\ \A w \in Owners : owed'[w] \subseteq DOMAIN Holding(w)'
        /\ ShowsOwed' /\ HandlerStays' /\ RepaidKept
    BY <1>2, WriteKeepsOwed
  <2> QED BY <2>1 DEF StoreInv, KeptOK
<1> QED BY <1>1, <1>2

\* The note is added to a list of its wallet.
LEMMA GivingKeepsStore ==
    ASSUME StoreInv, NEW v \in Owners, NEW n \in NoteIds, n \in Unborn, Give(v, n),
           NEW held, Good(held, Born, Locked), DOMAIN held \subseteq owned[v] \cup loose,
           NEW one \in [{n} -> NoteState], one[n] = "drawn",
           NEW notes, notes = Merged(held, one), SaveNotes(v, notes),
           \/ page' = page
           \/ page' = [page EXCEPT !.notes = notes] /\ page.wallet = v,
           job' = job \/ job' = NoJob,
           UNCHANGED <<backup, order, loose>>, overtaken' \in BOOLEAN,
           ~overtaken' =>
               /\ ~overtaken /\ page.restore = NoRestore /\ page.wallet = v
               /\ page' = [page EXCEPT !.notes = notes]
               /\ owed[v] \subseteq DOMAIN held
               /\ \A m \in WithStatus(entry[v].notes, "repaid") \ loose :
                      m \in DOMAIN held => held[m] = "repaid"
               /\ job' = NoJob \/ (job' = job /\ page.name # "exchange")
    PROVE  StoreInv' /\ RepaidKept
<1>1. /\ Born' = Born \cup {n} /\ Locked' = Locked
      /\ \A w \in Owners : owned[w] \subseteq owned'[w]
      /\ owned'[v] = owned[v] \cup {n} /\ owed'[v] = owed[v] \cup {n}
      /\ \A w \in Owners : w # v => owed'[w] = owed[w]
      /\ owned' \in [Owners -> SUBSET NoteIds] /\ owed' \in [Owners -> SUBSET NoteIds]
      /\ BirthsOK' /\ OrdersApart'
      /\ n \notin Locked /\ \A w \in Owners : n \notin owned[w]
  BY GivenNote
<1>2. /\ Good(notes, Born \cup {n}, Locked)
      /\ DOMAIN notes = DOMAIN held \cup {n}
      /\ \A m \in DOMAIN notes : m # n => notes[m] = held[m]
  <2>1. PICK born, locked, more : born = Born /\ locked = Locked /\ more = born \cup {n}
    OBVIOUS
  <2>2. Good(held, born, locked) /\ n \notin locked
    BY <1>1, <2>1
  <2>3. /\ Good(notes, more, locked)
        /\ DOMAIN notes = DOMAIN held \cup {n}
        /\ \A m \in DOMAIN notes : m # n => notes[m] = held[m]
    BY <2>1, <2>2, ListOfGiven, SMTT(60)
  <2> QED BY <2>1, <2>3
<1>3. notes \in NoteLists /\ Good(notes, Born', Locked')
  BY <1>1, <1>2 DEF Good
<1>4. DOMAIN notes \subseteq owned'[v] \cup loose'
  BY <1>1, <1>2
<1>5. /\ entry' \in [Owners -> Entry] /\ page' \in Page
      /\ job' # NoJob => job' \in Job
      /\ ListsOK'
  BY <1>1, <1>3, <1>4, WriteKeepsLists
<1>6. StoreValues'
  BY <1>1, <1>5 DEF StoreInv, StoreValues
<1>7. ~overtaken' => /\ owed'[v] \subseteq DOMAIN notes
                     /\ \A m \in WithStatus(entry[v].notes, "repaid") \ loose' :
                            m \in DOMAIN notes => notes[m] = "repaid"
  <2> SUFFICES ASSUME ~overtaken'
               PROVE  /\ owed'[v] \subseteq DOMAIN notes
                      /\ \A m \in WithStatus(entry[v].notes, "repaid") \ loose' :
                             m \in DOMAIN notes => notes[m] = "repaid"
    OBVIOUS
  <2>1. owed'[v] \subseteq DOMAIN notes
    BY <1>1, <1>2
  <2>2. ASSUME NEW m \in WithStatus(entry[v].notes, "repaid"), m \notin loose',
               m \in DOMAIN notes
        PROVE  notes[m] = "repaid"
    <3>1. m \in owned[v] \/ m \in loose
      BY DEF WithStatus, StoreInv, ListsOK
    <3>2. m # n
      BY <1>1, <2>2, <3>1
    <3> QED BY <1>2, <2>2, <3>2
  <2> QED BY <2>1, <2>2
<1> QED BY <1>1, <1>3, <1>5, <1>6, <1>7, WriteKeepsStore

\* handleDraw adds the note to what the trade page shows.
LEMMA MintKeepsStore ==
    ASSUME StoreInv, NEW n \in NoteIds, Mint(n)
    PROVE  StoreInv' /\ RepaidKept
<1>1. PICK v : v = page.wallet
  OBVIOUS
<1>2. PICK one \in [{n} -> NoteState] : one[n] = "drawn" /\ one = [x \in {n} |-> "drawn"]
  BY DEF NoteState
<1>3. PICK held : held = page.notes
  OBVIOUS
<1>4. PICK notes : notes = Merged(held, one)
  OBVIOUS
<1>5. /\ page' = [page EXCEPT !.notes = notes] /\ SaveNotes(v, notes)
      /\ On("trade") /\ n \in Unborn /\ Give(v, n)
      /\ UNCHANGED <<job, backup, order, loose, overtaken>>
  BY <1>1, <1>2, <1>3, <1>4 DEF Mint
<1>6. v \in Owners /\ page.restore = NoRestore /\ page.name = "trade"
  BY <1>1, <1>5 DEF On, StoreInv, StoreValues, Page
<1>7. Good(held, Born, Locked) /\ DOMAIN held \subseteq owned[v] \cup loose
  BY <1>1, <1>3, <1>6 DEF StoreInv, ListsOK
<1>8. overtaken' \in BOOLEAN
  BY <1>5 DEF StoreInv, StoreValues
<1>9. ~overtaken => /\ owed[v] \subseteq DOMAIN held
                    /\ \A m \in WithStatus(entry[v].notes, "repaid") \ loose :
                           m \in DOMAIN held => held[m] = "repaid"
  BY <1>1, <1>3, <1>6 DEF StoreInv, KeptOK, ShowsOwed
<1> QED BY <1>1, <1>2, <1>4, <1>5, <1>6, <1>7, <1>8, <1>9, GivingKeepsStore

\* The page of the wallet on the exchange re-reads its notes; no other page changes.
LEMMA RereadIs ==
    ASSUME NEW v, NEW notes, Reread(v, notes)
    PROVE  /\ \/ page' = page
              \/ page' = [page EXCEPT !.notes = notes] /\ page.wallet = v
           /\ page.name = "exchange" /\ page.wallet = v =>
                  page' = [page EXCEPT !.notes = notes]
           /\ ~(page.name = "exchange" /\ page.wallet = v) => page' = page
BY DEF Reread

\* Before a handler outlived its page, the entry of the wallet on the exchange holds
\* what it owes.
LEMMA ExchangeShowsEntry ==
    ASSUME StoreInv, NEW v \in Owners, page.name = "exchange"
    PROVE  /\ page.restore = NoRestore
           /\ ~overtaken => owed[v] \subseteq DOMAIN entry[v].notes
<1>1. page.restore = NoRestore
  BY DEF StoreInv, ListsOK
<1>2. Holding(v) = entry[v].notes
  BY <1>1, HoldingIs DEF StoreInv, StoreValues
<1> QED BY <1>1, <1>2 DEF StoreInv, KeptOK

\* handleBuy adds the note to the entry as it is at the delivery.
LEMMA DeliverKeepsStore ==
    ASSUME StoreInv, NEW n \in NoteIds, Deliver(n)
    PROVE  StoreInv' /\ RepaidKept
<1>1. PICK v : v = job.wallet
  OBVIOUS
<1>2. job # NoJob /\ v \in Owners
  BY <1>1 DEF Deliver, NoJob, StoreInv, StoreValues, Job
<1>3. PICK one \in [{n} -> NoteState] : one[n] = "drawn" /\ one = [x \in {n} |-> "drawn"]
  BY DEF NoteState
<1>4. PICK held : held = GetNotes(v) /\ held = entry[v].notes
  BY <1>2, ReadsEntry DEF StoreInv, StoreValues
<1>5. PICK notes : notes = Merged(held, one)
  OBVIOUS
<1>6. /\ SaveNotes(v, notes) /\ Reread(v, notes)
      /\ n \in Unborn /\ Give(v, n) /\ job' = NoJob
      /\ overtaken' = (overtaken \/ ~(page.name = "exchange" /\ page.wallet = v))
      /\ UNCHANGED <<backup, order, loose>>
  BY <1>1, <1>3, <1>4, <1>5 DEF Deliver, StillThere
<1>7. Good(held, Born, Locked) /\ DOMAIN held \subseteq owned[v] \cup loose
  BY <1>2, <1>4 DEF StoreInv, ListsOK
<1>8. overtaken' \in BOOLEAN
  BY <1>6
<1>9. ~overtaken' => /\ ~overtaken /\ page.restore = NoRestore /\ page.wallet = v
                     /\ page' = [page EXCEPT !.notes = notes]
                     /\ owed[v] \subseteq DOMAIN held
                     /\ \A m \in WithStatus(entry[v].notes, "repaid") \ loose :
                            m \in DOMAIN held => held[m] = "repaid"
  BY <1>2, <1>4, <1>6, RereadIs, ExchangeShowsEntry DEF WithStatus
<1>10. \/ page' = page
       \/ page' = [page EXCEPT !.notes = notes] /\ page.wallet = v
  BY <1>6, RereadIs
<1> QED BY <1>2, <1>3, <1>5, <1>6, <1>7, <1>8, <1>9, <1>10, GivingKeepsStore

\* Where no order and no note comes, what is written keeps the births and the orders.
LEMMA SameBirths ==
    ASSUME StoreInv, UNCHANGED <<backup, order, owned>>, loose \subseteq loose'
    PROVE  /\ Born' = Born /\ Locked' \subseteq Locked
           /\ \A notes : Good(notes, Born, Locked) => Good(notes, Born', Locked')
           /\ BirthsOK' /\ OrdersApart'
<1>1. /\ Born' = Born /\ Offered' = Offered /\ Locked' \subseteq Locked
      /\ \A notes : Good(notes, Born, Locked) => Good(notes, Born', Locked')
      /\ OrdersApart'
  BY SameNotes DEF StoreInv
<1>2. BirthsOK'
  BY <1>1 DEF BirthsOK, StoreInv
<1> QED BY <1>1, <1>2

\* A page of a wallet marks notes that it shows, and saves the list.
LEMMA MarkingKeepsStore ==
    ASSUME StoreInv, NEW v \in Owners, page.wallet = v, page.restore = NoRestore,
           page.name # "home",
           NEW status \in NoteState, NEW ids \in SUBSET NoteIds,
           status = "drawn" => ids \subseteq loose',
           status # "repaid" =>
               ids \cap WithStatus(page.notes, "repaid") \subseteq loose',
           NEW notes, notes = Marked(page.notes, ids, status),
           page' = [page EXCEPT !.notes = notes], SaveNotes(v, notes),
           UNCHANGED <<backup, order, owned, owed, overtaken>>,
           loose \subseteq loose', loose' \in SUBSET NoteIds,
           job' = job, page.name # "exchange"
    PROVE  StoreInv' /\ RepaidKept
<1>1. /\ Born' = Born /\ Locked' \subseteq Locked
      /\ \A list : Good(list, Born, Locked) => Good(list, Born', Locked')
      /\ BirthsOK' /\ OrdersApart'
  BY SameBirths
<1>2. PICK held, born, locked : held = page.notes /\ born = Born' /\ locked = Locked'
  OBVIOUS
<1>3. Good(held, born, locked) /\ DOMAIN held \subseteq owned[v] \cup loose
  BY <1>1, <1>2 DEF StoreInv, ListsOK
<1>4. status = "drawn" => ids \cap locked = {}
  BY <1>2 DEF Locked
<1>5. Good(notes, born, locked)
  BY <1>2, <1>3, <1>4, MarkedIsGood
<1>6. /\ DOMAIN notes = DOMAIN held
      /\ \A n \in DOMAIN held : notes[n] = IF n \in ids THEN status ELSE held[n]
  BY <1>2 DEF Marked
<1>7. notes \in NoteLists /\ DOMAIN notes \subseteq owned'[v] \cup loose'
  BY <1>3, <1>5, <1>6 DEF Good
<1>8. /\ entry' \in [Owners -> Entry] /\ page' \in Page
      /\ job' # NoJob => job' \in Job
      /\ ListsOK'
  BY <1>1, <1>2, <1>5, <1>7, WriteKeepsLists
<1>9. StoreValues'
  BY <1>8 DEF StoreInv, StoreValues
<1>10. ~overtaken =>
          /\ owed[v] \subseteq DOMAIN held
          /\ \A n \in WithStatus(entry[v].notes, "repaid") \ loose :
                 n \in DOMAIN held => held[n] = "repaid"
  BY <1>2 DEF StoreInv, KeptOK, ShowsOwed
<1>11. ~overtaken =>
          \A n \in WithStatus(entry[v].notes, "repaid") \ loose' :
              n \in DOMAIN notes => notes[n] = "repaid"
  BY <1>2, <1>6, <1>10 DEF WithStatus
<1> QED BY <1>1, <1>6, <1>7, <1>8, <1>9, <1>10, <1>11, WriteKeepsStore

\* handleRepay marks drawn notes as repaid.
LEMMA RepayKeepsStore ==
    ASSUME StoreInv, NEW ids \in SUBSET NoteIds, Repay(ids)
    PROVE  StoreInv' /\ RepaidKept
<1>1. PICK v : v = page.wallet
  OBVIOUS
<1>2. PICK notes : notes = Marked(page.notes, ids, "repaid")
  OBVIOUS
<1>3. /\ page' = [page EXCEPT !.notes = notes] /\ SaveNotes(v, notes)
      /\ On("trade") /\ job' = job
      /\ UNCHANGED <<backup, order, owned, owed, loose, overtaken>>
  BY <1>1, <1>2 DEF Repay, history
<1>4. /\ v \in Owners /\ page.restore = NoRestore /\ page.name = "trade"
      /\ loose \in SUBSET NoteIds
  BY <1>1, <1>3 DEF On, StoreInv, StoreValues, Page
<1>5. PICK status \in NoteState : status = "repaid"
  BY DEF NoteState
<1> QED BY <1>1, <1>2, <1>3, <1>4, <1>5, MarkingKeepsStore

\* releaseFromListing marks a listed note as drawn, and its lock is lost.
LEMMA ReleaseKeepsStore ==
    ASSUME StoreInv, NEW n \in NoteIds, Release(n)
    PROVE  StoreInv' /\ RepaidKept
<1>1. PICK v : v = page.wallet
  OBVIOUS
<1>2. PICK ids \in SUBSET NoteIds : ids = {n}
  OBVIOUS
<1>3. PICK notes : notes = Marked(page.notes, ids, "drawn")
  OBVIOUS
<1>4. /\ page' = [page EXCEPT !.notes = notes] /\ SaveNotes(v, notes)
      /\ On("vault") /\ loose' = loose \cup ids /\ job' = job
      /\ UNCHANGED <<backup, order, owned, owed, overtaken>>
  BY <1>1, <1>2, <1>3 DEF Release
<1>5. /\ v \in Owners /\ page.restore = NoRestore /\ page.name = "vault"
      /\ loose' \in SUBSET NoteIds
  BY <1>1, <1>4 DEF On, StoreInv, StoreValues, Page
<1>6. PICK status \in NoteState : status = "drawn"
  BY DEF NoteState
<1> QED BY <1>1, <1>2, <1>3, <1>4, <1>5, <1>6, MarkingKeepsStore

\* handleImport writes the notes of the file over those it had captured.
LEMMA ImportedKeepsStore ==
    ASSUME StoreInv, Imported
    PROVE  StoreInv' /\ RepaidKept
<1>1. PICK v, held, file : v = job.wallet /\ held = job.notes /\ file = job.file
  OBVIOUS
<1>2. PICK notes : notes = Merged(held, file)
  OBVIOUS
<1>3. /\ SaveNotes(v, notes) /\ job' = NoJob
      /\ page' = page \/ (page.name = "vault" /\ page' = [page EXCEPT !.notes = notes])
      /\ page.name = "vault" => page' = [page EXCEPT !.notes = notes]
      /\ owed' = [owed EXCEPT ![v] = @ \cup DOMAIN file]
      /\ loose \subseteq loose' /\ DOMAIN file \subseteq loose'
      /\ ~(page.name = "vault" /\ page.wallet = v) => DOMAIN held \subseteq loose'
      /\ loose' \subseteq loose \cup DOMAIN file \cup DOMAIN held
      /\ overtaken' = (overtaken \/ ~(page.name = "vault" /\ page.wallet = v)
                                 \/ held # page.notes)
      /\ UNCHANGED <<backup, order, owned>> /\ job.kind = "import"
  BY <1>1, <1>2 DEF Imported, StillThere
<1>4. /\ v \in Owners /\ held \in NoteLists /\ file \in NoteLists /\ job # NoJob
      /\ Good(held, Born, Locked) /\ DOMAIN held \subseteq owned[v] \cup loose
      /\ DOMAIN file \subseteq Born
  BY <1>1, <1>3 DEF StoreInv, StoreValues, ListsOK, Job, NoJob
<1>5. /\ Born' = Born /\ Locked' \subseteq Locked
      /\ \A list : Good(list, Born, Locked) => Good(list, Born', Locked')
      /\ BirthsOK' /\ OrdersApart'
  BY <1>3, SameBirths
<1>6. PICK born, locked : born = Born' /\ locked = Locked'
  OBVIOUS
<1>7. Good(held, born, locked) /\ Good(file, born, locked)
  <2>1. DOMAIN file \cap locked = {}
    BY <1>3, <1>6 DEF Locked
  <2> QED BY <1>4, <1>5, <1>6, <2>1 DEF Good
<1>8. Good(notes, born, locked)
  BY <1>2, <1>7, MergedIsGood
<1>9. /\ DOMAIN notes = DOMAIN held \cup DOMAIN file
      /\ \A n \in DOMAIN notes : n \notin DOMAIN file => notes[n] = held[n]
  BY <1>2 DEF Merged
<1>10. notes \in NoteLists /\ DOMAIN notes \subseteq owned'[v] \cup loose'
  BY <1>3, <1>4, <1>8, <1>9 DEF Good
<1>11. \/ page' = page
       \/ /\ page' = [page EXCEPT !.notes = notes]
          /\ page.wallet = v \/ DOMAIN notes \subseteq loose'
  BY <1>3, <1>9
<1>12. /\ entry' \in [Owners -> Entry] /\ page' \in Page
       /\ job' # NoJob => job' \in Job
       /\ ListsOK'
  BY <1>3, <1>4, <1>5, <1>6, <1>8, <1>10, <1>11, WriteKeepsLists
<1>13. /\ owed' \in [Owners -> SUBSET NoteIds] /\ loose' \in SUBSET NoteIds
       /\ owed'[v] = owed[v] \cup DOMAIN file
       /\ \A w \in Owners : w # v => owed'[w] = owed[w]
  BY <1>3, <1>4, ListFacts DEF StoreInv, StoreValues
<1>14. StoreValues'
  BY <1>3, <1>12, <1>13 DEF StoreInv, StoreValues
<1>15. ~overtaken' =>
          /\ ~overtaken /\ page.restore = NoRestore /\ page.wallet = v
          /\ page' = [page EXCEPT !.notes = notes]
          /\ owed'[v] \subseteq DOMAIN notes
          /\ \A n \in WithStatus(entry[v].notes, "repaid") \ loose' :
                 n \in DOMAIN notes => notes[n] = "repaid"
  <2> SUFFICES ASSUME ~overtaken'
               PROVE  /\ ~overtaken /\ page.restore = NoRestore /\ page.wallet = v
                      /\ page' = [page EXCEPT !.notes = notes]
                      /\ owed'[v] \subseteq DOMAIN notes
                      /\ \A n \in WithStatus(entry[v].notes, "repaid") \ loose' :
                             n \in DOMAIN notes => notes[n] = "repaid"
    OBVIOUS
  <2>1. /\ ~overtaken /\ page.wallet = v /\ page.name = "vault" /\ held = page.notes
        /\ page' = [page EXCEPT !.notes = notes]
    BY <1>3
  <2>2. page.restore = NoRestore
    BY <2>1 DEF StoreInv, ListsOK
  <2>3. /\ owed[v] \subseteq DOMAIN held
        /\ \A n \in DOMAIN held :
              n \in WithStatus(entry[v].notes, "repaid") \ loose => held[n] = "repaid"
    BY <1>4, <2>1, <2>2 DEF StoreInv, KeptOK, ShowsOwed
  <2> QED BY <1>3, <1>9, <1>13, <2>1, <2>2, <2>3
<1> QED BY <1>3, <1>4, <1>5, <1>10, <1>12, <1>13, <1>14, <1>15, WriteKeepsStore

\* An order is accepted: it comes last.
LEMMA PlacedOrder ==
    ASSUME StoreInv, Place, UNCHANGED <<backup, owned>>, loose \subseteq loose'
    PROVE  /\ job # NoJob /\ job \in Job /\ job.ids \subseteq owned[job.wallet] \cup loose
           /\ order' \in Seq(SUBSET NoteIds)
           /\ Born' = Born /\ Offered' = Offered \cup job.ids
           /\ Locked' \subseteq Locked \cup (job.ids \ loose')
           /\ BirthsOK' /\ OrdersApart'
<1> USE DEF StoreInv
<1>1. /\ job # NoJob /\ job \in Job /\ job.ids \subseteq owned[job.wallet] \cup loose
      /\ job.ids \subseteq Born /\ job.ids \cap Locked = {}
  BY DEF Place, NoJob, StoreValues, ListsOK, Good
<1>2. PICK ids \in SUBSET NoteIds : ids = job.ids
  BY <1>1 DEF Job
<1>3. /\ order' = Append(order, ids) /\ order \in Seq(SUBSET NoteIds)
      /\ order' \in Seq(SUBSET NoteIds)
  BY <1>2 DEF Place, StoreValues
<1>4. /\ Len(order) \in Nat /\ DOMAIN order = 1..Len(order)
      /\ DOMAIN order' = 1..Len(order) + 1 /\ order'[Len(order) + 1] = ids
      /\ \A i \in DOMAIN order : order'[i] = order[i]
  BY <1>3
<1>5. DOMAIN order' = DOMAIN order \cup {Len(order) + 1}
  BY <1>4
<1>6. Born' = Born /\ Offered' = Offered \cup ids
  BY <1>4, <1>5 DEF Born, Offered
<1>7. BirthsOK'
  BY <1>1, <1>2, <1>6 DEF BirthsOK
<1>8. OrdersApart'
  <2>1. \A i \in DOMAIN order : order[i] \cap ids \subseteq loose
    BY <1>1, <1>2 DEF Offered, Locked
  <2> QED BY <1>4, <1>5, <2>1 DEF OrdersApart
<1>9. Locked' \subseteq Locked \cup (ids \ loose')
  BY <1>6 DEF Locked
<1> QED BY <1>1, <1>2, <1>3, <1>6, <1>7, <1>8, <1>9

\* The answer to a sale is lost: its order is there, and its notes are loose.
LEMMA UnansweredKeepsStore ==
    ASSUME StoreInv, SellUnanswered
    PROVE  StoreInv' /\ RepaidKept
<1>1. /\ Place /\ job' = NoJob /\ loose' = loose \cup job.ids
      /\ UNCHANGED <<entry, page, backup, owned, owed, overtaken>>
  BY DEF SellUnanswered
<1>2. /\ job # NoJob /\ job \in Job /\ job.ids \subseteq owned[job.wallet] \cup loose
      /\ order' \in Seq(SUBSET NoteIds)
      /\ Born' = Born /\ Offered' = Offered \cup job.ids
      /\ Locked' \subseteq Locked \cup (job.ids \ loose')
      /\ BirthsOK' /\ OrdersApart'
  BY <1>1, PlacedOrder
<1>3. Locked' \subseteq Locked /\ loose \subseteq loose' /\ loose' \in SUBSET NoteIds
  BY <1>1, <1>2 DEF StoreInv, StoreValues, Job
<1>4. \A notes : Good(notes, Born, Locked) => Good(notes, Born', Locked')
  BY <1>2, <1>3, GoodStaysGood
<1>5. StoreValues'
  BY <1>1, <1>2, <1>3 DEF StoreInv, StoreValues
<1>6. ListsOK'
  BY <1>1, <1>3, <1>4 DEF StoreInv, ListsOK
<1>7. \A w \in Owners : Holding(w)' = Holding(w)
  BY <1>1, HoldingIs DEF StoreInv, StoreValues
<1>8. KeptOK'
  BY <1>1, <1>3, <1>7 DEF StoreInv, KeptOK, ShowsOwed, HandlerStays, WithStatus
<1>9. RepaidKept
  BY <1>7 DEF RepaidKept, WithStatus
<1> QED BY <1>2, <1>5, <1>6, <1>8, <1>9 DEF StoreInv

\* Two lists joined are a list.
LEMMA JoinedLists ==
    ASSUME NEW S, NEW head \in Seq(S), NEW tail \in Seq(S)
    PROVE  head \o tail \in Seq(S) /\ Len(head \o tail) = Len(head) + Len(tail)
OBVIOUS

\* An order ends: there are fewer.
LEMMA EndingKeepsStore ==
    ASSUME StoreInv, NEW i \in Nat, OrderEnds(i)
    PROVE  StoreInv' /\ RepaidKept
<1>1. /\ i \in DOMAIN order /\ UNCHANGED <<entry, page, job, backup>>
      /\ UNCHANGED <<owned, owed, loose, overtaken>>
      /\ order' = SubSeq(order, 1, i - 1) \o SubSeq(order, i + 1, Len(order))
  BY DEF OrderEnds, history
<1>2. order \in Seq(SUBSET NoteIds) /\ Len(order) \in Nat /\ i \in 1..Len(order)
  BY <1>1 DEF StoreInv, StoreValues
<1>3. /\ order' \in Seq(SUBSET NoteIds)
      /\ DOMAIN order' = 1..(Len(order) - 1)
      /\ \A j \in 1..(Len(order) - 1) :
            order'[j] = IF j < i THEN order[j] ELSE order[j + 1]
  <2>1. PICK head, tail : /\ head = SubSeq(order, 1, i - 1)
                          /\ tail = SubSeq(order, i + 1, Len(order))
    OBVIOUS
  <2>2. /\ head \in Seq(SUBSET NoteIds) /\ Len(head) = i - 1
        /\ \A j \in 1..(i - 1) : head[j] = order[j]
    BY <1>2, <2>1
  <2>3. /\ tail \in Seq(SUBSET NoteIds) /\ Len(tail) = Len(order) - i
        /\ \A j \in 1..(Len(order) - i) : tail[j] = order[j + i]
    BY <1>2, <2>1
  <2>4. order' = head \o tail
    BY <1>1, <2>1
  <2>5. order' \in Seq(SUBSET NoteIds) /\ Len(order') = Len(order) - 1
    <3>1. /\ head \o tail \in Seq(SUBSET NoteIds)
          /\ Len(head \o tail) = Len(head) + Len(tail)
      BY <2>2, <2>3, JoinedLists
    <3> QED BY <1>2, <2>2, <2>3, <2>4, <3>1
  <2>6. ASSUME NEW j \in 1..(Len(order) - 1)
        PROVE  order'[j] = IF j < i THEN order[j] ELSE order[j + 1]
    <3>1. order'[j] = IF j <= Len(head) THEN head[j] ELSE tail[j - Len(head)]
      BY <1>2, <2>2, <2>3, <2>4
    <3>2. CASE j < i
      BY <1>2, <2>2, <3>1, <3>2
    <3>3. CASE ~(j < i)
      <4>1. j - Len(head) = j - i + 1 /\ j - i + 1 \in 1..(Len(order) - i)
        BY <1>2, <2>2, <3>3
      <4>2. tail[j - i + 1] = order[j - i + 1 + i] /\ j - i + 1 + i = j + 1
        BY <1>2, <2>3, <4>1
      <4> QED BY <1>2, <2>2, <3>1, <3>3, <4>1, <4>2
    <3> QED BY <3>2, <3>3
  <2> QED BY <1>2, <2>5, <2>6
<1>4. \A j \in DOMAIN order' : \E k \in DOMAIN order :
          /\ order'[j] = order[k]
          /\ k = IF j < i THEN j ELSE j + 1
  BY <1>2, <1>3
<1>5. Offered' \subseteq Offered /\ Born' = Born
  <2>1. ASSUME NEW n \in Offered' PROVE n \in Offered
    <3>1. PICK j \in DOMAIN order' : n \in order'[j]
      BY DEF Offered
    <3>2. PICK k \in DOMAIN order : order'[j] = order[k]
      BY <1>4
    <3> QED BY <3>1, <3>2 DEF Offered
  <2>2. Born' = Born
    BY <1>1 DEF Born
  <2> QED BY <2>1, <2>2
<1>6. OrdersApart'
  <2> SUFFICES ASSUME NEW j \in DOMAIN order', NEW k \in DOMAIN order', j # k
               PROVE  order'[j] \cap order'[k] \subseteq loose
    BY <1>1 DEF OrdersApart
  <2>1. PICK a \in DOMAIN order : /\ order'[j] = order[a]
                                  /\ a = IF j < i THEN j ELSE j + 1
    BY <1>4
  <2>2. PICK b \in DOMAIN order : /\ order'[k] = order[b]
                                  /\ b = IF k < i THEN k ELSE k + 1
    BY <1>4
  <2>3. a # b
    BY <1>2, <1>3, <2>1, <2>2
  <2> QED BY <2>1, <2>2, <2>3 DEF StoreInv, OrdersApart
<1>7. Locked' \subseteq Locked
  BY <1>1, <1>5 DEF Locked
<1>8. \A notes : Good(notes, Born, Locked) => Good(notes, Born', Locked')
  BY <1>5, <1>7, GoodStaysGood
<1>9. StoreValues'
  BY <1>1, <1>3 DEF StoreInv, StoreValues
<1>10. ListsOK'
  BY <1>1, <1>5, <1>7, <1>8 DEF StoreInv, ListsOK
<1>11. BirthsOK'
  BY <1>1, <1>5 DEF StoreInv, BirthsOK
<1>12. \A w \in Owners : Holding(w)' = Holding(w)
  BY <1>1, HoldingIs DEF StoreInv, StoreValues
<1>13. KeptOK'
  BY <1>1, <1>12 DEF StoreInv, KeptOK, ShowsOwed, HandlerStays, WithStatus
<1>14. RepaidKept
  BY <1>12 DEF RepaidKept, WithStatus
<1> QED BY <1>6, <1>9, <1>10, <1>11, <1>13, <1>14 DEF StoreInv

\* An order is accepted while its page is there: the notes that it names are marked
\* as listed, and no other wallet has them.
LEMMA ListedOnItsPage ==
    ASSUME StoreInv, NEW v \in Owners, NEW ids \in SUBSET NoteIds,
           NEW notes \in NoteLists, notes = Marked(entry[v].notes, ids, "listed"),
           SaveNotes(v, notes), page.wallet = v, page.restore = NoRestore,
           page' = [page EXCEPT !.notes = notes], job' = NoJob,
           UNCHANGED <<owned, loose>>, Born' = Born,
           Locked' \subseteq Locked \cup (ids \ loose),
           ids \subseteq owned[v] \cup loose
    PROVE  entry' \in [Owners -> Entry] /\ page' \in Page /\ ListsOK'
<1> USE DEF StoreInv
<1>1. /\ entry' \in [Owners -> Entry]
      /\ \A w \in Owners : entry'[w].notes = IF w = v THEN notes ELSE entry[w].notes
  BY SavedNotes DEF StoreValues
<1>2. /\ page' \in Page /\ page'.wallet = v /\ page'.restore = NoRestore
      /\ page'.notes = notes /\ page'.restore.notes = NoNotes
  BY EntryFacts DEF StoreValues, Page
<1>3. /\ DOMAIN notes = DOMAIN entry[v].notes
      /\ \A n \in DOMAIN notes :
            notes[n] = IF n \in ids THEN "listed" ELSE entry[v].notes[n]
  BY DEF Marked
<1>4. /\ Good(notes, Born', Locked')
      /\ DOMAIN notes \subseteq owned'[v] \cup loose'
  BY <1>3 DEF ListsOK, Good
<1>5. ASSUME NEW w \in Owners, w # v
      PROVE  /\ Good(entry[w].notes, Born', Locked')
             /\ DOMAIN entry[w].notes \subseteq owned'[w] \cup loose'
  <2>1. /\ Good(entry[w].notes, Born, Locked)
        /\ DOMAIN entry[w].notes \subseteq owned[w] \cup loose
    BY DEF ListsOK
  <2>2. owned[v] \cap owned[w] = {}
    BY <1>5 DEF BirthsOK
  <2>3. ASSUME NEW n \in DOMAIN entry[w].notes, n \in Locked'
        PROVE  n \in Locked
    BY <2>1, <2>2, <2>3
  <2> QED BY <2>1, <2>3 DEF Good
<1>6. \A w \in Owners : /\ Good(entry'[w].notes, Born', Locked')
                        /\ DOMAIN entry'[w].notes \subseteq owned'[w] \cup loose'
  BY <1>1, <1>4, <1>5
<1>7. Good(NoNotes, Born', Locked')
  BY ListFacts DEF Good
<1> QED BY <1>1, <1>2, <1>4, <1>6, <1>7, ListFacts DEF ListsOK

\* handleSell: the store has the order, and the notes are marked in the entry.
LEMMA AcceptedKeepsStore ==
    ASSUME StoreInv, SellAccepted
    PROVE  StoreInv' /\ RepaidKept
<1>1. PICK v, ids : v = job.wallet /\ ids = job.ids
  OBVIOUS
<1>2. PICK notes : notes = Marked(GetNotes(v), ids, "listed")
  OBVIOUS
<1>3. /\ Place /\ SaveNotes(v, notes) /\ Reread(v, notes) /\ job' = NoJob
      /\ loose' = IF page.name = "exchange" /\ page.wallet = v THEN loose ELSE loose \cup ids
      /\ overtaken' = (overtaken \/ ~(page.name = "exchange" /\ page.wallet = v))
      /\ UNCHANGED <<backup, owned, owed>> /\ job.kind = "sell"
  BY <1>1, <1>2 DEF SellAccepted, StillThere, Place
<1>4. loose \subseteq loose'
  BY <1>3
<1>5. /\ job # NoJob /\ job \in Job /\ ids \subseteq owned[v] \cup loose
      /\ order' \in Seq(SUBSET NoteIds)
      /\ Born' = Born /\ Offered' = Offered \cup ids
      /\ Locked' \subseteq Locked \cup (ids \ loose')
      /\ BirthsOK' /\ OrdersApart'
  BY <1>1, <1>3, <1>4, PlacedOrder
<1>6. v \in Owners /\ ids \in SUBSET NoteIds /\ loose' \in SUBSET NoteIds
  BY <1>1, <1>3, <1>5 DEF Job, StoreInv, StoreValues
<1>7. PICK held, born, locked : held = entry[v].notes /\ born = Born /\ locked = Locked
  OBVIOUS
<1>8. notes = Marked(held, ids, "listed") /\ Good(held, born, locked)
  BY <1>2, <1>6, <1>7, ReadsEntry DEF StoreInv, StoreValues, ListsOK
<1>9. Good(notes, born, locked)
  BY <1>8, MarkedIsGood DEF NoteState
<1>10. /\ notes \in NoteLists /\ DOMAIN notes = DOMAIN held
       /\ \A n \in DOMAIN notes : notes[n] = IF n \in ids THEN "listed" ELSE held[n]
       /\ DOMAIN notes \subseteq owned'[v] \cup loose'
  BY <1>3, <1>4, <1>6, <1>7, <1>8, <1>9 DEF Good, Marked, StoreInv, ListsOK
<1>11. entry' \in [Owners -> Entry] /\ page' \in Page /\ ListsOK'
  <2>1. CASE page.name = "exchange" /\ page.wallet = v
    <3>1. page' = [page EXCEPT !.notes = notes] /\ loose' = loose
      BY <1>3, <2>1, RereadIs
    <3>2. page.restore = NoRestore
      BY <1>6, <2>1, ExchangeShowsEntry
    <3>3. notes = Marked(entry[v].notes, ids, "listed")
      BY <1>7, <1>8
    <3>4. UNCHANGED <<owned, loose>> /\ Locked' \subseteq Locked \cup (ids \ loose)
      BY <1>3, <1>5, <3>1
    <3> QED BY <1>3, <1>5, <1>6, <1>10, <2>1, <3>1, <3>2, <3>3, <3>4, ListedOnItsPage
  <2>2. CASE ~(page.name = "exchange" /\ page.wallet = v)
    <3>1. page' = page /\ loose' = loose \cup ids
      BY <1>3, <2>2, RereadIs
    <3>2. Locked' \subseteq Locked /\ Born' = Born /\ UNCHANGED owned
      BY <1>3, <1>5, <3>1
    <3>3. Good(notes, Born', Locked')
      BY <1>7, <1>9, <3>2 DEF Good
    <3> QED BY <1>3, <1>4, <1>6, <1>10, <3>1, <3>2, <3>3, WriteKeepsLists
  <2> QED BY <2>1, <2>2
<1>12. StoreValues'
  BY <1>3, <1>5, <1>6, <1>11 DEF StoreInv, StoreValues
<1>13. ~overtaken' =>
          /\ ~overtaken /\ page.restore = NoRestore /\ page.wallet = v
          /\ page' = [page EXCEPT !.notes = notes]
          /\ owed'[v] \subseteq DOMAIN notes
          /\ \A n \in WithStatus(entry[v].notes, "repaid") \ loose' :
                 n \in DOMAIN notes => notes[n] = "repaid"
  <2> SUFFICES ASSUME ~overtaken'
               PROVE  /\ ~overtaken /\ page.restore = NoRestore /\ page.wallet = v
                      /\ page' = [page EXCEPT !.notes = notes]
                      /\ owed'[v] \subseteq DOMAIN notes
                      /\ \A n \in WithStatus(entry[v].notes, "repaid") \ loose' :
                             n \in DOMAIN notes => notes[n] = "repaid"
    OBVIOUS
  <2>1. ~overtaken /\ page.name = "exchange" /\ page.wallet = v /\ loose' = loose
    BY <1>3
  <2>2. /\ page' = [page EXCEPT !.notes = notes] /\ page.restore = NoRestore
        /\ owed[v] \subseteq DOMAIN held
    BY <1>3, <1>6, <1>7, <2>1, RereadIs, ExchangeShowsEntry
  <2>3. ids \cap WithStatus(entry[v].notes, "repaid") \subseteq loose
    BY <1>1, <1>3, <1>5, <2>1 DEF StoreInv, KeptOK, HandlerStays
  <2>4. \A n \in WithStatus(entry[v].notes, "repaid") \ loose' :
            n \in DOMAIN notes => notes[n] = "repaid"
    BY <1>7, <1>10, <2>1, <2>3 DEF WithStatus
  <2> QED BY <1>3, <1>10, <2>1, <2>2, <2>4
<1> QED BY <1>3, <1>4, <1>5, <1>6, <1>10, <1>11, <1>12, <1>13, WriteKeepsStore

\* An entry is cleared or damaged: it owes nothing.
LEMMA DamageKeepsStore ==
    ASSUME StoreInv, NEW v \in Owners, NEW e \in {Absent, Corrupt}, Damage(v, e)
    PROVE  StoreInv' /\ RepaidKept
<1>1. /\ Readable(v) /\ entry' = [entry EXCEPT ![v] = e] /\ owed' = [owed EXCEPT ![v] = {}]
      /\ UNCHANGED <<backup, order, owned>> /\ page' = page /\ job' = job
      /\ loose' = loose /\ overtaken' = overtaken
  BY DEF Damage
<1>2. e \in Entry /\ e.notes = NoNotes
  BY EntryFacts
<1>3. /\ entry' \in [Owners -> Entry] /\ owed' \in [Owners -> SUBSET NoteIds]
      /\ \A w \in Owners :
            /\ entry'[w].notes = IF w = v THEN NoNotes ELSE entry[w].notes
            /\ owed'[w] = IF w = v THEN {} ELSE owed[w]
  BY <1>1, <1>2 DEF StoreInv, StoreValues
<1>4. /\ Born' = Born /\ Locked' = Locked /\ Locked' \subseteq Locked
      /\ BirthsOK' /\ OrdersApart'
  BY <1>1, SameBirths DEF Locked, Offered
<1>5. StoreValues'
  BY <1>1, <1>3 DEF StoreInv, StoreValues
<1>6. Good(NoNotes, Born, Locked)
  BY ListFacts DEF Good
<1>7. ListsOK'
  BY <1>1, <1>3, <1>4, <1>6, ListFacts DEF StoreInv, ListsOK
<1>8. \A w \in Owners :
          /\ Holding(w) = IF page.restore # NoRestore /\ page.wallet = w
                          THEN page.restore.notes ELSE entry[w].notes
          /\ Holding(w)' = IF page.restore # NoRestore /\ page.wallet = w
                           THEN page.restore.notes ELSE entry'[w].notes
  BY <1>1, <1>3, HoldingIs DEF StoreInv, StoreValues
<1>9. \A w \in Owners : Holding(w)' = Holding(w) \/ (w = v /\ Holding(w)' = NoNotes)
  BY <1>3, <1>8
<1>10. ASSUME ~overtaken
       PROVE  /\ \A w \in Owners : owed'[w] \subseteq DOMAIN Holding(w)'
              /\ ShowsOwed' /\ HandlerStays'
  <2>1. /\ \A w \in Owners : owed[w] \subseteq DOMAIN Holding(w)
        /\ ShowsOwed /\ HandlerStays
    BY <1>10 DEF StoreInv, KeptOK
  <2>2. \A w \in Owners : owed'[w] \subseteq owed[w] /\ owed'[v] = {}
    BY <1>3
  <2>3. \A w \in Owners : WithStatus(entry'[w].notes, "repaid")
                              \subseteq WithStatus(entry[w].notes, "repaid")
    BY <1>3, ListFacts DEF WithStatus
  <2>4. \A w \in Owners : owed'[w] \subseteq DOMAIN Holding(w)'
    BY <1>9, <2>1, <2>2
  <2>5. ShowsOwed'
    BY <1>1, <2>1, <2>2, <2>3 DEF ShowsOwed
  <2>6. HandlerStays'
    <3> SUFFICES ASSUME job # NoJob
                 PROVE  /\ page.wallet = job.wallet
                        /\ page.name = IF job.kind = "import" THEN "vault" ELSE "exchange"
                        /\ job.kind = "sell" =>
                              job.ids \cap WithStatus(entry'[job.wallet].notes, "repaid")
                                  \subseteq loose
      BY <1>1 DEF HandlerStays
    <3>1. job.wallet \in Owners
      BY DEF StoreInv, StoreValues, Job
    <3> QED BY <2>1, <2>3, <3>1 DEF HandlerStays
  <2> QED BY <2>4, <2>5, <2>6
<1>11. KeptOK'
  BY <1>1, <1>10 DEF KeptOK
<1>12. RepaidKept
  BY <1>9, ListFacts DEF RepaidKept, WithStatus
<1> QED BY <1>4, <1>5, <1>7, <1>11, <1>12 DEF StoreInv

\* The render after the effects shows and saves what they had read.
LEMMA RerenderKeepsStore ==
    ASSUME StoreInv, Rerender
    PROVE  StoreInv' /\ RepaidKept
<1>1. PICK v, notes : v = page.wallet /\ notes = page.restore.notes
  OBVIOUS
<1>2. /\ page.restore # NoRestore /\ SaveNotes(v, notes)
      /\ page' = [page EXCEPT !.notes = notes, !.restore = NoRestore]
      /\ UNCHANGED <<backup, order, owned, owed>> /\ job' = job
      /\ loose' = loose /\ overtaken' = overtaken
  BY <1>1 DEF Rerender, history
<1>3. /\ v \in Owners /\ notes \in NoteLists /\ page \in Page /\ page.name = "trade"
      /\ Good(notes, Born, Locked) /\ DOMAIN notes \subseteq owned[v] \cup loose
  BY <1>1, <1>2 DEF StoreInv, StoreValues, ListsOK, Good, Page
<1>4. /\ entry' \in [Owners -> Entry]
      /\ \A w \in Owners : entry'[w].notes = IF w = v THEN notes ELSE entry[w].notes
  BY <1>2, <1>3, SavedNotes DEF StoreInv, StoreValues
<1>5. /\ page' \in Page /\ page'.wallet = v /\ page'.name = "trade"
      /\ page'.notes = notes /\ page'.restore = NoRestore
      /\ page'.restore.notes = NoNotes
  BY <1>1, <1>2, <1>3, EntryFacts DEF Page
<1>6. /\ Born' = Born /\ Locked' = Locked /\ BirthsOK' /\ OrdersApart'
  BY <1>2, SameBirths DEF Locked, Offered
<1>7. StoreValues'
  BY <1>2, <1>4, <1>5 DEF StoreInv, StoreValues
<1>8. Good(NoNotes, Born, Locked)
  BY ListFacts DEF Good
<1>9. ListsOK'
  BY <1>2, <1>3, <1>4, <1>5, <1>6, <1>8, ListFacts DEF StoreInv, ListsOK
<1>10. \A w \in Owners : Holding(w)' = Holding(w)
  BY <1>1, <1>2, <1>4, <1>5, HoldingIs DEF StoreInv, StoreValues
<1>11. Holding(v) = notes
  BY <1>1, <1>2, <1>3, HoldingIs DEF StoreInv, StoreValues
<1>12. ASSUME ~overtaken
       PROVE  /\ \A w \in Owners : owed'[w] \subseteq DOMAIN Holding(w)'
              /\ ShowsOwed' /\ HandlerStays'
  <2>1. /\ \A w \in Owners : owed[w] \subseteq DOMAIN Holding(w)
        /\ HandlerStays
    BY <1>12 DEF StoreInv, KeptOK
  <2>2. ShowsOwed'
    BY <1>2, <1>3, <1>4, <1>5, <1>11, <2>1 DEF ShowsOwed, WithStatus
  <2>3. job = NoJob
    BY <1>3, <2>1 DEF HandlerStays
  <2> QED BY <1>2, <1>10, <2>1, <2>2, <2>3 DEF HandlerStays
<1>13. KeptOK'
  BY <1>2, <1>12 DEF KeptOK
<1>14. RepaidKept
  BY <1>10 DEF RepaidKept, WithStatus
<1> QED BY <1>6, <1>7, <1>9, <1>13, <1>14 DEF StoreInv

\* What a page shows and saves when it is mounted or its wallet changes.
LEMMA ShowsAndSaves ==
    ASSUME StoreValues, NEW name \in Pages, NEW v \in Owners \cup {NoWallet}, NEW held \in NoteLists,
           NEW shown, shown = Shown(name, v, held), NEW restore, restore = Restoring(name, v),
           MountEffects(name, v, held)
    PROVE  /\ shown \in NoteLists /\ restore \in Entry
           /\ entry' \in [Owners -> Entry]
           /\ \A w \in Owners :
                 entry'[w].notes = IF w = v /\ name = "trade" THEN held ELSE entry[w].notes
           /\ shown = NoNotes \/ (shown = held /\ name = "trade")
                \/ (v \in Owners /\ shown = entry[v].notes)
           /\ name \in {"vault", "exchange"} /\ v \in Owners => shown = entry[v].notes
           /\ name = "trade" => shown = held
           /\ name = "home" => shown = NoNotes
           /\ restore # NoRestore => v \in Owners /\ name = "trade" /\ restore = entry[v]
           /\ restore = NoRestore /\ v \in Owners /\ name = "trade" => entry[v].notes = NoNotes
<1>1. /\ GetNotes(NoWallet) = NoNotes /\ \A w \in Owners : GetNotes(w) = entry[w].notes
      /\ entry \in [Owners -> Entry]
  BY ReadsEntry DEF StoreValues
<1>2. /\ NoNotes \in NoteLists
      /\ \A e \in Entry : e.notes \in NoteLists /\ (e.kind # "kept" => e.notes = NoNotes)
      /\ NoRestore \in Entry
  BY ListFacts, EntryFacts
<1>3. name \in {"vault", "exchange"} => shown = GetNotes(v)
  BY DEF Shown
<1>4. name = "trade" => shown = held
  BY DEF Shown
<1>5. name = "home" => shown = NoNotes
  BY DEF Shown
<1>6. name \in {"vault", "exchange"} \/ name = "trade" \/ name = "home"
  BY DEF Pages
<1>7. /\ restore = NoRestore \/ (v \in Owners /\ name = "trade" /\ restore = entry[v])
      /\ restore = NoRestore /\ v \in Owners /\ name = "trade" =>
             entry[v] = NoRestore \/ entry[v].kind # "kept"
  BY DEF Restoring, Readable
<1>8. NoRestore.notes = NoNotes
  BY EntryFacts
<1>9. /\ entry' \in [Owners -> Entry]
      /\ \A w \in Owners :
            entry'[w].notes = IF w = v /\ name = "trade" THEN held ELSE entry[w].notes
  <2>1. CASE v = NoWallet
    <3>1. entry' = entry
      BY <2>1 DEF MountEffects
    <3>2. \A w \in Owners : w # v
      BY <2>1, StoreAssumption
    <3> QED BY <1>1, <3>1, <3>2
  <2>2. CASE v \in Owners /\ name = "home"
    <3>1. PICK notes \in NoteLists : notes = entry[v].notes /\ notes = GetNotes(v)
      BY <1>1, <1>2, <2>2
    <3>2. SaveNotes(v, notes)
      BY <2>2, <3>1, StoreAssumption DEF MountEffects, SaveAddresses
    <3> QED BY <1>1, <2>2, <3>1, <3>2, SavedNotes
  <2>3. CASE v \in Owners /\ name = "trade"
    <3>1. SaveNotes(v, held)
      BY <2>3, StoreAssumption DEF MountEffects
    <3> QED BY <1>1, <2>3, <3>1, SavedNotes
  <2>4. CASE v \in Owners /\ name \in {"vault", "exchange"}
    BY <1>1, <2>4, StoreAssumption DEF MountEffects
  <2> QED BY <1>6, <2>1, <2>2, <2>3, <2>4
<1>10. shown = NoNotes \/ (shown = held /\ name = "trade")
          \/ (v \in Owners /\ shown = entry[v].notes)
  BY <1>1, <1>3, <1>4, <1>5, <1>6
<1>11. shown \in NoteLists /\ restore \in Entry
  BY <1>1, <1>2, <1>7, <1>10
<1>12. name \in {"vault", "exchange"} /\ v \in Owners => shown = entry[v].notes
  BY <1>1, <1>3
<1>13. restore # NoRestore => v \in Owners /\ name = "trade" /\ restore = entry[v]
  BY <1>7
<1>14. restore = NoRestore /\ v \in Owners /\ name = "trade" => entry[v].notes = NoNotes
  BY <1>1, <1>2, <1>7, <1>8
<1> QED BY <1>4, <1>5, <1>9, <1>10, <1>11, <1>12, <1>13, <1>14

\* A page is mounted, reloaded, or its wallet changes.
LEMMA ShowingKeepsStore ==
    ASSUME StoreInv, NEW name \in Pages, NEW v \in Owners \cup {NoWallet},
           NEW held, held = NoNotes \/ (held = page.notes /\ name = page.name),
           page' \in Page, page'.name = name, page'.wallet = v,
           page'.notes = Shown(name, v, held), page'.restore = Restoring(name, v),
           MountEffects(name, v, held), loose' = loose \cup Copied(name, v, held),
           UNCHANGED <<backup, order, owned, owed>>,
           job' = job \/ job' = NoJob, overtaken' \in BOOLEAN,
           ~overtaken' => ~overtaken /\ page.restore = NoRestore /\ job' = NoJob
    PROVE  StoreInv' /\ RepaidKept
<1>1. Good(held, Born, Locked) /\ held \in NoteLists
  BY ListFacts DEF StoreInv, ListsOK, Good
<1>2. PICK shown, restore : shown = page'.notes /\ restore = page'.restore
  OBVIOUS
<1>3. /\ shown \in NoteLists /\ restore \in Entry
      /\ entry' \in [Owners -> Entry]
      /\ \A w \in Owners :
            entry'[w].notes = IF w = v /\ name = "trade" THEN held ELSE entry[w].notes
      /\ shown = NoNotes \/ (shown = held /\ name = "trade")
           \/ (v \in Owners /\ shown = entry[v].notes)
      /\ name \in {"vault", "exchange"} /\ v \in Owners => shown = entry[v].notes
      /\ name = "trade" => shown = held
      /\ name = "home" => shown = NoNotes
      /\ restore # NoRestore => v \in Owners /\ name = "trade" /\ restore = entry[v]
      /\ restore = NoRestore /\ v \in Owners /\ name = "trade" => entry[v].notes = NoNotes
  BY <1>1, <1>2, ShowsAndSaves DEF StoreInv
<1>4. /\ loose \subseteq loose' /\ loose' \in SUBSET NoteIds
      /\ name = "trade" /\ v \in Owners => DOMAIN held \subseteq owned[v] \cup loose'
  <2>1. loose \in SUBSET NoteIds /\ DOMAIN held \subseteq NoteIds
    BY <1>1, ListFacts DEF StoreInv, StoreValues
  <2> QED BY <2>1 DEF Copied
<1>5. /\ Born' = Born /\ Locked' \subseteq Locked
      /\ \A notes : Good(notes, Born, Locked) => Good(notes, Born', Locked')
      /\ BirthsOK' /\ OrdersApart'
  BY <1>4, SameBirths
<1>6. /\ Good(NoNotes, Born, Locked) /\ DOMAIN NoNotes = {}
      /\ NoRestore.notes = NoNotes
  BY ListFacts, EntryFacts DEF Good
<1>7. StoreValues'
  BY <1>3, <1>4 DEF StoreInv, StoreValues
<1>8. ListsOK'
  <2>1. \A w \in Owners : /\ Good(entry[w].notes, Born, Locked)
                          /\ DOMAIN entry[w].notes \subseteq owned[w] \cup loose
    BY DEF StoreInv, ListsOK
  <2>2. \A w \in Owners : /\ Good(entry'[w].notes, Born', Locked')
                          /\ DOMAIN entry'[w].notes \subseteq owned'[w] \cup loose'
    BY <1>1, <1>3, <1>4, <1>5, <2>1
  <2>3. Good(shown, Born', Locked') /\ Good(restore.notes, Born', Locked')
    BY <1>1, <1>3, <1>5, <1>6, <2>1
  <2>4. v \in Owners => /\ DOMAIN shown \subseteq owned'[v] \cup loose'
                        /\ DOMAIN restore.notes \subseteq owned'[v] \cup loose'
    BY <1>3, <1>4, <1>6, <2>1
  <2>5. job' # NoJob =>
            /\ Good(job'.notes, Born', Locked')
            /\ DOMAIN job'.notes \subseteq owned'[job'.wallet] \cup loose'
            /\ DOMAIN job'.file \subseteq Born'
            /\ job'.ids \subseteq DOMAIN job'.notes /\ job'.ids \cap Locked' = {}
    <3> SUFFICES ASSUME job' = job, job # NoJob
                 PROVE  /\ Good(job.notes, Born', Locked')
                        /\ DOMAIN job.notes \subseteq owned[job.wallet] \cup loose'
                        /\ DOMAIN job.file \subseteq Born'
                        /\ job.ids \subseteq DOMAIN job.notes /\ job.ids \cap Locked' = {}
      OBVIOUS
    <3> QED BY <1>4, <1>5 DEF StoreInv, ListsOK
  <2>6. page'.restore # NoRestore => page'.name = "trade" /\ page'.wallet \in Owners
    BY <1>2, <1>3
  <2> QED BY <1>2, <2>2, <2>3, <2>4, <2>5, <2>6 DEF ListsOK
<1>9. ASSUME ~overtaken'
      PROVE  \A w \in Owners :
                /\ Holding(w) = entry[w].notes
                /\ Holding(w)' = Holding(w) \/ Holding(w) = NoNotes
  <2>1. \A w \in Owners : Holding(w) = entry[w].notes
    BY <1>9, HoldingIs DEF StoreInv, StoreValues
  <2>2. \A w \in Owners : Holding(w)' = IF restore # NoRestore /\ v = w
                                        THEN restore.notes ELSE entry'[w].notes
    BY <1>2, <1>3, HoldingIs
  <2> QED BY <1>3, <2>1, <2>2
<1>10. ASSUME ~overtaken'
       PROVE  /\ \A w \in Owners : owed'[w] \subseteq DOMAIN Holding(w)'
              /\ ShowsOwed' /\ HandlerStays'
  <2>1. \A w \in Owners : owed[w] \subseteq DOMAIN entry[w].notes
    BY <1>9, <1>10 DEF StoreInv, KeptOK
  <2>2. \A w \in Owners : owed'[w] \subseteq DOMAIN Holding(w)'
    BY <1>6, <1>9, <1>10, <2>1
  <2>3. ShowsOwed'
    <3> SUFFICES ASSUME v \in Owners, restore = NoRestore
                 PROVE  /\ name # "home" => owed[v] \subseteq DOMAIN shown
                        /\ \A n \in DOMAIN shown :
                              n \in WithStatus(entry'[v].notes, "repaid") \ loose' =>
                                  shown[n] = "repaid"
      BY <1>2 DEF ShowsOwed
    <3>1. CASE name \in {"vault", "exchange"}
      BY <1>3, <2>1, <3>1 DEF WithStatus
    <3>2. CASE name = "trade"
      BY <1>3, <1>6, <2>1, <3>2 DEF WithStatus
    <3>3. CASE name = "home"
      BY <1>3, <1>6, <3>3
    <3> QED BY <3>1, <3>2, <3>3 DEF Pages
  <2>4. HandlerStays'
    BY <1>10 DEF HandlerStays
  <2> QED BY <2>2, <2>3, <2>4
<1>11. KeptOK'
  BY <1>10 DEF KeptOK
<1>12. RepaidKept
  <2>1. CASE overtaken'
    BY <2>1 DEF RepaidKept
  <2>2. CASE ~overtaken'
    BY <1>6, <1>9, <2>2 DEF RepaidKept, WithStatus
  <2> QED BY <2>1, <2>2
<1> QED BY <1>5, <1>7, <1>8, <1>11, <1>12 DEF StoreInv

\* A visit, a change of wallet and a reload.
LEMMA ShowKeepsStore ==
    ASSUME StoreInv, NEW name \in Pages, NEW v \in Owners \cup {NoWallet},
           NEW held, held = NoNotes \/ (held = page.notes /\ name = page.name),
           Show(name, v, held)
    PROVE  StoreInv' /\ RepaidKept
<1>1. PICK shown, restore, visits : /\ shown = Shown(name, v, held)
                                    /\ restore = Restoring(name, v)
                                    /\ visits = page.visits + 1
  OBVIOUS
<1>2. /\ page' = [name |-> name, wallet |-> v, notes |-> shown,
                  restore |-> restore, visits |-> visits]
      /\ MountEffects(name, v, held) /\ loose' = loose \cup Copied(name, v, held)
      /\ overtaken' = (overtaken \/ page.restore # NoRestore \/ job # NoJob)
      /\ UNCHANGED <<job, backup, order, owned, owed>>
  BY <1>1 DEF Show
<1>3. held \in NoteLists
  BY ListFacts DEF StoreInv, StoreValues, Page
<1>4. shown \in NoteLists /\ restore \in Entry
  BY <1>1, <1>2, <1>3, ShowsAndSaves DEF StoreInv
<1>5. visits \in Nat
  BY <1>1 DEF StoreInv, StoreValues, Page
<1>6. /\ page' \in Page /\ page'.name = name /\ page'.wallet = v
      /\ page'.notes = shown /\ page'.restore = restore
  BY <1>2, <1>4, <1>5 DEF Page
<1> QED BY <1>1, <1>2, <1>6, ShowingKeepsStore

LEMMA ReloadKeepsStore ==
    ASSUME StoreInv, Reload
    PROVE  StoreInv' /\ RepaidKept
<1>1. PICK name, v : name = page.name /\ v = page.wallet
  OBVIOUS
<1>2. PICK shown, restore, visits : /\ shown = Shown(name, v, NoNotes)
                                    /\ restore = Restoring(name, v)
                                    /\ visits = page.visits + 1
  OBVIOUS
<1>3. /\ page' = [page EXCEPT !.notes = shown, !.restore = restore, !.visits = visits]
      /\ MountEffects(name, v, NoNotes) /\ job' = NoJob
      /\ overtaken' = (overtaken \/ page.restore # NoRestore)
      /\ UNCHANGED <<backup, order, owned, owed>> /\ loose' = loose
  BY <1>1, <1>2 DEF Reload
<1>4. page \in Page /\ name \in Pages /\ v \in Owners \cup {NoWallet} /\ visits \in Nat
  BY <1>1, <1>2 DEF StoreInv, StoreValues, Page
<1>5. shown \in NoteLists /\ restore \in Entry
  BY <1>2, <1>3, <1>4, ListFacts, ShowsAndSaves DEF StoreInv
<1>6. /\ page' \in Page /\ page'.name = name /\ page'.wallet = v
      /\ page'.notes = shown /\ page'.restore = restore
  BY <1>1, <1>3, <1>4, <1>5 DEF Page
<1>7. loose' = loose \cup Copied(name, v, NoNotes)
  BY <1>3, ListFacts DEF Copied
<1> QED BY <1>2, <1>3, <1>4, <1>6, <1>7, ShowingKeepsStore

\* A handler begins, with what its page shows.
LEMMA BeginsWith ==
    ASSUME StoreInv, NEW task \in {"buy", "sell", "import"}, NEW file \in NoteLists,
           NEW ids \in SUBSET NoteIds, Begin(task, file, ids), page.wallet \in Owners
    PROVE  /\ job' \in Job /\ job'.kind = task /\ job'.wallet = page.wallet
           /\ job'.notes = page.notes /\ job'.file = file /\ job'.ids = ids
<1>1. PICK v \in Owners, notes \in NoteLists : v = page.wallet /\ notes = page.notes
  BY DEF StoreInv, StoreValues, Page
<1>2. job' = [kind |-> task, wallet |-> v, notes |-> notes, file |-> file, ids |-> ids]
  BY <1>1 DEF Begin
<1> QED BY <1>1, <1>2 DEF Job

\* The steps that only begin or end a handler, write the backup, or read again.
LEMMA QuietStepsKeepStore ==
    ASSUME StoreInv,
           \/ Buy \/ GiveUp \/ Refresh \/ Export \/ Import \/ UNCHANGED storeVars
           \/ \E ids \in SUBSET NoteIds : Sell(ids)
    PROVE  StoreInv' /\ RepaidKept
<1>1. \A name : On(name) => /\ page.name = name /\ page.wallet \in Owners
                            /\ page.restore = NoRestore
  BY DEF On, StoreInv, StoreValues, Page
<1>2. PICK none \in NoteLists : none = NoNotes /\ DOMAIN none = {}
  BY ListFacts
<1>3. PICK no \in SUBSET NoteIds : no = {}
  OBVIOUS
<1>4. CASE Buy
  <2>1. /\ On("exchange") /\ Begin("buy", none, no) /\ page' = page
        /\ UNCHANGED <<entry, order, history>> /\ UNCHANGED backup
    BY <1>2, <1>3, <1>4 DEF Buy
  <2>2. PICK task \in {"buy", "sell", "import"} : task = "buy"
    OBVIOUS
  <2>3. /\ job' \in Job /\ job'.kind = task /\ job'.wallet = page.wallet
        /\ job'.notes = page.notes /\ job'.file = none /\ job'.ids = no
    BY <1>1, <2>1, <2>2, BeginsWith
  <2>4. /\ DOMAIN job'.file \subseteq Born /\ job'.ids \subseteq WithStatus(page.notes, "drawn")
        /\ page.name = IF job'.kind = "import" THEN "vault" ELSE "exchange"
    BY <1>1, <1>2, <1>3, <2>1, <2>2, <2>3
  <2> QED BY <1>1, <2>1, <2>3, <2>4, QuietKeepsStore
<1>5. CASE Import
  <2>1. PICK file \in NoteLists : file = backup.notes /\ DOMAIN file \subseteq Born
    BY DEF StoreInv, StoreValues, BirthsOK
  <2>2. /\ On("vault") /\ Begin("import", file, no) /\ page' = page
        /\ UNCHANGED <<entry, order, history>> /\ UNCHANGED backup
    BY <1>3, <1>5, <2>1 DEF Import
  <2>3. PICK task \in {"buy", "sell", "import"} : task = "import"
    OBVIOUS
  <2>4. /\ job' \in Job /\ job'.kind = task /\ job'.wallet = page.wallet
        /\ job'.notes = page.notes /\ job'.file = file /\ job'.ids = no
    BY <1>1, <2>2, <2>3, BeginsWith
  <2>5. /\ DOMAIN job'.file \subseteq Born /\ job'.ids \subseteq WithStatus(page.notes, "drawn")
        /\ page.name = IF job'.kind = "import" THEN "vault" ELSE "exchange"
    BY <1>1, <1>3, <2>1, <2>2, <2>3, <2>4
  <2> QED BY <1>1, <2>2, <2>4, <2>5, QuietKeepsStore
<1>6. ASSUME NEW ids \in SUBSET NoteIds, Sell(ids)
      PROVE  StoreInv' /\ RepaidKept
  <2>1. /\ On("exchange") /\ Begin("sell", none, ids) /\ page' = page
        /\ ids \subseteq WithStatus(page.notes, "drawn")
        /\ UNCHANGED <<entry, order, history>> /\ UNCHANGED backup
    BY <1>2, <1>6 DEF Sell
  <2>2. PICK task \in {"buy", "sell", "import"} : task = "sell"
    OBVIOUS
  <2>3. /\ job' \in Job /\ job'.kind = task /\ job'.wallet = page.wallet
        /\ job'.notes = page.notes /\ job'.file = none /\ job'.ids = ids
    BY <1>1, <2>1, <2>2, BeginsWith
  <2>4. /\ DOMAIN job'.file \subseteq Born /\ job'.ids \subseteq WithStatus(page.notes, "drawn")
        /\ page.name = IF job'.kind = "import" THEN "vault" ELSE "exchange"
    BY <1>1, <1>2, <2>1, <2>2, <2>3
  <2> QED BY <1>1, <2>1, <2>3, <2>4, QuietKeepsStore
<1>7. CASE GiveUp
  BY <1>7, QuietKeepsStore DEF GiveUp
<1>8. CASE Refresh
  BY <1>8, QuietKeepsStore DEF Refresh
<1>9. CASE Export
  <2>1. backup'.notes = page.notes /\ page' = page /\ job' = job
    BY <1>9 DEF Export
  <2> QED BY <1>9, <2>1, QuietKeepsStore DEF Export
<1>10. CASE UNCHANGED storeVars
  BY <1>10, QuietKeepsStore DEF storeVars, history
<1> QED BY <1>4, <1>5, <1>6, <1>7, <1>8, <1>9, <1>10

\* Before the first page is used, no note is anywhere.
LEMMA StoreStart == StoreInit => StoreInv
<1> SUFFICES ASSUME StoreInit PROVE StoreInv
  OBVIOUS
<1>1. /\ entry = [w \in Owners |-> Absent] /\ job = NoJob /\ order = << >>
      /\ owned = [w \in Owners |-> {}] /\ owed = [w \in Owners |-> {}]
      /\ loose = {} /\ overtaken = FALSE
  BY DEF StoreInit
<1>2. /\ page.name = "home" /\ page.wallet = NoWallet /\ page.notes = NoNotes
      /\ page.restore = NoRestore /\ page.visits = 0 /\ backup.notes = NoNotes
  BY DEF StoreInit
<1>3. page \in Page
  <2>1. PICK restore \in Entry, notes \in NoteLists : restore = NoRestore /\ notes = NoNotes
    BY EntryFacts, ListFacts
  <2>2. page = [name |-> "home", wallet |-> NoWallet, notes |-> notes,
                restore |-> restore, visits |-> 0]
    BY <2>1 DEF StoreInit
  <2>3. "home" \in Pages /\ NoWallet \in Owners \cup {NoWallet} /\ 0 \in Nat
    BY DEF Pages
  <2> QED BY <2>2, <2>3, Zenon DEF Page
<1>4. Absent \in Entry /\ Absent.notes = NoNotes /\ NoRestore = Absent
  BY EntryFacts
<1>5. NoNotes \in NoteLists /\ DOMAIN NoNotes = {}
  BY ListFacts
<1>6. Born = {} /\ Offered = {}
  BY <1>1 DEF Born, Offered
<1>7. StoreValues
  <2>1. entry \in [Owners -> Entry]
    BY <1>1, <1>4
  <2>2. /\ owned \in [Owners -> SUBSET NoteIds] /\ owed \in [Owners -> SUBSET NoteIds]
        /\ loose \in SUBSET NoteIds /\ overtaken \in BOOLEAN
    BY <1>1
  <2>3. order \in Seq(SUBSET NoteIds)
    BY <1>1
  <2>4. (job # NoJob => job \in Job) /\ backup.notes \in NoteLists
    BY <1>1, <1>2, <1>5
  <2> QED BY <1>3, <2>1, <2>2, <2>3, <2>4, Zenon DEF StoreValues
<1>8. Good(NoNotes, Born, Locked)
  BY <1>5 DEF Good
<1>9. ListsOK
  BY <1>1, <1>2, <1>4, <1>5, <1>8, StoreAssumption DEF ListsOK
<1>10. BirthsOK
  BY <1>1, <1>2, <1>5, <1>6 DEF BirthsOK
<1>11. ShowsOwed /\ HandlerStays /\ OrdersApart
  BY <1>1, <1>2, StoreAssumption DEF ShowsOwed, HandlerStays, OrdersApart
<1>12. KeptOK
  BY <1>1, <1>11 DEF KeptOK
<1> QED BY <1>7, <1>9, <1>10, <1>11, <1>12 DEF StoreInv

\* Every step keeps the invariant, and no step brings a repaid note back.
LEMMA StepsKeepStore == StoreInv /\ [StoreNext]_storeVars => StoreInv' /\ RepaidKept
<1> SUFFICES ASSUME StoreInv, [StoreNext]_storeVars PROVE StoreInv' /\ RepaidKept
  OBVIOUS
<1>1. CASE \E name \in Pages : Visit(name)
  <2>1. PICK name \in Pages : Show(name, page.wallet, NoNotes)
    BY <1>1 DEF Visit
  <2>2. page.wallet \in Owners \cup {NoWallet}
    BY DEF StoreInv, StoreValues, Page
  <2>3. PICK v \in Owners \cup {NoWallet} : v = page.wallet
    BY <2>2
  <2>4. PICK held : held = NoNotes
    OBVIOUS
  <2>5. Show(name, v, held)
    BY <2>1, <2>3, <2>4
  <2> QED BY <2>4, <2>5, ShowKeepsStore
<1>2. CASE \E w \in Owners \cup {NoWallet} : Connect(w)
  <2>1. PICK v \in Owners \cup {NoWallet} : Show(page.name, v, page.notes)
    BY <1>2 DEF Connect
  <2>2. PICK name \in Pages : name = page.name
    BY DEF StoreInv, StoreValues, Page
  <2>3. PICK held : held = page.notes
    OBVIOUS
  <2>4. Show(name, v, held)
    BY <2>1, <2>2, <2>3
  <2> QED BY <2>2, <2>3, <2>4, ShowKeepsStore
<1>3. CASE Reload \/ Rerender
  BY <1>3, ReloadKeepsStore, RerenderKeepsStore
<1>4. CASE \E n \in NoteIds : Mint(n) \/ Deliver(n) \/ Release(n)
  BY <1>4, MintKeepsStore, DeliverKeepsStore, ReleaseKeepsStore
<1>5. CASE \E ids \in SUBSET NoteIds : Repay(ids)
  BY <1>5, RepayKeepsStore
<1>6. CASE SellAccepted \/ SellUnanswered \/ Imported
  BY <1>6, AcceptedKeepsStore, UnansweredKeepsStore, ImportedKeepsStore
<1>7. CASE \E i \in 1..MaxOrders : OrderEnds(i)
  BY <1>7, EndingKeepsStore
<1>8. CASE \E w \in Owners, e \in {Absent, Corrupt} : Damage(w, e)
  BY <1>8, DamageKeepsStore
<1>9. CASE \/ Buy \/ GiveUp \/ Refresh \/ Export \/ Import \/ UNCHANGED storeVars
           \/ \E ids \in SUBSET NoteIds : Sell(ids)
  BY <1>9, QuietStepsKeepStore
<1> QED BY <1>1, <1>2, <1>3, <1>4, <1>5, <1>6, <1>7, <1>8, <1>9 DEF StoreNext

LEMMA StoreInvHolds == StoreSpec => []StoreInv
<1>1. StoreInv /\ [StoreNext]_storeVars => StoreInv'
  BY StepsKeepStore
<1> QED BY <1>1, StoreStart, PTL DEF StoreSpec

\* While no handler outlives its page, the entry of a wallet holds every note that was
\* put into it, whatever the wallets, the pages and the notes.
THEOREM NotesAreAlwaysKept == StoreSpec => []NotesAreKept
<1>1. StoreInv => NotesAreKept
  BY DEF StoreInv, KeptOK, NotesAreKept
<1> QED BY <1>1, StoreInvHolds, PTL

\* No two live orders offer a note, unless its lock was lost in one of the ways named.
THEOREM NotesAreOfferedOnce == StoreSpec => []OfferedOnce
<1>1. StoreInv => OfferedOnce
  BY DEF StoreInv, OrdersApart, OfferedOnce
<1> QED BY <1>1, StoreInvHolds, PTL

\* The entries, the page, the handlers and the orders have the values that the code
\* gives them.
THEOREM StoreTypeCorrect == StoreSpec => []StoreTypeOK
<1>1. StoreInv => StoreTypeOK
  <2> SUFFICES ASSUME StoreInv PROVE StoreTypeOK
    OBVIOUS
  <2>1. entry \in [Owners -> {Absent, Corrupt} \cup {Kept(l) : l \in NoteLists}]
    BY DEF StoreInv, StoreValues, Entry
  <2>2. /\ page.name \in Pages /\ page.wallet \in Owners \cup {NoWallet}
        /\ page.notes \in NoteLists
    BY DEF StoreInv, StoreValues, Page
  <2>3. job # NoJob => job.wallet \in Owners /\ job.notes \in NoteLists
    BY DEF StoreInv, StoreValues, Job
  <2>4. \A i \in DOMAIN order : order[i] \subseteq NoteIds
    BY DEF StoreInv, StoreValues
  <2> QED BY <2>1, <2>2, <2>3, <2>4 DEF StoreTypeOK
<1> QED BY <1>1, StoreInvHolds, PTL

\* A repaid note stays repaid, unless a backup older than its repayment brings it back
\* or a handler outlived its page.
THEOREM RepaidNotesStayRepaid == StoreSpec => RepaidStaysRepaid
<1>1. StoreInv /\ [StoreNext]_storeVars =>
          [\A w \in Owners : \A n \in WithStatus(Holding(w), "repaid") \ loose' :
              n \in DOMAIN Holding(w)' =>
                  Holding(w)'[n] = "repaid" \/ overtaken']_storeVars
  BY StepsKeepStore DEF RepaidKept
<1> QED BY <1>1, StoreInvHolds, PTL DEF StoreSpec, RepaidStaysRepaid

-----------------------------------------------------------------------------
(* The home page.                                                          *)

Addresses == [pool : Pools \cup {ZeroKey}, line : Lines \cup {ZeroKey}]

\* What the page shows: the line data as some account had it.
AppFits ==
    /\ DOMAIN app = {"held", "seen", "job", "mint", "wallet", "vault", "restoring"}
    /\ app.held \in Addresses
    /\ app.seen \in CreditLineAccount
    /\ app.seen.repaid + app.seen.defaulted <= app.seen.drawn
    /\ app.mint \in Mints \cup {NoMint}
    /\ app.restoring \in BOOLEAN

\* What the handlers put in a transaction.
JobFits(tx) ==
    /\ tx.kind \in {"pool", "line", "draw", "repay", "settle"}
    /\ tx.pool \in Pools
    /\ tx.slot \in 0..slot
    /\ tx.kind = "pool" => tx.slot + Term <= MaxSlot
    /\ tx.kind # "pool" => tx.line \in Lines
    /\ tx.kind = "line" => tx.maturity \in Int /\ tx.maturity <= MaxSlot
    /\ tx.kind \in {"draw", "repay"} => tx.notes \in U32

\* There is at most one line, on the chain or under way, and it is the one held.
HeldIsTheLine ==
    /\ \A tx \in pending :
          tx.kind = "line" => tx.pool = app.held.pool /\ tx.line = app.held.line
    /\ \A l \in Lines :
          Initialized(line[l]) => line[l].pool = app.held.pool /\ app.held.line = l

\* A mint was given to the wallet whole, and the vault's account is made once.
TokensFit ==
    /\ ata \in [Mints -> [wallet : Int, vault : Int]]
    /\ \A m \in Mints :
          \/ ata[m].wallet = NoAccount /\ ata[m].vault = NoAccount
          \/ ata[m].wallet = Supply /\ ata[m].vault = NoAccount
          \/ ata[m].wallet >= 0 /\ ata[m].vault >= 0 /\ ata[m].wallet + ata[m].vault = Supply

\* The inductive invariant of the home page; the vault's own is a part of it, since what
\* the page sends may land late.
HomeInv ==
    /\ RefinementInv
    /\ slot \in Slots
    /\ AppFits
    /\ kept \in Addresses
    /\ mislaid \in BOOLEAN
    /\ \A tx \in pending : JobFits(tx)
    /\ ~app.restoring => kept = app.held
    /\ ~mislaid => HeldIsTheLine
    /\ TokensFit

-----------------------------------------------------------------------------

LEMMA HomeNumbers ==
    /\ MaxU32 \in Nat \ {0} /\ MaxSlot \in Nat \ {0}
    /\ NoteLimit \in 1..MaxU32 /\ Supply \in Nat
    /\ Term \in Nat /\ Ahead \in Nat /\ NoMint \notin Mints
    /\ Self \in Underwriters /\ Self \in Auditors /\ Self \in Borrowers /\ Self \in Keys
  BY BoundsAssumption, HomeAssumption DEF U32, Keys

LEMMA AddressFields ==
    ASSUME NEW held \in Addresses
    PROVE  held.pool \in Pools \cup {ZeroKey} /\ held.line \in Lines \cup {ZeroKey}
  BY DEF Addresses

LEMMA RefinementNext ==
    ASSUME RefinementInv, [Next]_vars
    PROVE  RefinementInv'
  BY TypeOKNext, LineAccountingNext, LineMatchesPoolNext, BlankNext DEF RefinementInv

\* A transaction under way keeps fitting while the slot grows.
LEMMA JobStaysFit ==
    ASSUME NEW tx, slot \in Nat, slot' \in Nat, slot <= slot', JobFits(tx)
    PROVE  JobFits(tx)'
  BY DEF JobFits

\* A handler begins, or ends, or the page is told something; the chain stays.
LEMMA PageMoves ==
    ASSUME HomeInv, UNCHANGED chainVars, AppFits', kept' \in Addresses,
           mislaid' \in BOOLEAN, \A tx \in pending' : tx \in pending \/ JobFits(tx),
           ~app'.restoring => kept' = app'.held,
           ~mislaid' => HeldIsTheLine', TokensFit'
    PROVE  HomeInv'
  <1>1. /\ pool' = pool /\ line' = line /\ receipt' = receipt /\ spoilt' = spoilt
        /\ slot' = slot
    BY DEF chainVars
  <1>2. RefinementInv'
    <2>1. [Next]_vars
      BY <1>1 DEF vars
    <2> QED BY <2>1, RefinementNext DEF HomeInv
  <1>4. \A tx \in pending' : JobFits(tx)'
    BY <1>1 DEF HomeInv, JobFits
  <1> QED BY <1>1, <1>2, <1>4 DEF HomeInv

LEMMA AppRecord ==
    ASSUME AppFits, NEW tx, NEW held \in Addresses,
           app' = [app EXCEPT !.job = tx, !.held = held]
    PROVE  AppFits' /\ app'.held = held /\ app'.restoring = app.restoring
  <1>1. /\ DOMAIN app' = DOMAIN app
        /\ app'.held = held /\ app'.seen = app.seen /\ app'.mint = app.mint
        /\ app'.restoring = app.restoring
    BY DEF AppFits
  <1> QED BY <1>1 DEF AppFits

\* A handler sends what fits, and keeps the addresses.
LEMMA AsksMoves ==
    ASSUME HomeInv, NEW tx, NEW held \in Addresses, Asks(tx, held),
           JobFits(tx), mislaid' \in BOOLEAN,
           ~mislaid' => /\ ~mislaid
                        /\ \A j \in pending \cup {tx} :
                              j.kind = "line" => j.pool = held.pool /\ j.line = held.line
                        /\ \A l \in Lines :
                              Initialized(line[l]) => line[l].pool = held.pool /\ held.line = l
    PROVE  HomeInv'
  <1>1. /\ app' = [app EXCEPT !.job = tx, !.held = held]
        /\ pending' = pending \cup {tx} /\ kept' = held /\ ata' = ata
        /\ UNCHANGED chainVars
    BY DEF Asks, Submits
  <1>2. AppFits' /\ app'.held = held
    BY <1>1, AppRecord DEF HomeInv
  <1>3. TokensFit'
    BY <1>1 DEF HomeInv, TokensFit
  <1>4. ~mislaid' => HeldIsTheLine'
    BY <1>1, <1>2 DEF HeldIsTheLine, chainVars
  <1> QED BY <1>1, <1>2, <1>3, <1>4, PageMoves


\* Before a pool is held there is no line, before a line is held there is none.
LEMMA NothingHeld ==
    ASSUME HomeInv, HeldIsTheLine, app.held.pool = ZeroKey \/ app.held.line = ZeroKey
    PROVE  /\ \A tx \in pending : tx.kind # "line"
           /\ \A l \in Lines : ~Initialized(line[l])
  <1>1. ASSUME NEW tx \in pending, tx.kind = "line" PROVE FALSE
    BY <1>1, AddressAssumption DEF HomeInv, JobFits, HeldIsTheLine
  <1>2. ASSUME NEW l \in Lines, Initialized(line[l]) PROVE FALSE
    BY <1>2, AddressAssumption DEF HomeInv, RefinementInv, LineMatchesPool, HeldIsTheLine
  <1> QED BY <1>1, <1>2

LEMMA InitPoolKeeps ==
    ASSUME HomeInv, NEW p \in Pools, HandleInitPool(p)
    PROVE  HomeInv'
  <1>1. PICK tx, held : /\ tx = [kind |-> "pool", pool |-> p, slot |-> slot]
                         /\ held = [app.held EXCEPT !.pool = p]
    OBVIOUS
  <1>2. /\ Asks(tx, held) /\ slot + Term <= MaxSlot
        /\ mislaid' = (mislaid \/ app.held.pool # ZeroKey)
    BY <1>1 DEF HandleInitPool
  <1>3. held \in Addresses /\ mislaid' \in BOOLEAN
    BY <1>1, <1>2 DEF HomeInv, AppFits, Addresses
  <1>4. slot \in 0..slot
    BY HomeNumbers DEF HomeInv, Slots
  <1>5. JobFits(tx) /\ tx.kind # "line"
    BY <1>1, <1>2, <1>4 DEF JobFits
  <1>6. ASSUME ~mislaid'
        PROVE  /\ ~mislaid
               /\ \A j \in pending \cup {tx} : j.kind # "line"
               /\ \A l \in Lines : ~Initialized(line[l])
    <2>1. ~mislaid /\ app.held.pool = ZeroKey
      BY <1>2, <1>6
    <2>2. HeldIsTheLine
      BY <2>1 DEF HomeInv
    <2> QED BY <1>5, <2>1, <2>2, NothingHeld
  <1> QED BY <1>2, <1>3, <1>5, <1>6, AsksMoves

LEMMA ApproveKeeps ==
    ASSUME HomeInv, NEW l \in Lines, HandleApprove(l)
    PROVE  HomeInv'
  <1>1. PICK tx, held :
           /\ tx = [kind |-> "line", pool |-> app.held.pool, line |-> l, slot |-> slot,
                     maturity |-> pool[app.held.pool].maturity - Ahead]
           /\ held = [app.held EXCEPT !.line = l]
    OBVIOUS
  <1>2. /\ Asks(tx, held) /\ app.held.pool # ZeroKey
        /\ mislaid' = (mislaid \/ app.held.line # ZeroKey)
    BY <1>1 DEF HandleApprove
  <1>3. /\ held \in Addresses /\ mislaid' \in BOOLEAN /\ app.held.pool \in Pools
        /\ held.pool = app.held.pool /\ held.line = l
    BY <1>1, <1>2 DEF HomeInv, AppFits, Addresses
  <1>4. slot \in 0..slot
    BY HomeNumbers DEF HomeInv, Slots
  <1>5. pool[app.held.pool].maturity \in 0..MaxSlot
    BY <1>3 DEF HomeInv, RefinementInv, TypeOK, PoolAccount, Slots
  <1>6. /\ tx.maturity \in Int /\ tx.maturity <= MaxSlot /\ tx.kind = "line"
        /\ tx.pool = app.held.pool /\ tx.line = l /\ tx.slot = slot
    BY <1>1, <1>5, HomeNumbers
  <1>7. JobFits(tx)
    BY <1>3, <1>4, <1>6 DEF JobFits
  <1>8. ASSUME ~mislaid'
        PROVE  /\ ~mislaid
               /\ \A j \in pending : j.kind # "line"
               /\ \A x \in Lines : ~Initialized(line[x])
    <2>1. ~mislaid /\ app.held.line = ZeroKey
      BY <1>2, <1>8
    <2>2. HeldIsTheLine
      BY <2>1 DEF HomeInv
    <2> QED BY <2>1, <2>2, NothingHeld
  <1> QED BY <1>2, <1>3, <1>6, <1>7, <1>8, AsksMoves

\* A draw, a repayment or a settlement is for the addresses held.
LEMMA OperationKeeps ==
    ASSUME HomeInv, HoldsBoth, NEW task \in {"draw", "repay", "settle"}, NEW notes \in U32,
           Asks(Operation(task, notes), app.held), mislaid' = mislaid
    PROVE  HomeInv'
  <1>1. PICK tx : tx = Operation(task, notes)
    OBVIOUS
  <1>2. /\ app.held \in Addresses /\ app.held.pool \in Pools /\ app.held.line \in Lines
        /\ mislaid' \in BOOLEAN
    BY AddressFields DEF HomeInv, AppFits, HoldsBoth
  <1>3. slot \in 0..slot
    BY HomeNumbers DEF HomeInv, Slots
  <1>4. tx.kind = task /\ JobFits(tx)
    BY <1>1, <1>2, <1>3 DEF Operation, JobFits
  <1>5. ~mislaid' => /\ ~mislaid
                     /\ \A j \in pending \cup {tx} :
                           j.kind = "line" => j.pool = app.held.pool /\ j.line = app.held.line
                     /\ \A l \in Lines : Initialized(line[l]) =>
                           line[l].pool = app.held.pool /\ app.held.line = l
    BY <1>4 DEF HomeInv, HeldIsTheLine
  <1> QED BY <1>1, <1>2, <1>4, <1>5, AsksMoves

LEMMA HandlersKeep ==
    ASSUME HomeInv, \/ \E n \in 1..NoteLimit : HandleDraw(n) \/ HandleRepay(n)
                    \/ HandleSettle
    PROVE  HomeInv'
  <1>1. /\ app.seen.limit \in 0..MaxU32 /\ app.seen.drawn \in 0..MaxU32
        /\ app.seen.repaid \in 0..MaxU32 /\ app.seen.defaulted \in 0..MaxU32
        /\ app.seen.repaid + app.seen.defaulted <= app.seen.drawn
    BY DEF HomeInv, AppFits, CreditLineAccount, U32
  <1>2. ASSUME NEW n \in 1..NoteLimit, HandleDraw(n) PROVE HomeInv'
    <2>1. /\ HoldsBoth /\ Asks(Operation("draw", n), app.held) /\ mislaid' = mislaid
      BY <1>2 DEF HandleDraw
    <2>2. n \in U32
      BY HomeNumbers DEF U32
    <2> QED BY <2>1, <2>2, OperationKeeps
  <1>3. ASSUME NEW n \in 1..NoteLimit, HandleRepay(n) PROVE HomeInv'
    <2>1. PICK due : due = app.seen.drawn - app.seen.repaid - app.seen.defaulted
      OBVIOUS
    <2>2. PICK m : m = Min({n, due})
      OBVIOUS
    <2>3. /\ HoldsBoth /\ Asks(Operation("repay", m), app.held) /\ mislaid' = mislaid
      BY <1>3, <2>1, <2>2 DEF HandleRepay
    <2>4. due \in 0..MaxU32 /\ n \in 0..MaxU32
      BY <1>1, <2>1, HomeNumbers
    <2>5. m \in U32
      BY <2>2, <2>4, SmallerOne, HomeNumbers DEF U32
    <2> QED BY <2>3, <2>5, OperationKeeps
  <1>4. CASE HandleSettle
    <2>1. /\ HoldsBoth /\ Asks(Operation("settle", 0), app.held) /\ mislaid' = mislaid
      BY <1>4 DEF HandleSettle
    <2>2. 0 \in U32
      BY HomeNumbers DEF U32
    <2> QED BY <2>1, <2>2, OperationKeeps
  <1> QED BY <1>2, <1>3, <1>4

\* The page reads the line, is told, gives up or is reloaded.
LEMMA TellingKeeps ==
    ASSUME HomeInv, FetchLine \/ GivesUp \/ HandleDelegate \/ HomeReload \/ HomeRestored
    PROVE  HomeInv'
  <1>a. /\ AppFits /\ kept \in Addresses /\ mislaid \in BOOLEAN /\ TokensFit
        /\ ~app.restoring => kept = app.held
        /\ ~mislaid => HeldIsTheLine
    BY DEF HomeInv
  <1>1. CASE FetchLine
    <2>1. PICK l \in Lines : l = app.held.line
      BY <1>1 DEF FetchLine
    <2>2. /\ app' = [app EXCEPT !.job = Idle, !.seen = line[l]]
          /\ UNCHANGED chainVars /\ kept' = kept /\ ata' = ata /\ mislaid' = mislaid
          /\ pending' = pending
      BY <1>1, <2>1 DEF FetchLine
    <2>3. /\ DOMAIN app' = DOMAIN app
          /\ app'.held = app.held /\ app'.seen = line[l] /\ app'.mint = app.mint
          /\ app'.restoring = app.restoring
      BY <1>a, <2>2 DEF AppFits
    <2>4. line[l] \in CreditLineAccount /\ line[l].repaid + line[l].defaulted <= line[l].drawn
      <3>1. line[l] \in CreditLineAccount /\ OutstandingDefined(l)
        BY DEF HomeInv, RefinementInv, TypeOK, LineAccounting, LineWithinLimit
      <3>2. line[l].repaid \in Int /\ line[l].defaulted \in Int /\ line[l].drawn \in Int
        BY <3>1, HomeNumbers DEF CreditLineAccount, U32
      <3> QED BY <3>1, <3>2 DEF OutstandingDefined
    <2>5. AppFits'
      BY <1>a, <2>3, <2>4 DEF AppFits
    <2>6. TokensFit' /\ (~mislaid' => HeldIsTheLine')
      BY <1>a, <2>2, <2>3 DEF TokensFit, HeldIsTheLine, chainVars
    <2> QED BY <1>a, <2>2, <2>3, <2>5, <2>6, PageMoves
  <1>2. CASE GivesUp
    <2>1. /\ app' = [app EXCEPT !.job = Idle]
          /\ UNCHANGED chainVars /\ kept' = kept /\ ata' = ata /\ mislaid' = mislaid
          /\ pending' = pending
      BY <1>2 DEF GivesUp
    <2>2. /\ DOMAIN app' = DOMAIN app
          /\ app'.held = app.held /\ app'.seen = app.seen /\ app'.mint = app.mint
          /\ app'.restoring = app.restoring
      BY <1>a, <2>1 DEF AppFits
    <2>3. AppFits'
      BY <1>a, <2>2 DEF AppFits
    <2>4. TokensFit' /\ (~mislaid' => HeldIsTheLine')
      BY <1>a, <2>1, <2>2 DEF TokensFit, HeldIsTheLine, chainVars
    <2> QED BY <1>a, <2>1, <2>2, <2>3, <2>4, PageMoves
  <1>3. CASE HandleDelegate
    <2>1. /\ app' = app /\ UNCHANGED chainVars /\ kept' = kept /\ ata' = ata
          /\ mislaid' = mislaid /\ pending' = pending
      BY <1>3 DEF HandleDelegate
    <2>2. AppFits' /\ TokensFit' /\ (~mislaid' => HeldIsTheLine')
      BY <1>a, <2>1 DEF AppFits, TokensFit, HeldIsTheLine, chainVars
    <2> QED BY <1>a, <2>1, <2>2, PageMoves
  <1>4. CASE HomeReload
    <2>1. /\ app' = [held |-> kept, seen |-> EmptyLine, job |-> Idle, mint |-> NoMint,
                     wallet |-> 0, vault |-> 0, restoring |-> kept # NoAddresses]
          /\ kept' = NoAddresses /\ mislaid' = (mislaid \/ app.restoring)
          /\ UNCHANGED chainVars /\ ata' = ata /\ pending' = pending
      BY <1>4 DEF HomeReload
    <2>2. /\ DOMAIN app' = {"held", "seen", "job", "mint", "wallet", "vault", "restoring"}
          /\ app'.held = kept /\ app'.seen = EmptyLine /\ app'.mint = NoMint
          /\ app'.restoring = (kept # NoAddresses)
      BY <2>1
    <2>3. NoAddresses \in Addresses /\ EmptyLine \in CreditLineAccount
      BY EmptyAccountsTyped DEF NoAddresses, Addresses
    <2>4. EmptyLine.repaid + EmptyLine.defaulted <= EmptyLine.drawn
      BY DEF EmptyLine
    <2>5. AppFits'
      BY <1>a, <2>2, <2>3, <2>4 DEF AppFits
    <2>6. TokensFit' /\ mislaid' \in BOOLEAN
      BY <1>a, <2>1 DEF TokensFit, AppFits
    <2>7. ~mislaid' => HeldIsTheLine'
      <3> SUFFICES ASSUME ~mislaid' PROVE HeldIsTheLine'
        OBVIOUS
      <3>1. ~mislaid /\ ~app.restoring
        BY <2>1
      <3>2. app'.held = app.held
        BY <1>a, <2>2, <3>1
      <3> QED BY <1>a, <2>1, <3>1, <3>2 DEF HeldIsTheLine, chainVars
    <2>8. ~app'.restoring => kept' = app'.held
      BY <2>1, <2>2
    <2> QED BY <2>1, <2>3, <2>5, <2>6, <2>7, <2>8, PageMoves
  <1>5. CASE HomeRestored
    <2>1. /\ app' = [app EXCEPT !.restoring = FALSE] /\ kept' = app.held
          /\ UNCHANGED chainVars /\ ata' = ata /\ mislaid' = mislaid /\ pending' = pending
      BY <1>5 DEF HomeRestored
    <2>2. /\ DOMAIN app' = DOMAIN app
          /\ app'.held = app.held /\ app'.seen = app.seen /\ app'.mint = app.mint
          /\ app'.restoring = FALSE
      BY <1>a, <2>1 DEF AppFits
    <2>3. AppFits' /\ kept' \in Addresses
      BY <1>a, <2>1, <2>2 DEF AppFits
    <2>4. TokensFit' /\ (~mislaid' => HeldIsTheLine')
      BY <1>a, <2>1, <2>2 DEF TokensFit, HeldIsTheLine, chainVars
    <2> QED BY <1>a, <2>1, <2>2, <2>3, <2>4, PageMoves
  <1> QED BY <1>1, <1>2, <1>3, <1>4, <1>5


\* Only the tokens move, and what the page shows of them.
LEMMA TokensMove ==
    ASSUME HomeInv, UNCHANGED <<chainVars, kept, mislaid, pending>>, TokensFit', AppFits',
           app'.held = app.held, app'.restoring = app.restoring
    PROVE  HomeInv'
  <1>1. ~mislaid' => HeldIsTheLine'
    BY DEF HomeInv, HeldIsTheLine, chainVars
  <1> QED BY <1>1, PageMoves DEF HomeInv

LEMMA MintKeeps ==
    ASSUME HomeInv, NEW m \in Mints, HandleMintTestUsdc(m)
    PROVE  HomeInv'
  <1>a. AppFits /\ TokensFit
    BY DEF HomeInv
  <1>1. /\ ata[m].wallet = NoAccount /\ ata' = [ata EXCEPT ![m].wallet = Supply]
        /\ app' \in {app, [app EXCEPT !.mint = m, !.wallet = Supply]}
        /\ UNCHANGED <<chainVars, kept, mislaid, pending>>
    BY DEF HandleMintTestUsdc
  <1>2. /\ DOMAIN app' = DOMAIN app
        /\ app'.held = app.held /\ app'.seen = app.seen /\ app'.restoring = app.restoring
        /\ app'.mint \in {app.mint, m}
    BY <1>a, <1>1 DEF AppFits
  <1>3. AppFits'
    BY <1>a, <1>2 DEF AppFits
  <1>4. TokensFit'
    <2>1. ata[m] \in [wallet : Int, vault : Int] /\ ata[m].vault = NoAccount
      BY <1>a, <1>1, HomeNumbers DEF TokensFit, NoAccount
    <2>2. PICK own : own = [ata[m] EXCEPT !.wallet = Supply]
      OBVIOUS
    <2>3. own \in [wallet : Int, vault : Int] /\ own.wallet = Supply /\ own.vault = NoAccount
      BY <2>1, <2>2, HomeNumbers DEF NoAccount
    <2>4. ata' = [ata EXCEPT ![m] = own]
      BY <1>1, <2>2
    <2>5. /\ ata' \in [Mints -> [wallet : Int, vault : Int]]
          /\ ata'[m] = own /\ \A x \in Mints : x # m => ata'[x] = ata[x]
      BY <1>a, <2>3, <2>4 DEF TokensFit
    <2> QED BY <1>a, <2>3, <2>5 DEF TokensFit
  <1> QED BY <1>1, <1>2, <1>3, <1>4, TokensMove

LEMMA TransferKeeps ==
    ASSUME HomeInv, NEW n \in 1..Supply,
           Transfer("wallet", "vault", n) \/ Transfer("vault", "wallet", n)
    PROVE  HomeInv'
  <1>a. AppFits /\ TokensFit /\ n \in Nat /\ n >= 1
    BY HomeNumbers DEF HomeInv
  <1>b. UNCHANGED <<chainVars, kept, mislaid, pending>> /\ app.mint \in Mints
    BY <1>a DEF Transfer, AppFits
  <1>1. ASSUME UNCHANGED <<ata, app>> PROVE HomeInv'
    <2>1. AppFits' /\ TokensFit'
      BY <1>1, <1>a DEF AppFits, TokensFit
    <2> QED BY <1>1, <1>b, <2>1, TokensMove
  \* Both accounts are there, or the wallet's alone: only a first deposit goes through.
  <1>2. ASSUME ata[app.mint].wallet = NoAccount, ata[app.mint].vault >= n PROVE FALSE
    BY <1>2, <1>a, <1>b, HomeNumbers DEF TokensFit, NoAccount
  <1>3. ASSUME ata[app.mint].vault = NoAccount, ata[app.mint].wallet >= n,
               ata' = MovedTokens(app.mint, "wallet", "vault", n),
               app' = [app EXCEPT !.wallet = ata'[app.mint].wallet,
                                  !.vault = ata'[app.mint].vault]
        PROVE  HomeInv'
    <2>1. /\ DOMAIN app' = DOMAIN app
          /\ app'.held = app.held /\ app'.seen = app.seen /\ app'.restoring = app.restoring
          /\ app'.mint = app.mint
      BY <1>a, <1>3 DEF AppFits
    <2>2. AppFits'
      BY <1>a, <2>1 DEF AppFits
    <2>3. PICK m : m = app.mint
      OBVIOUS
    <2>4. /\ ata[m] \in [wallet : Int, vault : Int] /\ m \in Mints
          /\ ata[m].wallet = Supply
      BY <1>a, <1>b, <1>3, <2>3, HomeNumbers DEF TokensFit, NoAccount
    <2>5. PICK mid : mid = [ata[m] EXCEPT !.vault = n]
      OBVIOUS
    <2>5a. PICK left : left = Supply - n
      OBVIOUS
    <2>5b. PICK own : own = [mid EXCEPT !.wallet = left]
      OBVIOUS
    <2>5c. mid \in [wallet : Int, vault : Int] /\ mid.wallet = Supply /\ mid.vault = n
      BY <1>a, <2>4, <2>5
    <2>5d. left \in Int
      BY <1>a, <2>5a, HomeNumbers
    <2>6. own \in [wallet : Int, vault : Int] /\ own.wallet = Supply - n /\ own.vault = n
      BY <2>5a, <2>5b, <2>5c, <2>5d
    <2>7a. own = [[ata[m] EXCEPT !.vault = n] EXCEPT !.wallet = @ - n]
      BY <2>4, <2>5, <2>5a, <2>5b, <2>5c
    <2>7. ata' = [ata EXCEPT ![m] = own]
      BY <1>3, <1>a, <2>3, <2>4, <2>7a DEF MovedTokens, TokensFit
    <2>8. /\ ata' \in [Mints -> [wallet : Int, vault : Int]]
          /\ ata'[m] = own /\ \A x \in Mints : x # m => ata'[x] = ata[x]
      BY <1>a, <2>4, <2>6, <2>7 DEF TokensFit
    <2>9. own.wallet >= 0 /\ own.vault >= 0 /\ own.wallet + own.vault = Supply
      BY <1>a, <2>6, HomeNumbers
    <2>10. TokensFit'
      BY <1>a, <2>8, <2>9 DEF TokensFit
    <2> QED BY <1>b, <2>1, <2>2, <2>10, TokensMove
  <1> QED BY <1>1, <1>2, <1>3 DEF Transfer

\* What a transaction of the page does on the chain.
LEMMA DoesIsStep ==
    ASSUME HomeInv, NEW tx, JobFits(tx), Does(tx)
    PROVE  Next
  <1>a. slot \in 0..MaxSlot /\ tx.slot \in Slots /\ NoteLimit \in U32
    BY HomeNumbers DEF HomeInv, JobFits, Slots, U32
  <1>1. CASE tx.kind = "pool"
    <2>1. PICK t \in Terms :
             InitializePool(tx.pool, Self, Self, t, NoteLimit, tx.slot + Term)
      BY <1>1 DEF Does
    <2>2. tx.pool \in Pools /\ tx.slot + Term \in Slots
      BY <1>1, <1>a, HomeNumbers DEF JobFits, Slots
    <2>3. PICK m \in Slots : InitializePool(tx.pool, Self, Self, t, NoteLimit, m)
      BY <2>1, <2>2
    <2> QED BY <1>a, <2>2, <2>3, HomeNumbers DEF Next
  <1>2. CASE tx.kind = "line"
    <2>1. ApproveCreditLine(Self, tx.pool, tx.line, Self, NoteLimit, tx.slot, tx.maturity)
      BY <1>2 DEF Does
    <2>2. tx.slot < tx.maturity
      BY <2>1 DEF ApproveCreditLine
    <2>3. tx.pool \in Pools /\ tx.line \in Lines /\ tx.maturity \in Slots
      BY <1>2, <1>a, <2>2, HomeNumbers DEF JobFits, Slots
    <2> QED BY <1>a, <2>1, <2>3, HomeNumbers DEF Next
  <1>3. CASE tx.kind = "draw"
    BY <1>3, <1>a, HomeNumbers DEF Does, JobFits, Next
  <1>4. CASE tx.kind = "repay"
    BY <1>4, <1>a, HomeNumbers DEF Does, JobFits, Next
  <1>5. CASE tx.kind = "settle"
    BY <1>5, <1>a DEF Does, JobFits, Next
  <1> QED BY <1>1, <1>2, <1>3, <1>4, <1>5 DEF JobFits

\* A line that the transaction does not open keeps its pool.
LEMMA DoesTells ==
    ASSUME HomeInv, NEW tx, JobFits(tx), Does(tx), NEW l \in Lines
    PROVE  \/ /\ line'[l].pool = line[l].pool
              /\ Initialized(line'[l]) => Initialized(line[l])
           \/ tx.kind = "line" /\ tx.line = l /\ line'[l].pool = tx.pool
  <1> USE DEF CreditLineAccount, Initialized
  <1>a. /\ line \in [Lines -> CreditLineAccount] /\ line[l] \in CreditLineAccount
        /\ pool = [p \in Pools |-> pool[p]] /\ line = [k \in Lines |-> line[k]]
    BY DEF HomeInv, RefinementInv, TypeOK
  <1>1. CASE tx.kind = "pool"
    <2>0. PICK t \in Terms :
             InitializePool(tx.pool, Self, Self, t, NoteLimit, tx.slot + Term)
      BY <1>1 DEF Does
    <2>1. tx.pool \in Pools /\ line' = LinesWithout(tx.pool)
      BY <1>1, <2>0 DEF InitializePool, JobFits
    <2>2. LinesWithout(tx.pool) = line
      BY <1>a, <2>1, FreshKeyAssumption, FreshKeysAreNotTaken
    <2> QED BY <2>1, <2>2
  <1>2. CASE tx.kind = "line"
    <2>1. ApproveCreditLine(Self, tx.pool, tx.line, Self, NoteLimit, tx.slot, tx.maturity)
      BY <1>2 DEF Does
    <2>2. CASE tx.line = l
      BY <1>2, <1>a, <2>1, <2>2 DEF ApproveCreditLine
    <2>3. CASE tx.line # l
      BY <1>2, <1>a, <2>1, <2>3 DEF ApproveCreditLine
    <2> QED BY <2>2, <2>3
  <1>3. CASE tx.kind = "draw"
    <2>1. DrawTranche(Self, tx.pool, tx.line, tx.notes, tx.slot)
      BY <1>3 DEF Does
    <2>2. /\ line' = [line EXCEPT ![tx.line].drawn = @ + tx.notes]
          /\ line[tx.line].status = "Active"
      BY <2>1 DEF DrawTranche, ActiveLine
    <2>3. CASE tx.line # l
      BY <1>a, <2>2, <2>3
    <2>4. CASE tx.line = l
      BY <1>a, <2>2, <2>4
    <2> QED BY <2>3, <2>4
  <1>4. CASE tx.kind = "repay"
    <2>1. RepayTranche(Self, tx.pool, tx.line, tx.notes)
      BY <1>4 DEF Does
    <2>2. /\ line[tx.line].status = "Active"
          /\ line' = [line EXCEPT
                        ![tx.line].repaid = @ + tx.notes,
                        ![tx.line].status = IF tx.notes = Outstanding(tx.line) THEN "Closed"
                                            ELSE @]
      BY <2>1 DEF RepayTranche, ActiveLine
    <2>3. CASE tx.line # l
      BY <1>a, <2>2, <2>3
    <2>4. CASE tx.line = l
      BY <1>a, <2>2, <2>4
    <2> QED BY <2>3, <2>4
  <1>5. CASE tx.kind = "settle"
    <2>1. SettleMaturity(tx.pool, tx.line, tx.slot)
      BY <1>5 DEF Does
    <2>2. CASE tx.line # l
      BY <1>a, <2>1, <2>2 DEF SettleMaturity, SettleClean, SettleDefault
    <2>3. CASE tx.line = l
      BY <1>a, <2>1, <2>3 DEF SettleMaturity, SettleClean, SettleDefault
    <2> QED BY <2>2, <2>3
  <1> QED BY <1>1, <1>2, <1>3, <1>4, <1>5 DEF JobFits

LEMMA LandsKeeps ==
    ASSUME HomeInv, NEW tx \in pending, Lands(tx)
    PROVE  HomeInv'
  <1>1. /\ Does(tx) /\ JobFits(tx) /\ pending' = pending \ {tx}
        /\ slot' = slot /\ app' = app /\ kept' = kept /\ ata' = ata /\ mislaid' = mislaid
    BY DEF Lands, HomeInv
  <1>2. RefinementInv'
    BY <1>1, DoesIsStep, RefinementNext DEF HomeInv
  <1>4. \A j \in pending' : JobFits(j)'
    BY <1>1 DEF HomeInv, JobFits
  <1>5. ~mislaid' => HeldIsTheLine'
    <2> SUFFICES ASSUME ~mislaid PROVE HeldIsTheLine'
      BY <1>1
    <2>1. HeldIsTheLine
      BY DEF HomeInv
    <2>2. ASSUME NEW l \in Lines, Initialized(line'[l])
          PROVE  line'[l].pool = app.held.pool /\ app.held.line = l
      BY <1>1, <2>1, <2>2, DoesTells DEF HeldIsTheLine
    <2> QED BY <1>1, <2>1, <2>2 DEF HeldIsTheLine, Initialized
  <1>6. AppFits' /\ TokensFit'
    BY <1>1 DEF HomeInv, AppFits, TokensFit
  <1> QED BY <1>1, <1>2, <1>4, <1>5, <1>6 DEF HomeInv

LEMMA HomeInvNext == HomeInv /\ [HomeNext]_homeVars => HomeInv'
  <1> SUFFICES ASSUME HomeInv, [HomeNext]_homeVars PROVE HomeInv'
    OBVIOUS
  <1>a. slot \in Nat /\ slot <= MaxSlot /\ MaxSlot \in Nat
    BY HomeNumbers DEF HomeInv, Slots
  <1>1. CASE Tick /\ UNCHANGED <<app, kept, ata, mislaid, pending, clicks>>
    <2>1. /\ slot' = slot + 1 /\ slot' \in Slots /\ UNCHANGED vars
          /\ UNCHANGED <<app, kept, ata, mislaid, pending>>
      BY <1>1, <1>a DEF Tick, Slots
    <2>2. RefinementInv'
      BY <2>1, RefinementNext DEF HomeInv
    <2>3. \A tx \in pending' : JobFits(tx)'
      BY <1>a, <2>1, JobStaysFit DEF HomeInv
    <2>5. AppFits' /\ TokensFit' /\ (~mislaid' => HeldIsTheLine')
      BY <2>1 DEF HomeInv, AppFits, TokensFit, HeldIsTheLine, vars
    <2> QED BY <2>1, <2>2, <2>3, <2>5 DEF HomeInv
  <1>2. CASE \E tx \in pending : Drops(tx)
    <2>1. /\ UNCHANGED <<chainVars, app, kept, ata, mislaid>> /\ pending' \subseteq pending
      BY <1>2 DEF Drops
    <2>2. AppFits' /\ TokensFit' /\ (~mislaid' => HeldIsTheLine')
      BY <2>1 DEF HomeInv, AppFits, TokensFit, HeldIsTheLine, chainVars
    <2> QED BY <2>1, <2>2, PageMoves DEF HomeInv
  <1>3. CASE UNCHANGED homeVars
    <2>1. UNCHANGED <<chainVars, app, kept, ata, mislaid>> /\ pending' = pending
      BY <1>3 DEF homeVars
    <2>2. AppFits' /\ TokensFit' /\ (~mislaid' => HeldIsTheLine')
      BY <2>1 DEF HomeInv, AppFits, TokensFit, HeldIsTheLine, chainVars
    <2> QED BY <2>1, <2>2, PageMoves DEF HomeInv
  <1>4. ASSUME NEW n \in 1..Supply, HandleDeposit(n) \/ HandleWithdraw(n) PROVE HomeInv'
    BY <1>4, TransferKeeps DEF HandleDeposit, HandleWithdraw
  <1> QED BY <1>1, <1>2, <1>3, <1>4, InitPoolKeeps, ApproveKeeps, HandlersKeep, TellingKeeps,
             LandsKeeps, MintKeeps
          DEF HomeNext

LEMMA HomeInvInit == HomeInit => HomeInv
  <1> SUFFICES ASSUME HomeInit PROVE HomeInv
    OBVIOUS
  <1>1. /\ Init /\ slot = 0 /\ kept = NoAddresses /\ pending = {} /\ mislaid = FALSE
        /\ app = [held |-> NoAddresses, seen |-> EmptyLine, job |-> Idle,
                  mint |-> NoMint, wallet |-> 0, vault |-> 0, restoring |-> FALSE]
        /\ ata = [m \in Mints |-> [wallet |-> NoAccount, vault |-> NoAccount]]
    BY DEF HomeInit, ChainInit
  <1>2. RefinementInv
    BY <1>1, TypeOKInit, LineAccountingInit, LineMatchesPoolInit
    DEF Init, EmptyLine, BlankUntilOpened, RefinementInv
  <1>3. NoAddresses \in Addresses /\ EmptyLine \in CreditLineAccount
        /\ EmptyLine.repaid + EmptyLine.defaulted <= EmptyLine.drawn
    BY EmptyAccountsTyped DEF NoAddresses, Addresses, EmptyLine
  <1>4. /\ DOMAIN app = {"held", "seen", "job", "mint", "wallet", "vault", "restoring"}
        /\ app.held = NoAddresses /\ app.seen = EmptyLine /\ app.mint = NoMint
        /\ app.restoring = FALSE
    BY <1>1
  <1>5. AppFits
    BY <1>3, <1>4 DEF AppFits
  <1>6. HeldIsTheLine
    BY <1>1 DEF Init, EmptyLine, Initialized, HeldIsTheLine
  <1>7. TokensFit
    BY <1>1 DEF TokensFit, NoAccount
  <1>8. slot \in Slots
    BY <1>1, HomeNumbers DEF Slots
  <1> QED BY <1>1, <1>2, <1>3, <1>4, <1>5, <1>6, <1>7, <1>8 DEF HomeInv

LEMMA HomeInvTells == HomeInv => HomeKeepsAccounts /\ HomeTypeOK
  <1> SUFFICES ASSUME HomeInv PROVE HomeKeepsAccounts /\ HomeTypeOK
    OBVIOUS
  <1>a. /\ AppFits /\ kept \in Addresses /\ TokensFit
        /\ ~app.restoring => kept = app.held
        /\ ~mislaid => HeldIsTheLine
    BY DEF HomeInv
  <1>1. HomeDebtIsReachable
    <2> SUFFICES ASSUME ~mislaid, NEW l \in Lines, line[l].status = "Active"
                 PROVE  [pool |-> line[l].pool, line |-> l]
                          = IF app.restoring THEN app.held ELSE kept
      BY DEF HomeDebtIsReachable
    <2>1. line[l].pool = app.held.pool /\ app.held.line = l
      BY <1>a DEF HeldIsTheLine, Initialized
    <2>2. [pool |-> line[l].pool, line |-> l] = app.held
      BY <1>a, <2>1 DEF AppFits, Addresses
    <2> QED BY <1>a, <2>2
  <1>2. TokensAreConserved
    <2> SUFFICES ASSUME NEW m \in Mints, ata[m].wallet # NoAccount
                 PROVE  ata[m].wallet + Max({ata[m].vault, 0}) = Supply
      BY DEF TokensAreConserved
    <2>1. ata[m].wallet \in Int /\ ata[m].vault \in Int
      BY <1>a DEF TokensFit
    <2>2. Max({ata[m].vault, 0}) = IF ata[m].vault >= 0 THEN ata[m].vault ELSE 0
      BY <2>1, LargerOne
    <2> QED BY <1>a, <2>1, <2>2, HomeNumbers DEF TokensFit, NoAccount
  <1>3. HomeTypeOK
    <2>1. /\ {app.held.pool, kept.pool} \subseteq Pools \cup {ZeroKey}
          /\ {app.held.line, kept.line} \subseteq Lines \cup {ZeroKey}
      BY <1>a, AddressFields DEF AppFits
    <2>2. ASSUME NEW m \in Mints
          PROVE  {ata[m].wallet, ata[m].vault} \subseteq NoAccount..Supply
      BY <1>a, HomeNumbers DEF TokensFit, NoAccount
    <2> QED BY <1>a, <2>1, <2>2 DEF HomeTypeOK, AppFits
  <1> QED BY <1>1, <1>2, <1>3 DEF HomeKeepsAccounts, HomeInv

\* In the composition the dashboard moves, or nothing of it does.
LEMMA DashboardInv == PartsSpec => [](moving = "home" => HomeInv)
  <1> DEFINE Inv == moving = "home" => HomeInv
  <1>1. PartsInit => Inv
    BY HomeInvInit DEF PartsInit
  <1>2. Inv /\ [PartsNext]_allPartVars => Inv'
    <2> SUFFICES ASSUME Inv, [PartsNext]_allPartVars, moving' = "home"
                 PROVE  HomeInv'
      OBVIOUS
    <2>1. moving' = moving
      BY DEF PartsNext, OthersStay, allPartVars
    <2>2. HomeInv
      BY <2>1
    <2>3. [HomeNext]_homeVars
      <3>1. CASE UNCHANGED allPartVars
        BY <3>1 DEF allPartVars, homePageVars, homeVars
      <3>2. CASE PartsNext
        BY <2>1, <3>2 DEF PartsNext
      <3> QED BY <3>1, <3>2
    <2> QED BY <2>2, <2>3, HomeInvNext
  <1> QED BY <1>1, <1>2, PTL DEF PartsSpec

\* In every behaviour in which the dashboard is the client of the chain: an active line
\* is one whose addresses the page keeps, unless a slip lost them, and the test tokens
\* of a mint stay in the wallet and the vault.
THEOREM DashboardAlwaysKeepsAccounts == PartsSpec => []DashboardKeepsAccounts
  <1>1. (moving = "home" => HomeInv) => DashboardKeepsAccounts
    BY HomeInvTells DEF DashboardKeepsAccounts
  <1> QED BY <1>1, DashboardInv, PTL

-----------------------------------------------------------------------------
(* The scripts: their accounts are those of the program, so the theorems on  *)
(* its instructions are cited for them.                                      *)

\* The theorems of the program, for the accounts that a script makes.
VP == INSTANCE CreditVaultProofs WITH
    pool <- poolAt, line <- lineAt, receipt <- receiptAt, spoilt <- {},
    Pools <- {"pool"}, Lines <- {"line", "overLine"}, Receipts <- {"receipt"},
    Underwriters <- {"underwriter"}, Auditors <- {"auditor"},
    Borrowers <- {"borrower"}, ZeroKey <- "nobody",
    Terms <- {"1000 USD, 75 bps"}, NoTerms <- "no terms",
    MaxU32 <- Widest, MaxSlot <- Widest

\* The values of a script meet what is assumed of the program's constants.
LEMMA ScriptAccountsFit ==
    /\ VP!IsFiniteSet({"line", "overLine"})
    /\ "nobody" \notin {"pool"} \cup {"line", "overLine"}
    /\ Widest \in Nat \ {0}
    /\ "no terms" \notin {"1000 USD, 75 bps"}
    /\ "nobody" \notin {"underwriter"} \cup {"auditor"} \cup {"borrower"}
  <1>1. VP!IsFiniteSet({"line", "overLine"})
    <2> DEFINE s == <<"line", "overLine">>
    <2>1. s \in Seq({"line", "overLine"})
      OBVIOUS
    <2>2. \A x \in {"line", "overLine"} : \E n \in 1..Len(s) : s[n] = x
      <3>1. 1 \in 1..Len(s) /\ 2 \in 1..Len(s) /\ s[1] = "line" /\ s[2] = "overLine"
        OBVIOUS
      <3> QED BY <3>1
    <2> HIDE DEF s
    <2> QED BY <2>1, <2>2 DEF VP!IsFiniteSet
  <1>2. Widest \in Nat \ {0}
    BY DEF Widest
  <1> QED BY <1>1, <1>2

\* The steps of a script: its slots are early, and only a step that needs no slot in the
\* text asks the node for one.
Early == {n \in Nat : n <= 200000}
Timed == {"pool", "line", "receipt", "settle", "warp"}
Untimed == {"draw", "repay", "pause", "resume"}
TimedStep ==
    [op : Timed, line : {"line", "overLine"}, notes : V!U32, at : Early, ok : BOOLEAN]
UntimedStep ==
    [op : Untimed, line : {"line", "overLine"}, notes : V!U32, at : Early \cup {Now},
     ok : BOOLEAN]
SendStep == TimedStep \cup UntimedStep
ReadStep ==
    [op : {"read"}, status : {"Active", "Paused", "Defaulted"},
     drawn : Nat, repaid : Nat, defaulted : Nat, ok : BOOLEAN]
Steps == SendStep \cup ReadStep

\* What the scripts write down is a step.
LEMMA SendsTyped ==
    /\ \A op \in Timed, l \in {"line", "overLine"}, notes \in V!U32, at \in Early :
          Sends(op, l, notes, at) \in SendStep
    /\ \A op \in Untimed, l \in {"line", "overLine"}, notes \in V!U32, at \in Early \cup {Now} :
          Sends(op, l, notes, at) \in SendStep
  BY SMT DEF Sends, SendStep, TimedStep, UntimedStep

LEMMA RefusedTyped == \A s \in SendStep : Refused(s) \in SendStep
  <1>1. \A s \in TimedStep : Refused(s) \in TimedStep
    BY Zenon DEF Refused, TimedStep
  <1>2. \A s \in UntimedStep : Refused(s) \in UntimedStep
    BY Zenon DEF Refused, UntimedStep
  <1> QED BY <1>1, <1>2 DEF SendStep

LEMMA ReadsTyped ==
    \A status \in {"Active", "Paused", "Defaulted"}, d, r, f \in Nat :
        Reads(status, d, r, f) \in Steps
  BY SMT DEF Reads, Steps, ReadStep

LEMMA SmallNotes == \A n \in Nat : n <= 100 => n \in V!U32
  <1>1. Widest \in Nat /\ 100 <= Widest
    BY SMT DEF Widest
  <1> QED BY <1>1, SMT DEF V!U32

LEMMA EarlySlots ==
    {Start, End, End - 5000, End + 1, 50000, 45000, 20100, 20500, 45001,
     Start + 100000, Start + 90000} \subseteq Early
  BY SMT DEF Start, End, Early

\* Each script is a sequence of steps.
LEMMA ScriptsTyped ==
    {LocalIntegration, SurfpoolSmoke, DevnetSmoke, E2eFlow} \subseteq Seq(Steps)
  <1> USE SendsTyped, ReadsTyped, RefusedTyped, SmallNotes, EarlySlots DEF Timed, Untimed
  <1>0. SendStep \subseteq Steps
    BY DEF Steps
  <1>1. LocalOpening \in Seq(Steps)
    <2>1. /\ Sends("pool", "line", 100, End) \in Steps
          /\ Sends("line", "line", 30, End - 5000) \in Steps
          /\ Reads("Active", 0, 0, 0) \in Steps
       BY <1>0, SMT
    <2> QED BY <2>1, SMT DEF LocalOpening
  <1>2. LocalUse \in Seq(Steps)
    <2>1. /\ Sends("draw", "line", 6, Now) \in Steps
          /\ Reads("Active", 6, 0, 0) \in Steps
          /\ Sends("repay", "line", 2, Now) \in Steps
          /\ Reads("Active", 6, 2, 0) \in Steps
          /\ Sends("receipt", "line", 0, Start) \in Steps
       BY <1>0, SMT
    <2> QED BY <2>1, SMT DEF LocalUse
  <1>3. LocalPause \in Seq(Steps)
    <2>1. /\ Sends("pause", "line", 0, Now) \in Steps
          /\ Reads("Paused", 6, 2, 0) \in Steps
          /\ Refused(Sends("draw", "line", 1, Now)) \in Steps
          /\ Sends("resume", "line", 0, Now) \in Steps
          /\ Reads("Active", 6, 2, 0) \in Steps
       BY <1>0, SMT
    <2> QED BY <2>1, SMT DEF LocalPause
  <1>4. LocalSettle \in Seq(Steps)
    <2>1. /\ Sends("warp", "line", 0, End + 1) \in Steps
          /\ Sends("settle", "line", 0, End + 1) \in Steps
          /\ Reads("Defaulted", 6, 2, 4) \in Steps
       BY <1>0, SMT
    <2> QED BY <2>1, SMT DEF LocalSettle
  <1>5. LocalErrors \in Seq(Steps)
    <2>1. /\ Refused(Sends("pool", "line", 100, End)) \in Steps
          /\ Sends("line", "overLine", 5, End - 5000) \in Steps
          /\ Refused(Sends("draw", "overLine", 6, Now)) \in Steps
       BY <1>0, SMT
    <2> QED BY <2>1, SMT DEF LocalErrors
  <1>6. SmokeOpening \in Seq(Steps)
    <2>1. /\ Sends("pool", "line", 100, 50000) \in Steps
          /\ Sends("line", "line", 10, 45000) \in Steps
       BY <1>0, SMT
    <2> QED BY <2>1, SMT DEF SmokeOpening
  <1>7. SmokeUse \in Seq(Steps)
    <2>1. /\ Sends("draw", "line", 6, 20100) \in Steps
          /\ Sends("repay", "line", 2, 20500) \in Steps
          /\ Sends("receipt", "line", 0, 20100) \in Steps
          /\ Sends("settle", "line", 0, 45001) \in Steps
       BY <1>0, SMT
    <2> QED BY <2>1, SMT DEF SmokeUse
  <1>8. SmokeReads \in Seq(Steps)
    <2>1. Reads("Defaulted", 6, 2, 4) \in Steps
       BY SMT
    <2> QED BY <2>1, SMT DEF SmokeReads
  <1>9. E2eFlow \in Seq(Steps)
    <2>1. /\ Sends("pool", "line", 50, Start + 100000) \in Steps
          /\ Sends("line", "line", 50, Start + 90000) \in Steps
          /\ Sends("draw", "line", 8, Now) \in Steps
          /\ Reads("Active", 8, 0, 0) \in Steps
       BY <1>0, SMT
    <2> QED BY <2>1, SMT DEF E2eFlow
  <1>10. \A s, t \in Seq(Steps) : s \o t \in Seq(Steps)
    BY ONLY SMT
  <1>11. LocalIntegration \in Seq(Steps)
    BY ONLY <1>1, <1>2, <1>3, <1>4, <1>5, <1>10, Zenon DEF LocalIntegration
  <1>12. SurfpoolSmoke \in Seq(Steps) /\ DevnetSmoke \in Seq(Steps)
    BY ONLY <1>6, <1>7, <1>8, <1>10, Zenon DEF SurfpoolSmoke, DevnetSmoke
  <1> QED BY ONLY <1>9, <1>11, <1>12, Zenon

-----------------------------------------------------------------------------

\* A script that runs has a step left, and its clock is a slot of the program.
ScriptsInv ==
    /\ VP!TypeOK
    /\ script \in Seq(Steps)
    /\ step \in 0..Len(script)
    /\ result = "running" => step < Len(script)
    /\ result \in {"running", "passed", "failed"}
    /\ now \in Nat /\ now <= Widest

\* The instructions of the scripts are those of the theorems.
LEMMA ScriptsUseTheProgram ==
    /\ V!Init => VP!Init
    /\ V!Next => VP!Next
    /\ VP!TypeOK => V!TypeOK
  <1>1. V!Next => VP!Next
    BY Zenon
    DEF V!ActiveLine, VP!ActiveLine, V!ActivePool, VP!ActivePool,
        V!ApproveCreditLine, VP!ApproveCreditLine, V!DrawTranche, VP!DrawTranche,
        V!PoolsWithout, VP!PoolsWithout, V!LinesWithout, VP!LinesWithout,
        V!ReceiptsWithout, VP!ReceiptsWithout, V!Losing, VP!Losing,
        V!EmptyLine, VP!EmptyLine,
        V!EmptyPool, VP!EmptyPool, V!EmptyReceipt, VP!EmptyReceipt, V!FitsPool,
        VP!FitsPool, V!InitializePool, VP!InitializePool, V!Initialized,
        VP!Initialized, V!Keys, VP!Keys, V!LineInPool, VP!LineInPool, V!LineStatus,
        VP!LineStatus, V!Next, VP!Next, V!Outstanding, VP!Outstanding,
        V!OutstandingDefined, VP!OutstandingDefined, V!PauseLine, VP!PauseLine,
        V!PostReceipt, VP!PostReceipt, V!RepayTranche, VP!RepayTranche,
        V!SettleClean, VP!SettleClean, V!SettleDefault, VP!SettleDefault,
        V!SettleMaturity, VP!SettleMaturity, V!Slots, VP!Slots, V!U32, VP!U32
  <1>2. V!Init => VP!Init
    BY Zenon
    DEF V!Init, VP!Init, V!EmptyPool, VP!EmptyPool, V!EmptyLine, VP!EmptyLine,
        V!EmptyReceipt, VP!EmptyReceipt
  <1>3. VP!TypeOK => V!TypeOK
    BY Zenon
    DEF V!CreditLineAccount, VP!CreditLineAccount, V!Keys, VP!Keys, V!LineStatus,
        VP!LineStatus, V!PoolAccount, VP!PoolAccount, V!PoolStatus, VP!PoolStatus,
        V!ReceiptAccount, VP!ReceiptAccount, V!Slots, VP!Slots, V!TypeOK, VP!TypeOK,
        V!U32, VP!U32
  <1> QED BY <1>1, <1>2, <1>3

LEMMA ScriptsInvInit == ScriptsInit => ScriptsInv
  <1> SUFFICES ASSUME ScriptsInit PROVE ScriptsInv
    OBVIOUS
  <1>1. VP!TypeOK
    BY ScriptsUseTheProgram, VP!TypeOKInit, ScriptAccountsFit, Zenon DEF ScriptsInit
  <1>2. script \in Seq(Steps)
    BY ScriptsTyped DEF ScriptsInit
  <1>3. 0 < Len(script)
    <2>1. CASE script = LocalIntegration
       BY <2>1, SMT DEF LocalIntegration, LocalOpening, LocalUse, LocalPause, LocalSettle, LocalErrors
    <2>2. CASE script \in {SurfpoolSmoke, DevnetSmoke}
       BY <2>2, SMT DEF SurfpoolSmoke, DevnetSmoke, SmokeOpening, SmokeUse, SmokeReads
    <2>3. CASE script = E2eFlow
       BY <2>3, SMT DEF E2eFlow
    <2> QED BY <2>1, <2>2, <2>3 DEF ScriptsInit
  <1>4. now \in Nat /\ now <= Widest
    BY SMT DEF ScriptsInit, Start, Widest
  <1> QED BY <1>1, <1>2, <1>3, <1>4 DEF ScriptsInit, ScriptsInv

\* An instruction of a script is an instruction of the program.
LEMMA EffectIsNext ==
    ASSUME NEW s \in Steps, now \in Nat, now <= Widest, Effect(s)
    PROVE  V!Next
  <1>0. /\ \A n \in Early : n \in V!Slots /\ n + 100 \in V!Slots /\ n + 101 \in V!Slots
        /\ now \in V!Slots
    <2>1. Widest \in Nat /\ \A n \in Early : n \in Nat /\ n + 101 <= Widest
      BY SMT DEF Early, Widest
    <2> QED BY <2>1, SMT DEF V!Slots
  <1>1. s \in SendStep
    <2>1. s.op \in Timed \cup Untimed
      BY Zenon DEF Effect, Timed, Untimed
    <2>2. s \notin ReadStep
      BY <2>1, SMT DEF Timed, Untimed, ReadStep
    <2> QED BY <2>2, Zenon DEF Steps
  <1>2. /\ s.line \in {"line", "overLine"} /\ s.notes \in V!U32
        /\ s.op \in Timed => s.at \in Early /\ s.at \in V!Slots
        /\ s.op = "draw" => Slot(s) \in V!Slots
    <2>1. CASE s \in TimedStep
      BY <1>0, <2>1, SMT DEF TimedStep, Timed
    <2>2. CASE s \in UntimedStep
      <3>1. /\ s.line \in {"line", "overLine"} /\ s.notes \in V!U32
            /\ s.op \in Untimed /\ s.at \in Early \cup {Now}
        BY <2>2, SMT DEF UntimedStep
      <3>2. s.op \notin Timed
        BY <3>1, SMT DEF Timed, Untimed
      <3> QED BY <1>0, <3>1, <3>2, Zenon DEF Slot
    <2> QED BY <1>1, <2>1, <2>2, Zenon DEF SendStep
  <1>3. {"underwriter", "auditor", "borrower"} = V!Keys
    BY DEF V!Keys
  <1>4. CASE s.op = "pool"
    <2>1. V!InitializePool("pool", "underwriter", "auditor", "1000 USD, 75 bps", s.notes, s.at)
      BY <1>4, Zenon DEF Effect
    <2> QED BY <1>2, <1>4, <2>1, Zenon DEF V!Next, Timed
  <1>5. CASE s.op = "line"
    <2>1. V!ApproveCreditLine("underwriter", "pool", s.line, "borrower", s.notes, now, s.at)
      BY <1>5 DEF Effect
    <2> QED BY <1>0, <1>2, <1>3, <1>5, <2>1, Zenon DEF V!Next, Timed
  <1>6. CASE s.op = "draw"
    <2>1. V!DrawTranche("borrower", "pool", s.line, s.notes, Slot(s))
      BY <1>6 DEF Effect
    <2> QED BY <1>2, <1>3, <1>6, <2>1, Zenon DEF V!Next
  <1>7. CASE s.op = "repay"
    <2>1. V!RepayTranche("borrower", "pool", s.line, s.notes)
      BY <1>7 DEF Effect
    <2> QED BY <1>2, <1>3, <2>1, Zenon DEF V!Next
  <1>8. CASE s.op = "receipt"
    <2>1. V!PostReceipt("auditor", s.line, "receipt", s.at, s.at + 100, s.at + 101)
      BY <1>8 DEF Effect
    <2>2. s.at + 100 \in V!Slots /\ s.at + 101 \in V!Slots
      BY <1>0, <1>2, <1>8 DEF Timed
    <2> QED BY <1>2, <1>3, <1>8, <2>1, <2>2, Zenon DEF V!Next, Timed
  <1>9. CASE s.op = "settle"
    <2>1. V!SettleMaturity("pool", s.line, s.at)
      BY <1>9 DEF Effect
    <2> QED BY <1>2, <1>9, <2>1, Zenon DEF V!Next, Timed
  <1>10. CASE s.op \in {"pause", "resume"}
    <2>1. \E t \in V!LineStatus : V!PauseLine("underwriter", s.line, t)
      BY <1>10, Zenon DEF Effect, V!LineStatus
    <2> QED BY <1>2, <1>3, <2>1, Zenon DEF V!Next
  <1> QED
    BY <1>4, <1>5, <1>6, <1>7, <1>8, <1>9, <1>10, Zenon DEF Effect

\* An instruction that is refused or lost leaves the accounts typed, too.
LEMMA ScriptsInvNext == ScriptsInv /\ [ScriptsNext]_scriptVars => ScriptsInv'
  <1> SUFFICES ASSUME ScriptsInv, [ScriptsNext]_scriptVars PROVE ScriptsInv'
    OBVIOUS
  <1>1. result = "running" => Instruction \in Steps
    BY DEF ScriptsInv, Instruction
  <1>2. ASSUME UNCHANGED script, NEW well, Goes(well), result = "running"
        PROVE  /\ script' \in Seq(Steps)
               /\ step' \in 0..Len(script')
               /\ result' = "running" => step' < Len(script')
               /\ result' \in {"running", "passed", "failed"}
    BY <1>2, SMT DEF ScriptsInv, Goes
  <1>3. ASSUME Effect(Instruction) \/ UNCHANGED Accounts, result = "running"
        PROVE  VP!TypeOK'
    <2>1. [VP!Next]_(VP!vars)
      BY <1>1, <1>3, EffectIsNext, ScriptsUseTheProgram DEF ScriptsInv, Accounts, VP!vars
    <2> QED BY <2>1, VP!TypeOKNext, ScriptAccountsFit, Zenon DEF ScriptsInv
  <1>4. ASSUME UNCHANGED Accounts PROVE VP!TypeOK'
    BY <1>4, VP!TypeOKNext, ScriptAccountsFit, Zenon DEF ScriptsInv, Accounts, VP!vars
  <1>5. CASE SendInstruction
    <2>1. /\ Effect(Instruction) \/ UNCHANGED Accounts
          /\ result = "running" /\ UNCHANGED <<script, now>>
          /\ \E well : Goes(well)
      BY <1>5, Zenon DEF SendInstruction
    <2> QED BY <1>2, <1>3, <2>1 DEF ScriptsInv
  <1>6. CASE ConfirmationLost
    <2>1. /\ Effect(Instruction) \/ UNCHANGED Accounts
          /\ result = "running" /\ UNCHANGED <<script, now>>
          /\ \E well : Goes(well)
      BY <1>6, Zenon DEF ConfirmationLost
    <2> QED BY <1>2, <1>3, <2>1 DEF ScriptsInv
  <1>7. CASE ReadAccounts
    <2>1. /\ UNCHANGED <<Accounts, script, now>> /\ result = "running"
          /\ \E well : Goes(well)
      BY <1>7, Zenon DEF ReadAccounts
    <2> QED BY <1>2, <1>4, <2>1 DEF ScriptsInv
  <1>8. CASE WarpClock
    <2>1. /\ UNCHANGED <<Accounts, script>> /\ result = "running"
          /\ \E well : Goes(well)
          /\ now' \in {now, Instruction.at} /\ Instruction.op = "warp"
      BY <1>8, Zenon DEF WarpClock
    <2>2. Instruction.at \in Nat /\ Instruction.at <= Widest
      BY <1>1, <2>1, SMT DEF Steps, SendStep, TimedStep, UntimedStep, ReadStep, Timed, Untimed, Early, Widest
    <2> QED BY <1>2, <1>4, <2>1, <2>2 DEF ScriptsInv
  <1>9. CASE SlotsPass
    <2>1. now' \in Nat /\ now' <= Widest
      BY <1>9, ScriptsAssumption, SMT DEF SlotsPass, ScriptsInv, Start, Widest
    <2> QED BY <1>4, <1>9, <2>1 DEF SlotsPass, ScriptsInv
  <1>10. CASE UNCHANGED scriptVars
    BY <1>4, <1>10 DEF scriptVars, Accounts, ScriptsInv
  <1> QED
    BY <1>5, <1>6, <1>7, <1>8, <1>9, <1>10 DEF ScriptsNext

\* While a script runs, loses confirmations, gives up or warps the clock, its accounts
\* keep the values of their layouts and it is at one of its steps.
THEOREM ScriptsTypeCorrect == ScriptsSpec => []ScriptsTypeOK
  <1>1. ScriptsInv => ScriptsTypeOK
    BY ScriptsUseTheProgram, Zenon DEF ScriptsInv, ScriptsTypeOK
  <1> QED BY <1>1, ScriptsInvInit, ScriptsInvNext, PTL DEF ScriptsSpec

-----------------------------------------------------------------------------
(* The parts beside each other.                                            *)

\* The invariants of the limiters, of the price cache, of the risk checks and of the
\* gateway tell the types of their values.
THEOREM LimitsTypeCorrect == LimitsSpec => []LimitsTypeOK
  <1>1. LimitsInv => LimitsTypeOK
    BY RateNumbers
       DEF LimitsInv, HistoryOK, Times, TellsGuard, VerifierInv, BucketsOK, LimitsTypeOK
  <1> QED BY <1>1, LimitsInvHolds, PTL

\* No entry and no fetch of the cache is younger than now.
THEOREM CacheTypeCorrect == CacheSpec => []CacheTypeOK
  <1>1. CacheInv => CacheTypeOK
    <2> SUFFICES ASSUME CacheInv, NEW r \in Readers PROVE fetching[r].since <= clock
      BY DEF CacheInv, CacheTypeOK
    <2>1. fetching[r] = NotFetching => fetching[r].since = -1
      BY DEF NotFetching
    <2> QED BY <2>1 DEF CacheInv, CacheValues
  <1> QED BY <1>1, CacheInvHolds, PTL

\* The history of checks is bounded and of known inputs.
THEOREM RiskTypeCorrect == RiskSpec => []RiskTypeOK
  <1>1. RiskInv => RiskTypeOK
    BY DEF RiskInv, RiskTypeOK, CheckFits
  <1> QED BY <1>1, RiskInvInit, RiskInvNext, PTL DEF RiskSpec

\* What is spent in a day, and what was challenged, is of its types.
THEOREM GatewayTypeCorrect == GatewaySpec => []GatewayTypeOK
  <1>1. GatewayInv => GatewayTypeOK
    BY DEF GatewayInv
  <1> QED BY <1>1, GatewayInvHolds, PTL

-----------------------------------------------------------------------------

\* The reads that wait for an answer are among the edits of the form.
FormInv ==
    /\ form.spend \in 1..MaxSpend
    /\ edits \in Nat /\ edits <= MaxEdits
    /\ reads \in [Pools -> Nat]
    /\ \A p \in Pools : reads[p] <= edits

LEMMA FormInvInit == UnderwriterInit => FormInv
  BY UnderwriterAssumption DEF UnderwriterInit, FormInv

\* Every edit starts at most one read, and every answer ends one.
LEMMA FormInvNext ==
    ASSUME form \in Form, FormInv, [UnderwriterNext]_underwriterVars
    PROVE  FormInv'
  <1>a. MaxEdits \in Nat /\ MaxSpend \in Nat
    BY UnderwriterAssumption
  <1>1. ASSUME form' \in {form, [form EXCEPT !.busy = TRUE], [form EXCEPT !.busy = FALSE]}
                    \/ \E data : form' = [form EXCEPT !.data = data, !.loading = FALSE]
                    \/ \E p : form' = [form EXCEPT !.typed = p, !.loading = TRUE]
                    \/ form' = [form EXCEPT !.typed = ZeroKey, !.data = NoPoolData]
        PROVE  form'.spend = form.spend
    BY <1>1, Zenon DEF Form
  <1>2. ASSUME UNCHANGED reads, form'.spend = form.spend, Edits \/ UNCHANGED edits
        PROVE  FormInv'
    BY <1>2, <1>a DEF FormInv, Edits
  <1>3. CASE \/ Tick /\ UNCHANGED <<form, reads, sent, mandate, edits>>
             \/ \E p \in Pools : PoolAppears(p)
             \/ ClearPool
             \/ \E l \in Lines : HandleApproveMandate(l)
             \/ \E tx \in sent : ApprovalLands(tx) \/ ApprovalDropped(tx)
             \/ HandlerEnds
             \/ UNCHANGED underwriterVars
    <2>1. /\ UNCHANGED reads
          /\ Edits \/ UNCHANGED edits
          /\ \/ form' \in {form, [form EXCEPT !.busy = TRUE], [form EXCEPT !.busy = FALSE]}
             \/ form' = [form EXCEPT !.typed = ZeroKey, !.data = NoPoolData]
      BY <1>3, Zenon
         DEF PoolAppears, ClearPool, HandleApproveMandate, ApprovalLands, ApprovalDropped,
             HandlerEnds, underwriterVars
    <2>2. form'.spend = form.spend
      BY <1>1, <2>1, Zenon
    <2> QED BY <1>2, <2>1, <2>2
  <1>4. ASSUME NEW p \in Pools, TypePool(p) PROVE FormInv'
    <2>1. form'.spend = form.spend
      BY <1>1, <1>4 DEF TypePool
    <2>2. /\ edits' = edits + 1 /\ edits < MaxEdits
          /\ reads' = [reads EXCEPT ![p] = @ + 1]
      BY <1>4 DEF TypePool, Edits
    <2> QED BY <2>1, <2>2, <1>a DEF FormInv
  <1>5. ASSUME NEW p \in Pools, ReadAnswers(p) PROVE FormInv'
    <2>1. form'.spend = form.spend
      BY <1>1, <1>5 DEF ReadAnswers
    <2>2. /\ edits' = edits /\ reads[p] > 0
          /\ reads' = [reads EXCEPT ![p] = @ - 1]
      BY <1>5 DEF ReadAnswers
    <2> QED BY <2>1, <2>2, <1>a DEF FormInv
  <1>6. ASSUME NEW usd \in 1..MaxSpend, TypeSpend(usd) PROVE FormInv'
    <2>1. form'.spend = usd
      BY <1>6, Zenon DEF TypeSpend, Form
    <2>2. UNCHANGED reads /\ edits' = edits + 1 /\ edits < MaxEdits
      BY <1>6 DEF TypeSpend, Edits
    <2> QED BY <2>1, <2>2, <1>a DEF FormInv
  <1> QED BY <1>3, <1>4, <1>5, <1>6 DEF UnderwriterNext

\* The two invariants of the page tell its types.
LEMMA FormInvTells ==
    ASSUME MandateInv, FormInv
    PROVE  UnderwriterTypeOK
  <1>1. /\ form.typed \in Pools \cup {ZeroKey} /\ form.data \in PoolData
        /\ sent \subseteq Approval
    BY DEF MandateInv, PageValues, Form
  <1>2. form.data.of \in Pools \cup {ZeroKey}
    BY <1>1 DEF PoolData, NoPoolData
  <1>3. reads \in [Pools -> 0..MaxEdits]
    BY UnderwriterAssumption DEF FormInv
  <1> QED BY <1>1, <1>2, <1>3 DEF FormInv, Approval, UnderwriterTypeOK

-----------------------------------------------------------------------------

\* The pages keep what they promise while they move, and stay as they began while they
\* do not; while neither moves there are no lines.
PagesInv ==
    /\ IF moving = "home" THEN HomeInv ELSE HomeTypeOK
    /\ IF moving = "underwriter" THEN MandateInv /\ FormInv
       ELSE UnderwriterTypeOK /\ mandate = [l \in Lines |-> NoMandate]
    /\ moving \notin {"home", "underwriter"} => \A l \in Lines : ~Initialized(line[l])

LEMMA PagesInvInit == PartsInit => PagesInv
  <1> SUFFICES ASSUME PartsInit PROVE PagesInv
    OBVIOUS
  <1>1. HomeInit /\ UnderwriterInit
    BY DEF PartsInit
  <1>2. HomeInv /\ MandateInv /\ FormInv
    BY <1>1, HomeInvInit, MandateInvInit, FormInvInit
  <1>3. HomeTypeOK /\ UnderwriterTypeOK
    BY <1>2, HomeInvTells, FormInvTells
  <1>4. \A l \in Lines : ~Initialized(line[l])
    BY <1>1 DEF HomeInit, ChainInit, Init, EmptyLine, Initialized
  <1> QED BY <1>1, <1>2, <1>3, <1>4 DEF UnderwriterInit, NoMandate, PagesInv

LEMMA PagesInvNext == PagesInv /\ [PartsNext]_allPartVars => PagesInv'
  <1> SUFFICES ASSUME PagesInv, [PartsNext]_allPartVars PROVE PagesInv'
    OBVIOUS
  <1>1. /\ UNCHANGED moving
        /\ moving = "home" => [HomeNext]_homeVars
        /\ moving = "underwriter" => [UnderwriterNext]_underwriterVars
        /\ moving # "home" => UNCHANGED homePageVars
        /\ moving # "underwriter" => UNCHANGED underwriterPageVars
        /\ moving \notin {"home", "underwriter"} => UNCHANGED chainVars
    <2>1. CASE UNCHANGED allPartVars
      BY <2>1 DEF allPartVars, homePageVars, homeVars, underwriterPageVars, underwriterVars
    <2>2. CASE PartsNext
      BY <2>2, ZenonT(60) DEF PartsNext, OthersStay
    <2> QED BY <2>1, <2>2
  <1>2. CASE moving = "home"
    <2>1. HomeInv' /\ UNCHANGED underwriterPageVars
      BY <1>1, <1>2, HomeInvNext DEF PagesInv
    <2>2. UnderwriterTypeOK'
      BY <1>2, <2>1 DEF PagesInv, UnderwriterTypeOK, underwriterPageVars
    <2> QED BY <1>1, <1>2, <2>1, <2>2 DEF PagesInv, underwriterPageVars
  <1>3. CASE moving = "underwriter"
    <2>1. MandateInv' /\ FormInv' /\ UNCHANGED homePageVars
      BY <1>1, <1>3, MandateInvNext, FormInvNext DEF PagesInv, MandateInv, PageValues
    <2>2. HomeTypeOK'
      BY <1>3, <2>1 DEF PagesInv, HomeTypeOK, homePageVars
    <2> QED BY <1>1, <1>3, <2>1, <2>2 DEF PagesInv
  <1>4. CASE moving \notin {"home", "underwriter"}
    <2>1. UNCHANGED <<homePageVars, underwriterPageVars, chainVars>>
      BY <1>1, <1>4
    <2>2. UnderwriterTypeOK'
      BY <1>4, <2>1 DEF PagesInv, UnderwriterTypeOK, underwriterPageVars
    <2>3. HomeTypeOK'
      BY <1>4, <2>1 DEF PagesInv, HomeTypeOK, homePageVars
    <2> QED BY <1>1, <1>4, <2>1, <2>2, <2>3
            DEF PagesInv, underwriterPageVars, chainVars, Initialized
  <1> QED BY <1>2, <1>3, <1>4

LEMMA PagesInvTells == PagesInv => MandateKept /\ HomeTypeOK /\ UnderwriterTypeOK
  <1> SUFFICES ASSUME PagesInv PROVE MandateKept /\ HomeTypeOK /\ UnderwriterTypeOK
    OBVIOUS
  <1>0. HomeTypeOK /\ UnderwriterTypeOK
    BY HomeInvTells, FormInvTells DEF PagesInv
  <1>1. CASE moving = "underwriter"
    BY <1>0, <1>1 DEF PagesInv, MandateInv
  <1>2. CASE moving # "underwriter"
    <2>1. \A l \in Lines : mandate[l].of = ZeroKey
      BY <1>2 DEF PagesInv, NoMandate
    <2>2. ASSUME NEW l \in Lines, Initialized(line[l]) PROVE line[l].pool # ZeroKey
      BY <1>2, <2>2, AddressAssumption DEF PagesInv, HomeInv, RefinementInv, LineMatchesPool
    <2> QED BY <1>0, <2>1, <2>2 DEF MandateKept
  <1> QED BY <1>1, <1>2

\* A line on the pool of its mandate keeps to the mandate whichever part moves: the
\* mandates of another page's lines are none.
THEOREM PartsKeepTheirMandates == PartsSpec => []MandateKept
  BY PagesInvInit, PagesInvNext, PagesInvTells, PTL DEF PartsSpec

-----------------------------------------------------------------------------

\* What a part of the whole does is what it does alone: a step of the whole is a step
\* of the part or leaves it as it was.
THEOREM PartsKeepToThemselves ==
    PartsSpec => /\ EngineSpec /\ GatewaySpec /\ StoreSpec /\ ScriptsSpec /\ RegistrySpec
                 /\ LimitsSpec /\ EnvelopesSpec /\ RiskSpec /\ CacheSpec
  <1>1. PartsInit => /\ EngineInit /\ GatewayInit /\ StoreInit /\ ScriptsInit
                     /\ RegistryInit /\ LimitsInit /\ EnvelopesInit /\ RiskInit
                     /\ CacheInit
    BY Zenon DEF PartsInit
  <1>2. ASSUME [PartsNext]_allPartVars
        PROVE  /\ [EngineNext]_engineVars /\ [GatewayNext]_gatewayVars
               /\ [StoreNext]_storeVars /\ [ScriptsNext]_scriptVars
               /\ [RegistryNext]_registryVars /\ [LimitsNext]_limitVars
               /\ [EnvelopesNext]_envelopeVars /\ [RiskNext]_riskVars
               /\ [CacheNext]_cacheVars
    <2>1. CASE UNCHANGED allPartVars
      BY <2>1, Zenon DEF allPartVars
    <2>2. CASE PartsNext
      BY <2>2, ZenonT(60) DEF PartsNext, OthersStay
    <2> QED BY <1>2, <2>1, <2>2, Zenon
  <1> QED
    BY <1>1, <1>2, PTL
       DEF PartsSpec, EngineSpec, GatewaySpec, StoreSpec, ScriptsSpec, RegistrySpec,
           LimitsSpec, EnvelopesSpec, RiskSpec, CacheSpec

\* Every part of the whole keeps the values of its types, whichever of them moves.
THEOREM PartsStayTyped == PartsSpec => []PartsTypeOK
  <1>1. PartsSpec => [](HomeTypeOK /\ UnderwriterTypeOK)
    BY PagesInvInit, PagesInvNext, PagesInvTells, PTL DEF PartsSpec
  <1>2. EngineTypeOK /\ GatewayTypeOK /\ StoreTypeOK /\ HomeTypeOK /\ UnderwriterTypeOK
        /\ ScriptsTypeOK /\ LimitsTypeOK /\ RiskTypeOK /\ CacheTypeOK => PartsTypeOK
    BY Zenon DEF PartsTypeOK
  <1> QED
    BY <1>1, <1>2, PartsKeepToThemselves, EngineTypeCorrect, GatewayTypeCorrect,
       StoreTypeCorrect, ScriptsTypeCorrect, LimitsTypeCorrect, RiskTypeCorrect,
       CacheTypeCorrect, PTL

\* What was proved of every part alone holds of the whole: the libraries add up and count,
\* the notes are kept and offered once, the limits are kept, what is sealed stays whole,
\* borrowers are judged alike, answers keep their time, and no ended line or repaid note comes
\* back.
THEOREM PartsKeepTheirPromises ==
    PartsSpec =>
        /\ []AmountsAddUp /\ []StatusTellsDebt /\ []WorkerTellsTheDebt
        /\ []SpendingIsCounted /\ []NotesAreKept /\ []OfferedOnce
        /\ []DashboardKeepsAccounts /\ []MandateKept /\ []LimitsAreKept
        /\ []VerifierBudgetKept /\ []SealedStaysWhole /\ []RiskIsJudgedAlike /\ []AnswersKeepTheirTime
        /\ EndedLinesStayEnded /\ RepaidStaysRepaid
  BY PartsKeepToThemselves, AmountsAlwaysAddUp, StatusAlwaysTellsDebt,
     WorkerAlwaysTellsTheDebt, SpendingIsAlwaysCounted, NotesAreAlwaysKept,
     NotesAreOfferedOnce, DashboardAlwaysKeepsAccounts, PartsKeepTheirMandates,
     LimitsAreAlwaysKept, VerifierBudgetAlwaysKept, WhatOpensWasSealed, RiskIsAlwaysJudgedAlike,
     AnswersAlwaysKeepTheirTime, EndedLinesAreNotRevived, RepaidNotesStayRepaid, PTL

=============================================================================
