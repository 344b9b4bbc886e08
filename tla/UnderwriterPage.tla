--------------------------- MODULE UnderwriterPage ---------------------------
(***************************************************************************)
(* The underwriter page: a pool address and a daily spend are typed, every *)
(* change of the address starts a read of the pool, and a line is approved *)
(* on the typed pool with the note size and the maturity of the pool that  *)
(* was read last.  A read is never cancelled: the one that answers last    *)
(* decides what the page shows.                                            *)
(*                                                                         *)
(* Terms are note sizes here.  The other fields of the form are constant;  *)
(* the hashes of the mandate are stored by the program and never compared. *)
(***************************************************************************)
EXTENDS VaultOnChain

CONSTANTS
    Approver,   \* the wallet of the page
    Client,     \* the borrower typed in
    PoolSize,   \* total limit of the pools that exist
    MaxSpend,   \* largest daily spend typed in
    MaxEdits    \* edits of the form and approvals; bounds the model only

NoPoolData == [of |-> ZeroKey]

ASSUME UnderwriterAssumption ==
    /\ Approver \in Underwriters /\ Client \in Borrowers
    /\ Terms \subseteq Nat \ {0}
    /\ PoolSize \in U32 \ {0} /\ MaxSpend \in Nat \ {0} /\ MaxEdits \in Nat

VARIABLES
    form,      \* poolAddress, maxDailySpendUsd, poolData, poolLoading, busy
    reads,     \* reads of each pool that have not answered
    sent,      \* the approvals that were sent and are not on the chain
    mandate,   \* history: what the page approved each line with
    edits

underwriterVars == <<chainVars, form, reads, sent, mandate, edits>>

UnderwriterInit ==
    /\ ChainInit
    /\ form = [typed |-> ZeroKey, spend |-> 1, data |-> NoPoolData,
               loading |-> FALSE, busy |-> FALSE]
    /\ reads = [p \in Pools |-> 0]
    /\ sent = {}
    /\ mandate = [l \in Lines |-> [of |-> ZeroKey]]
    /\ edits = 0

-----------------------------------------------------------------------------

\* Pools are made elsewhere, by any underwriter, with any terms.
PoolAppears(p) ==
    /\ \E u \in Underwriters, a \in Auditors, t \in Terms, m \in Slots :
          InitializePool(p, u, a, t, PoolSize, m)
    /\ UNCHANGED <<slot, form, reads, sent, mandate, edits>>

Edits == edits < MaxEdits /\ edits' = edits + 1

\* The effect on poolAddress: fetchPool runs for the new address.
TypePool(p) ==
    /\ Edits
    /\ p # form.typed
    /\ form' = [form EXCEPT !.typed = p, !.loading = TRUE]
    /\ reads' = [reads EXCEPT ![p] = @ + 1]
    /\ UNCHANGED <<chainVars, sent, mandate>>

\* An address that is no address drops the data and reads nothing.
ClearPool ==
    /\ Edits
    /\ form.typed # ZeroKey
    /\ form' = [form EXCEPT !.typed = ZeroKey, !.data = NoPoolData]
    /\ UNCHANGED <<chainVars, reads, sent, mandate>>

TypeSpend(usd) ==
    /\ Edits
    /\ usd # form.spend
    /\ form' = [form EXCEPT !.spend = usd]
    /\ UNCHANGED <<chainVars, reads, sent, mandate>>

\* What a read of p answers: the account, or nothing when there is none or the
\* node does not answer (poolError, which blocks like no data does).
Answers(p) ==
    {NoPoolData} \cup
    IF Initialized(pool[p])
    THEN {[of |-> p, noteSize |-> pool[p].terms, maturity |-> pool[p].maturity]}
    ELSE {}

ReadAnswers(p) ==
    /\ reads[p] > 0
    /\ reads' = [reads EXCEPT ![p] = @ - 1]
    /\ \E data \in Answers(p) :
          form' = [form EXCEPT !.data = data, !.loading = FALSE]
    /\ UNCHANGED <<chainVars, sent, mandate, edits>>

\* Slip: the limit is rounded up.
NotesRoundedUp(spend, data) == (spend + data.noteSize - 1) \div data.noteSize

\* limitNotes: whole notes that the daily spend pays for.
LimitNotes(spend, data) == spend \div data.noteSize

\* No blocker: a pool that was read and is not being read, and at least one note.
CanApprove ==
    /\ form.typed # ZeroKey /\ ~form.loading /\ ~form.busy
    /\ form.data # NoPoolData
    /\ LimitNotes(form.spend, form.data) >= 1

\* handleApprove, with the slot read when the button is pressed.
HandleApproveMandate(l) ==
    /\ CanApprove /\ Edits
    /\ ~Initialized(line[l]) /\ mandate[l].of = ZeroKey
    /\ sent' = sent \cup
         {[pool |-> form.typed, line |-> l, opened |-> slot,
           limit |-> LimitNotes(form.spend, form.data),
           maturity |-> form.data.maturity]}
    /\ form' = [form EXCEPT !.busy = TRUE]
    /\ mandate' = [mandate EXCEPT ![l] =
                     [of |-> form.data.of, typed |-> form.typed,
                      noteSize |-> form.data.noteSize, spend |-> form.spend]]
    /\ UNCHANGED <<chainVars, reads>>

ApprovalLands(tx) ==
    /\ ApproveCreditLine(Approver, tx.pool, tx.line, Client, tx.limit, tx.opened, tx.maturity)
    /\ sent' = sent \ {tx}
    /\ UNCHANGED <<slot, form, reads, mandate, edits>>

ApprovalDropped(tx) ==
    /\ sent' = sent \ {tx}
    /\ UNCHANGED <<chainVars, form, reads, mandate, edits>>

\* Confirmed, refused or not heard of in time: the button comes back.
HandlerEnds ==
    /\ form.busy
    /\ form' = [form EXCEPT !.busy = FALSE]
    /\ UNCHANGED <<chainVars, reads, sent, mandate, edits>>

UnderwriterNext ==
    \/ Tick /\ UNCHANGED <<form, reads, sent, mandate, edits>>
    \/ \E p \in Pools : PoolAppears(p) \/ TypePool(p) \/ ReadAnswers(p)
    \/ ClearPool
    \/ \E usd \in 1..MaxSpend : TypeSpend(usd)
    \/ \E l \in Lines : HandleApproveMandate(l)
    \/ \E tx \in sent : ApprovalLands(tx) \/ ApprovalDropped(tx)
    \/ HandlerEnds

UnderwriterSpec == UnderwriterInit /\ [][UnderwriterNext]_underwriterVars

-----------------------------------------------------------------------------

UnderwriterTypeOK ==
    /\ form.typed \in Pools \cup {ZeroKey}
    /\ form.data.of \in Pools \cup {ZeroKey}
    /\ form.spend \in 1..MaxSpend
    /\ reads \in [Pools -> 0..MaxEdits]
    /\ \A tx \in sent : tx.pool \in Pools /\ tx.line \in Lines

\* A line that came from the page, on the pool the page showed, exposes no more
\* dollars than the daily spend of its mandate and lasts exactly as long as its
\* pool, however late its transaction lands and whatever was typed meanwhile
\* ("every value the ix needs, mapped honestly or blocked").
MandateKept ==
    \A l \in Lines :
        Initialized(line[l]) /\ mandate[l].of = line[l].pool =>
            /\ line[l].limit * line[l].terms <= mandate[l].spend
            /\ line[l].maturity = pool[line[l].pool].maturity
            /\ line[l].underwriter = Approver

\* underwriter/page.tsx: "maturitySlot: poolData.maturitySlot, // read from the pool
\* - never guessed".  So a line of the page matures with its pool.
LinesKeepTheirPoolsMaturity ==
    \A l \in Lines :
        Initialized(line[l]) => line[l].maturity = pool[line[l].pool].maturity

=============================================================================
