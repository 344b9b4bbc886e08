------------------------------ MODULE TradePage ------------------------------
(***************************************************************************)
(* The trade page of the web application over the credit-vault program:    *)
(* setup, draw and repay, from the click to the notes in localStorage.     *)
(*                                                                         *)
(* One wallet uses the page, in one or more tabs; it is the underwriter,   *)
(* the auditor and the borrower of what it sets up.  A handler awaits the  *)
(* slot, the wallet's signature and the confirmation, and the tab may be   *)
(* closed or reloaded at each of them.  A transaction that was sent lands, *)
(* in any order, or is dropped, whether or not its tab still waits for it. *)
(*                                                                         *)
(* A confidential note is its id: the line, the slot of its draw and its   *)
(* index.  Values, blinding factors, proofs, prices and the transaction    *)
(* history are left out.  Amounts in USD are numbers of notes.             *)
(***************************************************************************)
EXTENDS VaultOnChain, Sequences

CONSTANTS
    Tabs,      \* the tabs that may show the page
    Wallet,    \* the wallet's key
    PoolNotes, \* the limit of a new pool
    LineNotes, \* the limit of a new line
    PoolTerm,  \* slots from now to the maturity of a new pool
    Margin,    \* slots between the maturities of a new line and of its pool
    MaxSent    \* how many transactions are sent at most; bounds the model only

\* The wallet is the three parties of what it sets up.
ASSUME WalletAssumption == Wallet \in Underwriters \cap Auditors \cap Borrowers
ASSUME NumbersAssumption ==
    /\ PoolNotes \in U32 /\ LineNotes \in U32
    /\ PoolTerm \in Nat /\ Margin \in Nat /\ MaxSent \in Nat

VARIABLES
    tab,       \* tab[t]: what the page in tab t holds
    saved,     \* the wallet's entry in localStorage
    flight,    \* the transactions sent that neither landed nor were dropped
    sent,      \* how many transactions were sent
    mishap     \* history: the page lost track of a transaction or of a reload

pageVars == <<tab, saved, flight, sent, mishap>>
allVars == <<chainVars, pageVars>>

NoteStatus == {"drawn", "repaid"}

Note == [line : Lines, slot : Slots, i : 0..(MaxU32 - 1),
         status : NoteStatus]

\* The transactions of the page, each a single instruction of the program.
Tx == [id : 0..MaxSent, kind : {"none", "pool", "line", "draw", "repay"},
       pool : Pools \cup {ZeroKey}, line : Lines \cup {ZeroKey},
       notes : U32, slot : Slots]

NoTx == [id |-> 0, kind |-> "none", pool |-> ZeroKey, line |-> ZeroKey,
         notes |-> 0, slot |-> 0]

\* What survives in localStorage; ZeroKey stands for the empty address.
Saved == [pool : Pools \cup {ZeroKey}, line : Lines \cup {ZeroKey},
          notes : Seq(Note)]

Nothing == [pool |-> ZeroKey, line |-> ZeroKey, notes |-> << >>]

\* restoring: the first commit's effects ran, what they restored is not rendered
\* yet; signing, confirming: inside sendTx; proving: the notes are minted, the
\* handler awaits the proof verifier.
Phase == {"closed", "restoring", "ready", "signing", "confirming", "proving"}

\* `held` is the page's state, `seen` the last lineData (EmptyLine for null),
\* `tx` the transaction of the running handler and `fate` what became of it.
Page == [at : Phase, held : Saved, seen : CreditLineAccount, tx : Tx,
         fate : {"none", "pending", "ok", "failed"}]

Closed == [at |-> "closed", held |-> Nothing, seen |-> EmptyLine,
           tx |-> NoTx, fate |-> "none"]

PageInit ==
    /\ ChainInit
    /\ tab = [t \in Tabs |-> Closed]
    /\ saved = Nothing
    /\ flight = {}
    /\ sent = 0
    /\ mishap = FALSE

-----------------------------------------------------------------------------
(* Loading and leaving the page. *)

\* The auto-save effect: when an address changed, both are saved.
WithAddresses(before, after) ==
    IF before.pool = after.pool /\ before.line = after.line THEN saved
    ELSE [saved EXCEPT !.pool = after.pool, !.line = after.line]

\* The line account as fetchLine finds it; EmptyLine when there is none.
Fetched(address) == IF address \in Lines THEN line[address] ELSE EmptyLine

\* What lineData may be after a fetch, which fails without a word.
Refetched(t, address) ==
    {tab[t].seen} \cup ({Fetched(address)} \ {EmptyLine})

\* The effects of the first commit with a wallet.  The stored state is read, to
\* be rendered later; the persist effects that run next in the same commit save
\* what the page shows now: no notes and no addresses.
Open(t) ==
    /\ tab[t].at = "closed"
    /\ tab' = [tab EXCEPT ![t].at = "restoring", ![t].held = saved]
    /\ saved' = Nothing
    /\ UNCHANGED <<chainVars, flight, sent, mishap>>

\* The restored state is rendered and saved again; the line is fetched.
Restore(t) ==
    /\ tab[t].at = "restoring"
    /\ saved' = [WithAddresses(Nothing, tab[t].held) EXCEPT
                    !.notes = tab[t].held.notes]
    /\ \E data \in Refetched(t, tab[t].held.line) :
          tab' = [tab EXCEPT ![t].at = "ready", ![t].seen = data]
    /\ UNCHANGED <<chainVars, flight, sent, mishap>>

\* The tab is closed or reloaded, or it crashes, between any two steps.
Leave(t) ==
    /\ tab[t].at # "closed"
    /\ tab' = [tab EXCEPT ![t] = Closed]
    /\ mishap' = (mishap \/ tab[t].at \notin {"ready", "signing"})
    /\ UNCHANGED <<chainVars, saved, flight, sent>>

-----------------------------------------------------------------------------
(* Transactions. *)

Execute(tx) ==
    \/ /\ tx.kind = "pool"
       /\ \E t \in Terms :
             InitializePool(tx.pool, Wallet, Wallet, t, PoolNotes, tx.slot + PoolTerm)
    \/ /\ tx.kind = "line"
       /\ ApproveCreditLine(Wallet, tx.pool, tx.line, Wallet, LineNotes,
                            tx.slot, pool[tx.pool].maturity - Margin)
    \/ tx.kind = "draw" /\ DrawTranche(Wallet, tx.pool, tx.line, tx.notes, tx.slot)
    \/ tx.kind = "repay" /\ RepayTranche(Wallet, tx.pool, tx.line, tx.notes)

WaitsFor(t, tx) == tab[t].at = "confirming" /\ tab[t].tx = tx

Report(tx, fate) ==
    [t \in Tabs |-> IF WaitsFor(t, tx) THEN [tab[t] EXCEPT !.fate = fate] ELSE tab[t]]

\* A block after the sampled slot holds the transaction.  It has its effect or,
\* when the handler returns an error, none.
Land(tx) ==
    /\ tx.slot < slot
    /\ flight' = flight \ {tx}
    /\ \/ Execute(tx) /\ tab' = Report(tx, "ok")
       \/ /\ ~ENABLED Execute(tx)
          /\ UNCHANGED vars
          /\ tab' = Report(tx, "failed")
    /\ UNCHANGED <<slot, saved, sent, mishap>>

\* The blockhash expires: the transaction will never land.
Drop(tx) ==
    /\ flight' = flight \ {tx}
    /\ UNCHANGED <<chainVars, tab, saved, sent, mishap>>

\* Slip: every failing handler takes the addresses back.
FailAndForget(t) ==
    LET held == [tab[t].held EXCEPT !.pool = ZeroKey, !.line = ZeroKey] IN
    /\ saved' = WithAddresses(tab[t].held, held)
    /\ tab' = [tab EXCEPT ![t].at = "ready", ![t].held = held,
                          ![t].tx = NoTx, ![t].fate = "none"]

\* The handler throws.  Draw and repay only report it; setup takes back the
\* addresses whose transactions did not confirm.
Fail(t) ==
    LET held == CASE tab[t].tx.kind = "pool" ->
                       [tab[t].held EXCEPT !.pool = ZeroKey, !.line = ZeroKey]
                  [] tab[t].tx.kind = "line" -> [tab[t].held EXCEPT !.line = ZeroKey]
                  [] OTHER -> tab[t].held
    IN  /\ saved' = WithAddresses(tab[t].held, held)
        /\ tab' = [tab EXCEPT ![t].at = "ready", ![t].held = held,
                              ![t].tx = NoTx, ![t].fate = "none"]

\* The wallet refuses to sign, or sendRawTransaction, which first simulates the
\* transaction, throws.
Refuse(t) ==
    /\ tab[t].at = "signing"
    /\ Fail(t)
    /\ UNCHANGED <<chainVars, flight, sent, mishap>>

\* The wallet signs, the simulation succeeds and the transaction is out.
Send(t) ==
    /\ tab[t].at = "signing"
    /\ ENABLED Execute(tab[t].tx)
    /\ sent < MaxSent
    /\ sent' = sent + 1
    /\ LET tx == [tab[t].tx EXCEPT !.id = sent + 1] IN
       /\ flight' = flight \cup {tx}
       /\ tab' = [tab EXCEPT ![t].at = "confirming", ![t].tx = tx,
                             ![t].fate = "pending"]
    /\ UNCHANGED <<chainVars, saved, mishap>>

\* confirmTransaction gives up, on a transaction that was dropped or on one that
\* landed or will.
TimeOut(t) ==
    /\ tab[t].at = "confirming"
    /\ Fail(t)
    /\ mishap' = (mishap \/ tab[t].fate # "pending" \/ tab[t].tx \in flight)
    /\ UNCHANGED <<chainVars, flight, sent>>

\* confirmTransaction returns.  It returns for a transaction that failed on the
\* chain as well, with the error in its result, which sendTx does not look at.
Confirmed(t, kind) ==
    /\ tab[t].at = "confirming"
    /\ tab[t].tx.kind = kind
    /\ tab[t].fate # "pending"
    /\ mishap' = (mishap \/ tab[t].fate = "failed")

Begin(t, tx, data) ==
    tab' = [tab EXCEPT ![t].at = "signing", ![t].tx = tx, ![t].seen = data]

-----------------------------------------------------------------------------
(* handleSetup: a pool and then a line, each under a fresh address.  The button *)
(* shows while the page has no line.                                            *)

Used == {tx.pool : tx \in flight} \cup {tx.line : tx \in flight}
          \cup {tab[t].tx.pool : t \in Tabs} \cup {tab[t].tx.line : t \in Tabs}

FreshPool(p) == ~Initialized(pool[p]) /\ p \notin Used
FreshLine(l) == ~Initialized(line[l]) /\ l \notin Used

Setup(t, p) ==
    /\ tab[t].at = "ready"
    /\ tab[t].held.line = ZeroKey
    /\ FreshPool(p)
    /\ slot + PoolTerm <= MaxSlot
    /\ Begin(t, [NoTx EXCEPT !.kind = "pool", !.pool = p, !.slot = slot], tab[t].seen)
    /\ UNCHANGED <<chainVars, saved, flight, sent, mishap>>

PoolConfirmed(t, l) ==
    /\ Confirmed(t, "pool")
    /\ FreshLine(l)
    /\ LET held == [tab[t].held EXCEPT !.pool = tab[t].tx.pool] IN
       /\ saved' = WithAddresses(tab[t].held, held)
       /\ tab' = [tab EXCEPT ![t].at = "signing", ![t].held = held,
                    ![t].fate = "none",
                    ![t].tx = [@ EXCEPT !.kind = "line", !.line = l, !.slot = slot]]
    /\ UNCHANGED <<chainVars, flight, sent>>

\* The new address makes the effect that fetches the line run.
LineConfirmed(t) ==
    /\ Confirmed(t, "line")
    /\ LET held == [tab[t].held EXCEPT !.line = tab[t].tx.line] IN
       /\ saved' = WithAddresses(tab[t].held, held)
       /\ \E data \in Refetched(t, held.line) :
             tab' = [tab EXCEPT ![t].at = "ready", ![t].held = held,
                       ![t].seen = data, ![t].tx = NoTx, ![t].fate = "none"]
    /\ UNCHANGED <<chainVars, flight, sent>>

-----------------------------------------------------------------------------
(* handleDraw and handleRepay.  lineData may be stale, and is fetched only when *)
(* it is null; the slot is sampled before the wallet signs.                     *)

LineData(t) ==
    IF tab[t].seen # EmptyLine THEN {tab[t].seen}
    ELSE {EmptyLine, Fetched(tab[t].held.line)}

Operation(t, kind, notes) ==
    [NoTx EXCEPT !.kind = kind, !.pool = tab[t].held.pool,
                 !.line = tab[t].held.line, !.notes = notes, !.slot = slot]

HasLine(t) ==
    tab[t].at = "ready" /\ tab[t].held.pool # ZeroKey /\ tab[t].held.line # ZeroKey

\* With no line data the page leaves the limit to the program.
Draw(t, notes) ==
    /\ HasLine(t)
    /\ notes > 0
    /\ \E data \in LineData(t) :
          /\ data # EmptyLine => notes <= data.limit - data.drawn
          /\ Begin(t, Operation(t, "draw", notes), data)
    /\ UNCHANGED <<chainVars, saved, flight, sent, mishap>>

DrawConfirmed(t) ==
    /\ Confirmed(t, "draw")
    /\ tab' = [tab EXCEPT ![t].at = "proving", ![t].fate = "none"]
    /\ UNCHANGED <<chainVars, saved, flight, sent>>

\* Slip: indices start at one.
MintedFromOne(tx) ==
    [i \in 1..tx.notes |->
        [line |-> tx.line, slot |-> tx.slot, i |-> i, status |-> "drawn"]]

\* mintNotes: the ids of a draw are its line, its sampled slot and an index.
Minted(tx) ==
    [i \in 1..tx.notes |->
        [line |-> tx.line, slot |-> tx.slot, i |-> i - 1, status |-> "drawn"]]

\* The verifier answered or not: the notes are put first and persisted.
KeepNotes(t) ==
    /\ tab[t].at = "proving"
    /\ LET notes == Minted(tab[t].tx) \o tab[t].held.notes IN
       /\ saved' = [saved EXCEPT !.notes = notes]
       /\ \E data \in Refetched(t, tab[t].held.line) :
             tab' = [tab EXCEPT ![t].at = "ready", ![t].held.notes = notes,
                                ![t].seen = data, ![t].tx = NoTx]
    /\ UNCHANGED <<chainVars, flight, sent, mishap>>

Repay(t, notes) ==
    /\ HasLine(t)
    /\ notes > 0
    /\ \E data \in LineData(t) \ {EmptyLine} :
          LET owed == data.drawn - data.repaid - data.defaulted IN
          /\ owed > 0
          /\ Begin(t, Operation(t, "repay", IF notes <= owed THEN notes ELSE owed), data)
    /\ UNCHANGED <<chainVars, saved, flight, sent, mishap>>

DrawnUpTo(notes, j) == {k \in 1..j : notes[k].status = "drawn"}

\* Slip: one note too few.
MarkFewer(notes, n) ==
    [j \in DOMAIN notes |->
        IF Cardinality(DrawnUpTo(notes, j)) < n
        THEN [notes[j] EXCEPT !.status = "repaid"] ELSE notes[j]]

\* The first n drawn notes, whatever their line, become repaid.
MarkRepaid(notes, n) ==
    [j \in DOMAIN notes |->
        IF Cardinality(DrawnUpTo(notes, j)) <= n
        THEN [notes[j] EXCEPT !.status = "repaid"] ELSE notes[j]]

RepayConfirmed(t) ==
    /\ Confirmed(t, "repay")
    /\ LET notes == MarkRepaid(tab[t].held.notes, tab[t].tx.notes) IN
       /\ saved' = [saved EXCEPT !.notes = notes]
       /\ \E data \in Refetched(t, tab[t].held.line) :
             tab' = [tab EXCEPT ![t].at = "ready", ![t].held.notes = notes,
                                ![t].seen = data, ![t].tx = NoTx, ![t].fate = "none"]
    /\ UNCHANGED <<chainVars, flight, sent>>

-----------------------------------------------------------------------------

\* Anyone settles a line, and names the slot: the program takes the caller's word
\* for it and asks for no signature, so a line may be settled before its maturity.
Settle(p, l) ==
    /\ \E current \in Slots : SettleMaturity(p, l, current)
    /\ UNCHANGED <<slot, pageVars>>

TimePasses == Tick /\ UNCHANGED pageVars

TabStep(t) ==
    \/ Open(t) \/ Restore(t) \/ Leave(t)
    \/ Send(t) \/ Refuse(t) \/ TimeOut(t)
    \/ \E p \in Pools : Setup(t, p)
    \/ \E l \in Lines : PoolConfirmed(t, l)
    \/ LineConfirmed(t)
    \/ \E n \in U32 : Draw(t, n) \/ Repay(t, n)
    \/ DrawConfirmed(t) \/ KeepNotes(t) \/ RepayConfirmed(t)

PageNext ==
    \/ \E t \in Tabs : TabStep(t)
    \/ \E tx \in flight : Land(tx) \/ Drop(tx)
    \/ \E p \in Pools, l \in Lines : Settle(p, l)
    \/ TimePasses

PageSpec == PageInit /\ [][PageNext]_allVars

-----------------------------------------------------------------------------
(* What the page promises. *)

PageTypeOK ==
    /\ TypeOK
    /\ slot \in Slots
    /\ saved \in Saved
    /\ tab \in [Tabs -> Page]
    /\ flight \subseteq Tx
    /\ sent \in 0..MaxSent
    /\ mishap \in BOOLEAN

DrawnNotes(notes, l) ==
    {j \in DOMAIN notes : notes[j].line = l /\ notes[j].status = "drawn"}

\* With one tab, and unless the page lost track of a transaction or the tab went
\* away in the middle of a handler, the notes a page at rest shows as drawn are
\* the debt of its line, note for note, and localStorage holds the same notes:
\* through stale line data, reloads, retries and transactions that are dropped.
\* A settlement leaves the page's notes as they are: nothing marks them defaulted.
NotesMatchDebt ==
    \A t \in Tabs :
        tab[t].at \in {"ready", "signing"} /\ ~mishap =>
            /\ saved.notes = tab[t].held.notes
            /\ \A l \in Lines :
                  line[l].defaulted = 0 =>
                      Cardinality(DrawnNotes(saved.notes, l)) = Outstanding(l)

\* Ids are never reused: a later draw of the same line samples a later slot.
NoteIdsAreUnique ==
    \A t \in Tabs : LET notes == tab[t].held.notes IN
        \A j, k \in DOMAIN notes :
            j # k => [notes[j] EXCEPT !.status = "drawn"]
                       # [notes[k] EXCEPT !.status = "drawn"]

\* The two of them: what the borrower holds is what the program says is owed.
NotesTellTheDebt == NotesMatchDebt /\ NoteIdsAreUnique

\* A line that owes something is the line the page, or a page opened next, shows:
\* the borrower can still repay it.
DebtIsReachable ==
    \A l \in Lines :
        Outstanding(l) > 0 /\ ~mishap =>
            \/ saved.pool = line[l].pool /\ saved.line = l
            \/ \E t \in Tabs : tab[t].at = "restoring" /\ tab[t].held.line = l

\* The page: "Confidential notes live ONLY in this storage ... restore them so a
\* refresh doesn't lose the notes".  A tab that goes away leaves in localStorage
\* the notes its page held.
RefreshKeepsNotes ==
    [][\A t \in Tabs :
         tab[t].at # "closed" /\ tab'[t].at = "closed"
            => saved'.notes = tab[t].held.notes]_allVars

\* The page: "On-chain stores just the count".  The notes minted for a line are
\* notes the program counted as drawn on it.
MintedNotesWereDrawn ==
    \A t \in Tabs, l \in Lines :
        Cardinality({j \in DOMAIN tab[t].held.notes : tab[t].held.notes[j].line = l})
          <= line[l].drawn

==============================================================================
