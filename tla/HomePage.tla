------------------------------ MODULE HomePage ------------------------------
(***************************************************************************)
(* The home page (RealApp) of one wallet, which is underwriter, auditor    *)
(* and borrower at once: pools and lines on the chain, test tokens moved   *)
(* between the wallet and a vault key kept in localStorage.  `busy` lets   *)
(* one handler run at a time.                                              *)
(*                                                                         *)
(* A handler that sends a transaction is two steps: it samples the slot    *)
(* and what it shows and sends; later it is told, or gives up waiting.  A  *)
(* transaction that was sent may land before, after, or not at all.        *)
(* Unlike the trade page this one keeps the address of a new account       *)
(* before it sends.                                                        *)
(***************************************************************************)
EXTENDS VaultOnChain, FiniteSetsExt

CONSTANTS
    Self,       \* the wallet
    NoteLimit,  \* the limit typed into the form
    Term,       \* slots from a new pool to its maturity (25000)
    Ahead,      \* slots a line matures before its pool (5000)
    Mints,      \* test token mints that may be created
    Supply,     \* tokens minted to the wallet (10,000)
    MaxClicks   \* handlers started; bounds the model only

NoMint == "no mint"

ASSUME HomeAssumption ==
    /\ Self \in Underwriters \cap Auditors \cap Borrowers
    /\ NoteLimit \in U32 \ {0} /\ Supply \in Nat /\ MaxClicks \in Nat
    /\ Term \in Nat /\ Ahead \in 0..Term
    /\ NoMint \notin Mints

VARIABLES
    app,        \* the React state of the page
    kept,       \* the addresses in localStorage
    ata,        \* token accounts: -1 where there is none
    mislaid,    \* history: was a pool or line asked for while one was held, or was a
                \* restore of the addresses cut short
    pending,    \* transactions sent and neither landed nor dropped
    clicks

homeVars == <<chainVars, app, kept, ata, mislaid, pending, clicks>>

NoAddresses == [pool |-> ZeroKey, line |-> ZeroKey]
Idle == [kind |-> "idle"]
NoAccount == -1

HomeInit ==
    /\ ChainInit
    /\ app = [held |-> NoAddresses, seen |-> EmptyLine, job |-> Idle,
              mint |-> NoMint, wallet |-> 0, vault |-> 0, restoring |-> FALSE]
    /\ kept = NoAddresses
    /\ ata = [m \in Mints |-> [wallet |-> NoAccount, vault |-> NoAccount]]
    /\ pending = {}
    /\ mislaid = FALSE
    /\ clicks = 0

-----------------------------------------------------------------------------

Idles ==
    /\ app.job = Idle /\ ~app.restoring
    /\ clicks < MaxClicks /\ clicks' = clicks + 1

Submits(job, addresses) ==
    /\ Idles
    /\ app' = [app EXCEPT !.job = job, !.held = addresses]
    /\ pending' = pending \cup {job}
    /\ UNCHANGED <<chainVars, ata>>

\* Slip: the page knows the address, the storage does not yet.
AsksUnsaved(job, addresses) == Submits(job, addresses) /\ UNCHANGED kept

\* The auto-save effect follows every change of the addresses.
Asks(job, addresses) == Submits(job, addresses) /\ kept' = addresses

\* handleInitPool: a fresh key, held before the transaction is sent.
HandleInitPool(p) ==
    /\ ~Initialized(pool[p]) /\ p # app.held.pool
    /\ \A job \in pending : job.pool # p
    /\ slot + Term <= MaxSlot
    /\ Asks([kind |-> "pool", pool |-> p, slot |-> slot], [app.held EXCEPT !.pool = p])
    /\ mislaid' = (mislaid \/ app.held.pool # ZeroKey)

\* handleApprove, on a pool that it finds on the chain.
HandleApprove(l) ==
    /\ app.held.pool # ZeroKey
    /\ Initialized(pool[app.held.pool])
    /\ ~Initialized(line[l]) /\ l # app.held.line
    /\ \A job \in pending : job.kind # "pool" => job.line # l
    /\ Asks([kind |-> "line", pool |-> app.held.pool, line |-> l, slot |-> slot,
             maturity |-> pool[app.held.pool].maturity - Ahead],
            [app.held EXCEPT !.line = l])
    /\ mislaid' = (mislaid \/ app.held.line # ZeroKey)

HoldsBoth == app.held.pool # ZeroKey /\ app.held.line # ZeroKey

Operation(kind, notes) ==
    [kind |-> kind, pool |-> app.held.pool, line |-> app.held.line,
     notes |-> notes, slot |-> slot]

\* handleDraw, handleRepay and handleSettle.  No line data counts as no limit left
\* and no debt; data that was not fetched again may be old, or another line's.
HandleDraw(notes) ==
    /\ HoldsBoth
    /\ notes \in 1..(app.seen.limit - app.seen.drawn)
    /\ Asks(Operation("draw", notes), app.held)
    /\ UNCHANGED mislaid

HandleRepay(asked) ==
    LET owed == app.seen.drawn - app.seen.repaid - app.seen.defaulted IN
    /\ HoldsBoth
    /\ owed # 0
    /\ Asks(Operation("repay", Min({asked, owed})), app.held)
    /\ UNCHANGED mislaid

HandleSettle ==
    /\ HoldsBoth
    /\ Asks(Operation("settle", 0), app.held)
    /\ UNCHANGED mislaid

\* What the transaction of a job does when it lands.
Does(job) ==
    CASE job.kind = "pool" ->
           \E t \in Terms : InitializePool(job.pool, Self, Self, t, NoteLimit, job.slot + Term)
      [] job.kind = "line" ->
           ApproveCreditLine(Self, job.pool, job.line, Self, NoteLimit, job.slot, job.maturity)
      [] job.kind = "draw" -> DrawTranche(Self, job.pool, job.line, job.notes, job.slot)
      [] job.kind = "repay" -> RepayTranche(Self, job.pool, job.line, job.notes)
      [] job.kind = "settle" -> SettleMaturity(job.pool, job.line, job.slot)

Lands(job) ==
    /\ Does(job)
    /\ pending' = pending \ {job}
    /\ UNCHANGED <<slot, app, kept, ata, mislaid, clicks>>

\* Refused by the wallet, the simulation or the chain, or dropped.
Drops(job) ==
    /\ pending' = pending \ {job}
    /\ UNCHANGED <<chainVars, app, kept, ata, mislaid, clicks>>

\* The buttons that read the line, which the handlers call when they are told that
\* their transaction landed.  A read that fails leaves what was shown.
FetchLine ==
    /\ app.job = Idle \/ app.job \notin pending
    /\ ~app.restoring
    /\ app.held.line \in Lines /\ Initialized(line[app.held.line])
    /\ app' = [app EXCEPT !.job = Idle, !.seen = line[app.held.line]]
    /\ UNCHANGED <<chainVars, kept, ata, mislaid, pending, clicks>>

\* sendTx and sendTxBatch throw, whatever becomes of the transaction: the
\* addresses stay.
GivesUp ==
    /\ app.job # Idle
    /\ app' = [app EXCEPT !.job = Idle]
    /\ UNCHANGED <<chainVars, kept, ata, mislaid, pending, clicks>>

\* A reload ends a handler and loses the mint and the line data.  The addresses are
\* read from the storage, and in the same commit the auto-save effect writes the
\* empty ones of the first render over them.
HomeReload ==
    /\ clicks < MaxClicks
    /\ clicks' = clicks + 1
    /\ app' = [held |-> kept, seen |-> EmptyLine, job |-> Idle, mint |-> NoMint,
               wallet |-> 0, vault |-> 0, restoring |-> kept # NoAddresses]
    /\ kept' = NoAddresses
    /\ mislaid' = (mislaid \/ app.restoring)
    /\ UNCHANGED <<chainVars, ata, pending>>

\* The next render has the addresses that were read, and saves them.
HomeRestored ==
    /\ app.restoring
    /\ app' = [app EXCEPT !.restoring = FALSE]
    /\ kept' = app.held
    /\ UNCHANGED <<chainVars, ata, mislaid, pending, clicks>>

\* handleDelegate, handleCommit and handleUndelegate.  The program signs for the
\* address derived from the line's, and the page's lines live at addresses of their
\* own keys: the delegation program is never given one, the transaction reverts.
HandleDelegate ==
    /\ Idles
    /\ app.held.line # ZeroKey
    /\ UNCHANGED <<chainVars, app, kept, ata, mislaid, pending>>

-----------------------------------------------------------------------------
(* Test tokens.  buildTokenTransferIx asks to create the receiver's account,  *)
(* which the chain refuses when there is one: the vault's is made by the first *)
(* deposit, the wallet's by the mint, before any withdrawal.                   *)

\* The page may not be told, and then does not know the mint.
HandleMintTestUsdc(m) ==
    /\ Idles
    /\ ata[m].wallet = NoAccount
    /\ ata' = [ata EXCEPT ![m].wallet = Supply]
    /\ app' \in {app, [app EXCEPT !.mint = m, !.wallet = Supply]}
    /\ UNCHANGED <<chainVars, kept, mislaid, pending>>

MovedTokens(m, from, to, amount) ==
    [ata EXCEPT ![m][to] = amount, ![m][from] = @ - amount]

\* The balances are shown again after a transfer that went through.
Transfer(from, to, amount) ==
    /\ Idles
    /\ app.mint # NoMint
    /\ IF ata[app.mint][to] = NoAccount /\ ata[app.mint][from] >= amount
       THEN /\ ata' = MovedTokens(app.mint, from, to, amount)
            /\ app' = [app EXCEPT !.wallet = ata'[app.mint].wallet,
                                  !.vault = ata'[app.mint].vault]
       ELSE UNCHANGED <<ata, app>>
    /\ UNCHANGED <<chainVars, kept, mislaid, pending>>

HandleDeposit(amount) == Transfer("wallet", "vault", amount)

\* The page asks first whether the vault has that much.
HandleWithdraw(amount) ==
    /\ app.mint # NoMint /\ ata[app.mint].vault >= amount
    /\ Transfer("vault", "wallet", amount)

HomeNext ==
    \/ Tick /\ UNCHANGED <<app, kept, ata, mislaid, pending, clicks>>
    \/ \E p \in Pools : HandleInitPool(p)
    \/ \E l \in Lines : HandleApprove(l)
    \/ \E n \in 1..NoteLimit : HandleDraw(n) \/ HandleRepay(n)
    \/ HandleDelegate \/ HandleSettle \/ FetchLine \/ GivesUp
    \/ HomeReload \/ HomeRestored
    \/ \E job \in pending : Lands(job) \/ Drops(job)
    \/ \E m \in Mints : HandleMintTestUsdc(m)
    \/ \E n \in 1..Supply : HandleDeposit(n) \/ HandleWithdraw(n)

HomeSpec == HomeInit /\ [][HomeNext]_homeVars

-----------------------------------------------------------------------------

HomeTypeOK ==
    /\ {app.held.pool, kept.pool} \subseteq Pools \cup {ZeroKey}
    /\ {app.held.line, kept.line} \subseteq Lines \cup {ZeroKey}
    /\ app.seen \in CreditLineAccount
    /\ app.mint \in Mints \cup {NoMint}
    /\ \A m \in Mints : {ata[m].wallet, ata[m].vault} \subseteq NoAccount..Supply

\* A line that lives on the chain is the one in localStorage, or the one the page is
\* about to save again, with its pool, so that its debt can be repaid from the page:
\* through timeouts, transactions that land late or fail, and reloads.  Not once a
\* second pool or line was asked for (the addresses are replaced before the
\* transaction, and not put back), nor when a reload cut a restore short.
HomeDebtIsReachable ==
    mislaid \/ \A l \in Lines :
        line[l].status = "Active" =>
            [pool |-> line[l].pool, line |-> l] = IF app.restoring THEN app.held ELSE kept

\* Tokens of a mint are with the wallet or with its vault, whatever was refused.
TokensAreConserved ==
    \A m \in Mints :
        ata[m].wallet # NoAccount =>
            ata[m].wallet + Max({ata[m].vault, 0}) = Supply

\* What the page does keeps its accounts: the line is within reach, and the tokens
\* add up, whatever failed, landed late or was given up.
HomeKeepsAccounts == HomeDebtIsReachable /\ TokensAreConserved

=============================================================================
