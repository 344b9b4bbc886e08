# Verification of the confidential credit network

TLA+ models of this repository, the TLC runs that check them, and proofs that
TLAPS checks. Paths are relative to the repository (`src/` of this tree);
`web/` stands for `apps/web-next/src/`. PROJECT.json maps every definition to
the lines it translates, and lists the hazards of the code, each at its line
with the properties about it.

## 1. The system

| Component | State it keeps | Operations | What makes it correct |
|---|---|---|---|
| **credit-vault program** `programs/credit-vault/src` | pool, credit-line and receipt accounts | initialize_pool, approve_credit_line, draw_tranche, repay_tranche, post_receipt, settle_maturity, pause_line | notes are counted once; pool counters are sums of line counters; a line that stopped stays stopped; debt can always leave |
| **layouts** `state.rs`, `instruction.rs`, `mb.rs`, `web/lib/program.ts` | bytes of accounts and instructions, written by hand on each side | pack and unpack, build and parse, size of a seal's account | every client reads and writes the program's fields at the program's places |
| **credit engine** `packages/credit-engine`, read by `apps/worker` and `apps/api` | an application and a line, passed in and out of pure functions | create, approve, draw, repay, receipt, settle; the worker's events | the status tells the debt; parts cost no less than the whole; a finished line is not revived |
| **x402 spend gateway** `packages/x402-spend-gateway` | a spend line with receipts, passed in and out | authorize, challenge, charge | charges keep the cap and are counted once |
| **sealed data** `packages/privacy-adapter`, `web/lib/stealth-settlement.ts`, `note-vault.ts`, `zk-proof.ts` | none; envelopes with a receipt and a commitment | seal, open, verify, re-blind, attest | what opens or vouches is one sealed thing, made for the name that is claimed |
| **risk and interest** `web/lib/risk-engine.ts`, `interest.ts`, `arcium-risk-compute.ts` | a mandate and a history of checks | evaluate, commit, verify, change the mandate | scores order risk; a commitment tells its check's borrower, moment and verdict; the scorers agree |
| **trade page** `web/app/trade/page.tsx` | addresses, line data and notes in React state | setup, draw, repay; the effects that restore and persist | the notes a user holds are the notes the program counted |
| **note storage and vault page** `web/lib/persistence.ts`, `note-backup.ts`, `web/app/vault`, and the four pages that write | one localStorage entry per wallet, one backup file | merge, replace, wipe; release, sell, deliver, export, import | no note is lost, none is offered twice, none comes back to life |
| **dashboard** `web/components/RealApp.tsx` | addresses, token balances, a handler under way | pool, line, draw, repay, settle; deposit, withdraw | its line is within reach; tokens add up |
| **underwriter page** `web/app/underwriter/page.tsx` | a form and the last answer of a read | type, read, approve | a line has the maturity of its pool and the exposure of its mandate |
| **exchange** `web/lib/exchange-store.ts`, `web/app/api/exchange`, `web/app/exchange/page.tsx` | orders, trades and figures in one server process; a purchase in a page | list, cancel, fill, attach a memo or a payment, verify; handleBuy, poll | an order sells once; nobody pays without a trade; a badge tells a payment, unless another transaction mentions the settlement |
| **live prices** `web/lib/price-stream*.ts` | two sockets, timers, a throttle | start, stop, callbacks, poll | a live status tells a source that delivers; the fallback is opened, the primary returned to |
| **server price cache** `web/lib/price-feed.ts` | spot prices, candles per asset | look up, fetch, answer | answers carry a time that is theirs |
| **API guards** `web/lib/api-guard.ts`, `web/app/api/zk/verify`, `verify-feed.ts` | request times and counters per client, a feed | admit, sweep, prune, record | a client's budget stays bounded |
| **scripts** `apps/localnet/src` | the accounts they made | their instructions, reads and expectations | they expect what the program does |

How they meet: the pages and scripts send one-instruction transactions to the
program and wait for a confirmation that may not come; the pages keep addresses
and confidential notes only in localStorage; the exchange page talks to the
store by HTTP, pays by an SPL transfer and reports the payment to the store
without waiting for the answer. Engine and gateway are libraries: their caller
keeps the state. The hard behaviours are therefore (a) long sequences of legal
instructions over two accounts that must agree, (b) windows between the awaits
of a handler, in which transactions land late, tabs reload, wallets change and
others act, (c) a store that starts over, (d) copies (React state,
localStorage, a polled list, a cache, a layout) that are stale or wrong when
they are used.

## 2. Modules

```
NoteLedger <--implements-- CreditVault <--extends-- VaultOnChain <--extends-- TradePage
                               ^                            ^------------- HomePage
                               | INSTANCE                   ^------------- UnderwriterPage
                            Scripts
Exchange     PriceStream                                   (checked on their own)
Parts  <--  CreditEngine SpendGateway NoteStore HomePage UnderwriterPage Scripts
            WireFormat RateLimits Envelopes RiskScore PriceCache
MCCreditVault MCTradePage MCExchange MCUnderwriterPage MCParts      (instances for TLC)
CreditVaultProofs TradePageProofs ExchangeProofs PriceStreamProofs  (TLAPS)
LibraryProofs  = CreditEngine + SpendGateway + Envelopes + RiskScore
ServerProofs   = PriceCache + RateLimits
PageProofs     = UnderwriterPage + NoteStore + HomePage + Scripts, and all of Parts
FiniteSums     sums over finite sets, used by the proofs
```

**CreditVault** - one action per instruction of `processor.rs`, guards in the
order of the handler's checks. `pool`, `line` and `receipt` are three readings of
the accounts: functions from addresses to records, where an account of another type
reads as empty, because `is_initialized` looks for its own discriminator only. The
sets of addresses may overlap, and an instruction that packs an account as one type
wipes its other readings: a live pool may be taken for a line, a live line for a
receipt, and so on, as the program allows. `spoilt`, a history variable, has the
pools that lost an account that way. Addresses, keys and terms are opaque constants,
so that the proofs hold for any number of them. A failing instruction leaves every
account as it was and is no step. Counters are u32 with checked arithmetic.

**NoteLedger** - what the program promises without accounts: grants, lending,
recovery, finishing, and the loss of pools whose accounts were taken for others
(`Lose`), which may change nothing else. `CreditVault!ImplementsLedger` is the refinement; `exposure`
is the pool's own counter and `owed` the line's.

**VaultOnChain** - adds the chain's slot, which the program never reads: it
compares the maturity with a slot that the caller writes into the instruction.

**TradePage** - tabs over `VaultOnChain`. `tab[t]` is the React state of a tab
and the program counter of its handler (restoring, ready, signing, confirming,
proving), `saved` the localStorage entry, `flight` the transactions sent. The
actions are the windows between awaits: sample the slot, sign and send, land (in
any order, or fail, or be dropped), confirmed or timed out, proofs answered, and
the effects that restore and persist. Anybody settles any line, with any slot.

**HomePage** - the dashboard's handlers over the chain, one at a time (`busy`).
It stores the address of a new account before it sends the transaction, and
never takes it back; deposits and withdrawals move tokens between the wallet and
a vault key in localStorage. In this code a second deposit and every withdrawal
are refused whole by the chain, since they create token accounts that exist
already.

**UnderwriterPage** - the form, reads of a pool that are never cancelled and
answer in any order, and approvals that land late.

**NoteStore** - the entries of two wallets in one tab that moves between the
four pages. A list of notes is a function from notes to statuses; `job` is the
handler that waits (a sale, a purchase, an import), with the wallet and the notes
it captured, and which outlives its page. `owned`, `owed`, `loose` and `overtaken`
are history, described at the properties. When the wallet changes, the trade page
saves the notes it shows for the new wallet before it shows those of its entry
(`Copied`): they stay there if the new wallet has none.

**Exchange** - the store, a page per wallet, transfers, reports, cold starts. An
order's id is its position in the store. `buying[w]` is the program counter of
`handleBuy` (asking, paying, confirming), `screen[w]` the list as last read. The
routes ask nobody who he is: anybody attaches a signature (`AnybodyAttaches`), asks
for a badge (`AnybodyVerifies`), or lands a transaction whose memo holds the first
characters of a settlement id (`Mention`, in `memos`), which the badge takes for the
payment (`PaidOnChain`). A report that is lost stays among the requests; a reload has the effect of a failed
purchase.

**PriceStream** - the class `PriceStream` and its hook. The stream has one status for
its twelve assets, live when a socket has a fresh price of *any* of them, so each
source is followed by the age of its youngest price; `StatusIsOfTheYoungest` proves
that this gives the status of `snapshot()` over all the prices (`SnapshotStatus`). A *chain* is a
primary socket or the timer that will reopen it; each `onopen`, `onclose`, timer
and message is an action, so callbacks run after `stop()` or another `start()`.
Time advances in units of the publishing timer (2 s). Of a snapshot only the
status is kept.

**PriceCache** - one entry at a time (spot prices or the candles of an asset);
readers look, fetch, fail or store in any order. A price is the time it was taken.

**CreditEngine**, **SpendGateway** - one action per exported function; the action
is the caller's replacement of its record by the result. Amounts are rounded as
in the code. `WorkerEvents` is what the worker reports of a line.

**RateLimits** - the sliding window of `api-guard.ts`, the fixed window of the
proof verifier (whose comment says sliding), their sweeps, prunes and caps, the feed.
Of the array of request times only its length and the ages are used, so it is a
count for each time.

**Envelopes** - symbolic cryptography: a hash is an injection, a random value a
fresh number, a ciphertext opens only with its key, nonce and authenticated data.
Letters are sealed, and a reader is handed fields that may come from different
letters and names a recipient or a line. The key of a shielded envelope is made of
the ephemeral key in it and the recipient's address, both public, as the code has it.

**RiskScore** - the three scorers, the engine's history with a mandate that
changes, commitments, and interest in cents, rounded as in the code. A check carries
a reading of a millisecond clock, which several checks may share (`Moments`).

**WireFormat** - a layout is a sequence of <<field, width>>. The program's layouts
beside those of the web client, its parsers and the hand-written bytes of the
scripts. `wire` is what crossed last (an instruction, a read, an account that is
made, a call to MagicBlock) as its client meant it and as the other side takes it;
`receiptSpace`, `sealed` and `answer` follow a seal from the creation of its account
to the program's answer.

**Scripts** - the scripts as sequences of instructions and expectations, run
against an INSTANCE of CreditVault with the scripts' own numbers (`Widest`, the u32
and slot bound there, is far above them); a confirmation may be lost, and the
validator's clock may or may not really move.

**Parts** - the components that keep to themselves, side by side. They share
constants but no state (except the chain of the two pages), so a behaviour moves
one of them, chosen at the start; what is checked of a part is exactly what holds
of its own specification.

A definition marked *Slip* is a plausible mistake in the definition below it;
PROJECT.json names for every property one slip that makes TLC refute it.

## 3. Runs

| Run | What it asks | Result |
|---|---|---|
| `vault` | accounting of pools and lines, life of a line, refinement of NoteLedger, also when accounts are taken for other types | holds |
| `trade` | notes in the browser against the program's counters, ids, addresses, under settlements by anybody with any slot | holds |
| `exchange` | orders sell and end once, payments follow fills, what badges and signatures tell although anybody may ask for them, market figures | holds |
| `price` | the live status through the throttle, the fallback, one primary socket, the return to it | holds |
| `parts` | eleven components, the properties listed below | holds |
| `trade_refresh` | does a refresh keep the notes (trade/page.tsx:184)? | no: a reload right after opening saves an empty list |
| `trade_confirm` | were minted notes drawn (trade/page.tsx:434)? | no: a confirmed transaction may have failed |
| `spend_daily` | is the cap a daily one (docs/architecture.md:45)? | no: the counter is never set back |
| `exchange_restart` | did a verified trade pay its seller (trades/verify/route.ts:7)? | not after a cold start: ids start over |
| `underwriter_pool` | is the maturity read from the pool (underwriter/page.tsx:229)? | not when the answer about another pool comes last |
| `notes_copied` | does a wallet's entry hold that wallet's notes (persistence.ts:33)? | no: a wallet with no entry, connected on the trade page, is given those of the wallet before |
| `receipt_layout` | does a seal's account have the program's layout (program.ts:37)? | no: it is 32 bytes short, every seal is refused |

A "no" is a property that TLC refutes with a trace; the finding in PROJECT.json
quotes the line that states it and the code that does otherwise.

What `parts` checks, by component: `AmountsAddUp`, `StatusTellsDebt`,
`WorkerTellsTheDebt`, `EndedLinesStayEnded` (engine); `SpendingIsCounted`
(gateway); `NotesAreKept`, `OfferedOnce`, `RepaidStaysRepaid` (note storage);
`DashboardKeepsAccounts` (dashboard); `MandateKept` (underwriter page);
`ScriptsExpectWhatHappens`; `ClientsSpeakTheProgramsBytes` (layouts);
`LimitsAreKept`, `VerifierBudgetKept` (guards, verifier and feed); `SealedStaysWhole`
(sealed data); `RiskIsJudgedAlike` (scores, commitments, interest);
`AnswersKeepTheirTime` (cache).

**Bounds and why they suffice.** `vault` (88,269 states): three addresses,
one that is passed as a pool, one as any of the three types and one as a line or a
receipt. An instruction reads or writes two accounts; the third is what it may spoil
without naming it. So there is a pool with one or two lines, or a second pool with a
line, and each of the ways in which one account is taken for another. Two pools with a
line each need a fourth address and are left to the proofs, which are for any number.
MaxU32 = 2 puts the checked arithmetic at
its limit and lets lines fill a pool; slots before, at and after a maturity.
`trade` (1,032,918): one tab, one pool, one line, five transactions: setup, draws,
repayments and a retry; a settlement may come at any moment. `exchange` (2,677,245): two
wallets that both sell and buy, a seeded order, an order of theirs in each life of the
process, two purchases, one cold start, and one thing that an outsider does
(`MaxOutside`: a mention or a signature); a stale offer needs one cold start and one
new order, a double sale two purchases. `price` (861,990): two calls of start() with a
stop between; every duration may end before and after every other. `parts` (832,003):
engine: limits of three notes, rates at which rounding matters, slots on both sides of
the maturity; gateway: two resources, two nonces, two days; storage: two notes, two
wallets, two orders, three visits, so that a handler can outlive a page, a wallet and
a reload (a list copied at a change of wallet is offered by both only after five
visits: that is left to the proof); pages: two pools, two lines (one pool is not enough
for a stale read), three edits or four clicks; limiters: a limit of two in a window of
two slots, four requests (`MaxHits`: as many as two full windows let through, one more
than the verifier's bound allows in one), clocks past one and a half windows and tables
that hold one client; envelopes: two letters of three deals, of which two differ only
in the recipient; risk: inputs with zero, small and large of each number, two mandates,
two readings of the clock for two checks; cache: two requests, times to live longer
than a fetch, clocks past an entry's second age. Bounds whose comment says "bounds the
model only" exist in no code.

**Deadlock** checking is on for `price`, whose time never stops. The other models
come to rest when their bounds are used up or every line has ended, and no process
of the program waits for another.

**Fairness.** Only PriceStream assumes any: weak fairness of time, of the timers
that are due, and of an attempt to connect, which opens when the source can be
reached and closes when it cannot: an event loop runs its timers and a browser
answers every attempt. Nothing is assumed of networks, messages or users:
`ReturnsToPrimary` is conditional on a stream that runs and a source that can be
reached from some time on. For the program, the pages and the store no liveness is
claimed: the program obliges nobody, the pages act on clicks, and neither a
transaction nor a report is ever sure to arrive. That a filled order is paid in the
end is promised nowhere, and is false.

## 4. What is proved

All theorems hold for every value of the constants under the named assumptions
of the modules (`KeysAssumption`, `TermsAssumption`, `BoundsAssumption`,
`AddressAssumption`, `EngineAssumption`, `GatewayAssumption`, `ExchangeAssumption`,
`StreamAssumption`, `CacheAssumption`, `RateAssumption`, `UnderwriterAssumption`,
`StoreAssumption`, `HomeAssumption`, `WalletAssumption`, `NumbersAssumption`,
`EnvelopesAssumption`, `RiskAssumption`, `ScriptsAssumption`, `FreshKeyAssumption`),
which TLC evaluates in the runs. The last one belongs to VaultOnChain: the clients make
a new key pair for every account and size it for its type, so no address they use has
two types; `CreditVault` and its theorems do not assume it. `NotesTellTheDebtInOneTab` and
`DebtStaysReachable` have one hypothesis more,
that the page is open in at most one tab (`Tabs = {t}`), which is also what the run
`trade` has: nothing in the code coordinates two. Sums are over finite sets of
any size: the only sets assumed finite are the lines of the program and the sockets
and timers of the price stream. Everything else that is summed is finite because
the actions make it so (the trades of a process, the receipts of a spend line) or is
an interval of time.

| Module | Theorems | Inductive invariant |
|---|---|---|
| CreditVaultProofs | TypeCorrect, LinesAreAccounted, PoolsConserveNotes, LinesMatchTheirPool, StoppedLinesStay, CountersNeverFall, VaultImplementsLedger | types; `LineMatchesPool` of the lines whose pool is not `spoilt`; `LineAccounting` (within its limit *and* settled without debt: neither is inductive alone, since a repayment closes a line exactly when nothing is outstanding); `RefinementInv` has them all and `BlankUntilOpened` |
| | PoolsAddTheirLinesUp, DebtAlwaysLeaves | `PoolInv`: every counter of a pool is the sum over its lines; an instruction changes one summand and the pool by the same number, and one that takes an account for another type changes no summand of a pool that is not spoilt. The debt of one line is at most the sum, which is why it can always leave |
| LibraryProofs (engine) | EngineTypeCorrect, StatusAlwaysTellsDebt, EndedLinesAreNotRevived, PartsAlwaysCoverTheDebt, AmountsAlwaysAddUp, WorkerAlwaysTellsTheDebt | `EngineInv`: types and `Sound` (no more repaid than drawn, no more drawn than lent, the status tells the debt); `PaidInv` adds that what was paid covers what fell due and that the amounts due are current; `HistoryInv`: the draws in the history sum to the drawn notes |
| LibraryProofs (gateway) | SpendingIsAlwaysCounted | `GatewayInv`: what is used is the sum of the receipts, and the cap is that of the line |
| LibraryProofs (sealed data) | WhatOpensWasSealed | `EnvelopesInv`, see below |
| LibraryProofs (risk) | RiskIsAlwaysJudgedAlike | `RiskInv`: every check of the history is what the scorer made of its input and of the mandate in force, at the moment it carries |
| ExchangeProofs | OrdersAreSoldOnce, OrdersStayEnded, QuotesTellTheTrades | `ExchangeInv`: types of store and pages, `SoldOnce`: the store decides by its own orders whatever a screen shows; `QuoteInv`: the figures are those of the trades so far, market by market |
| ExchangeProofs (payments) | PaymentsStayTrue, PaymentsFindTheirTrades, ExchangeTypeCorrect | `PaymentInv`: follows the settlement ids, which, unlike ids of orders and trades, never restart: each purchase under way has its own, which no trade carries while it asks and no transfer while it has not paid; a badge is given only for that transfer or for a settlement in `memos`, which only grows; `FirstLife`: until a cold start, the ids on screens, in requests and in transfers are those of the store |
| TradePageProofs | PageTypeCorrect, NoIdIsGivenTwice | `PageInv`: types, what the handlers put in a transaction (`HandlersFit`) and `RefinementInv`, since every step of the page is one of the program or leaves it alone (`PageStepsTheChain`); `IdsInv`: every list is from draws sampled before now, and before the draw under way |
| TradePageProofs (one tab) | NotesTellTheDebtInOneTab, DebtStaysReachable | `TabInv`, see below |
| PriceStreamProofs | StreamIsTyped, LiveStreamsDeliver, SourcesAreAlwaysOpened, StatusIsOfTheYoungest | `StreamInv`: what the throttle may still owe the page (`LiveInv`), one chain until stop() (`ChainInv`), the fallback |
| ServerProofs (cache) | AnswersAlwaysKeepTheirTime | `CacheInv`: the ages of the entry, of each fetch under way and of the newest answer |
| ServerProofs (limiters) | LimitsAreAlwaysKept, VerifierBudgetAlwaysKept | `LimitsInv`: what a limiter remembers of a client is at least what it let through in the window that ends now, and every window that ended earlier was within the budget; a client it forgot had nothing in the window |
| PageProofs (underwriter) | LinesKeepTheirMandates | `MandateInv`: a pool's note size and maturity never change once it is initialized, so what was read and what was sent stays true |
| PageProofs (notes) | NotesAreAlwaysKept, NotesAreOfferedOnce, RepaidNotesStayRepaid, StoreTypeCorrect | `StoreInv`, see below |
| PageProofs (home page) | DashboardAlwaysKeepsAccounts | `HomeInv`, see below; it is about `PartsSpec`, in which the dashboard moves or stays |
| PageProofs (scripts) | ScriptsTypeCorrect | `ScriptsInv`: the accounts fit their layouts, the script is a sequence of steps with one left while it runs, and the clock is a slot |
| PageProofs (parts) | PartsKeepToThemselves, PartsStayTyped, PartsKeepTheirMandates, PartsKeepTheirPromises | `PagesInv`, see below |

**Sums.** The library's induction theorems take an operator as a parameter, which
the provers cannot instantiate. `FiniteSums` uses a least-counterexample argument
instead: if a claim about finite sets fails for some set of a family, it fails for
one (`LeastSet`) none of whose parts with one element less refutes it, and its last
element leads to a contradiction. Its lemmas say what the community modules'
`SumFunctionOnSet` gives for the empty set and for a set with one element more, that
it is a natural number, that it grows with its summands and is at least each of
them, and what changing one summand does to it.

**The entries of the notes.** None of the three properties of `NoteStore` is
inductive. `StoreInv` says of *every* list a step could write (the entries, the page,
what a restore is about to show, and what a handler captured) that its notes exist,
that it belongs to its wallet up to notes that are `loose`, and that none of its
notes is drawn while a live order locks it (`ListsOK`); that each note was given to
one wallet (`BirthsOK`); and, until a handler outlives its page, that the page of a
wallet shows all that its entry owes and no repaid note as anything else
(`ShowsOwed`), and that a handler is of the page and the wallet shown
(`HandlerStays`). A sale locks notes that other wallets' lists do not hold, which is
why two orders cannot share one. Every action that writes is reduced to
`WriteKeepsLists` and `WriteKeepsOwed`. Trying to prove `OfferedOnce` without the
copy made at a change of wallet is what showed it: the proof needed lists to stay
with their wallets, and the code does not keep them there (`notes_copied`).

**The addresses of the dashboard.** That an active line is the one kept says nothing of
a line that is not opened yet. `HomeInv` says it of every line the page asked for: until
a slip (`mislaid`) there is at most one, whether it is on the chain or still under way,
and the page holds its address and its pool's (`HeldIsTheLine`); what is held is what is
kept except while a restore runs. The vault's own `RefinementInv` is a conjunct, because
a transaction that lands late is judged by the chain as it is then. The account records
the page shows are of some earlier moment, but never of one in which more was settled
than drawn (`AppFits`), so what it asks to repay is a number the program accepts.
A mint is given whole and an account is made once (`TokensFit`), which is why no
transfer can create or lose tokens.

**What is sealed.** A reader may be handed any mixture of the fields of letters of one
scheme, so the invariant speaks of whole letters and the theorem of mixtures.
`EnvelopesInv` says of each letter which fields it has, what its ciphertext was sealed
over and what its receipt was made of (`ShieldedFits`, `SettlementFits`, `RoomFits`,
`NoteFits`, `ProofFits`), and that a note's blinding is its own. That what
opens is whole then follows field by field: a field bound by the authenticated data
belongs to the letter whose ciphertext opened (`ShieldedIsWhole`, `SettlementIsWhole`,
...). Cryptography is ideal, here as in the model: a hash has one argument, and a
ciphertext opens with nothing but its own key, nonce and data.

**Live, as the stream says it.** `PickedIsFirst` says which source `pickPrice` takes;
with it `StatusIsOfTheYoungest` shows, for any set of assets and any ages, that a status
decided by "some asset has a fresh price from" a source is one decided by the least age
at that source. What is proved of the status holds of nothing finer: a price of a
single asset may be older than any bound.

**Scores and roundings.** A rounded quotient is not monotone by any rule the provers
know, so `RoundedIs` says what it is (within one half of a unit, times the
denominator), and the comparisons are made of numerators over one denominator
(`ShareGrows`, `ScoreGrows`). Two roundings of the same fraction, one of the
sum and one part by part, may differ: `RoundedApart` bounds that, and gives that
the two public scorers never differ by more than one point (`DemoIsClose`); the first
version of the property said two. `PrivateIsLow` shows that the private scorer passes
what the public ones pass. A commitment has the input, the told part of the result and the
moment, not the mandate: `CommitmentsTell` derives from equal commitments what can be
derived, which is equal input, moment, score and verdict; the reasons of two refusals
may differ when the mandate was changed between them.

**The parts beside each other.** The run `parts` checks a composition whose parts share
constants but hardly any state. `PartsKeepToThemselves` proves what its header says: a
behaviour of the whole is, for each of nine parts, a behaviour of that part alone. So
each theorem about a part is one about the composition, the specification that TLC
runs (`PartsStayTyped`, `PartsKeepTheirPromises`). It is not true of the two pages,
which share the chain. `PagesInv` distinguishes which of them is the client: the one
that moves keeps its own invariant, the other stays typed; when the underwriter page
does not move there are no mandates, and when neither moves there are no lines
(`PartsKeepTheirMandates`). For the scripts, whose accounts are an INSTANCE of
CreditVault, `ScriptsTypeCorrect` instantiates the theorems of CreditVaultProofs in the
same way: each effect of a step is an instruction of the program (`EffectIsNext`).

**The notes and the debt.** That the notes of a page at rest are the debt of its line
says nothing of the moments between, and is not inductive. `TabInv` follows a handler:
what it works on is what localStorage holds (`InStep`); the only transaction in flight
is the one it waits for (`Followed`); at most one line exists, and it is the one kept or
the one whose setup just landed (`OneLine`); and the drawn notes of a line, with those
of a draw that landed and are yet to be minted, are its debt with what a repayment that
landed has yet to mark (`NotesAreDebt`). `MarkRepaid` takes the first n drawn notes
whatever their line, which is right because no other line was ever drawn on;
`FirstDrawn` shows that there are n. ENABLED, in the guard of `Send`, is opaque to the
provers and no proof needs it.

Each proof has one step per action; what all instructions have in common is a
lemma (`NextIsLineStep`, `ActivePoolIsStable`). The refinement maps each
instruction to one ledger operation (`ApproveIsGrant`, `DrawIsLend`, ...) or to a
stutter (`SameViewStutters`).

**Only model-checked.** `ReturnsToPrimary` is a liveness property, which TLAPS
cannot prove. `ScriptsExpectWhatHappens` depends on which instructions the program
refuses, which the model says with ENABLED: that is opaque to the provers. It is about
the scripts' own numbers, and TLC tries every order of their steps, losses and slots.
`ClientsSpeakTheProgramsBytes` compares layouts that are written out, by sums over
sequences of fields: it has no parameters, and the run is already exhaustive. Every
other property of a passing run is stated by a theorem.

## 5. Limits of what is claimed

- `NotesTellTheDebt` and `DebtIsReachable` hold while the page did not lose track
  of a transaction: `mishap` marks the runs in which one lands after its page gave
  up, or a tab goes away inside a handler. In those runs the notes do differ, and
  nothing in the code repairs it. A settlement leaves the notes as they are: the
  status "defaulted" is never set.
- `NotesAreKept` and `RepaidStaysRepaid` are not claimed once a handler outlived
  its page or a restore was torn (`overtaken`): the trade page on a wallet switch,
  and an import after one, do write one wallet's notes into the other's entry.
  Two tabs of one wallet overwrite each other; the model has one tab.
- `OfferedOnce` excludes notes that the seller released, or restored from a
  backup, or sold in an order whose answer was lost (`loose`): the code offers those
  twice. A repayment on the trade page may also mark notes that were bought.
- The dashboard's line is within reach until a second pool or line was asked for;
  after a failed second approval the first line's debt is out of the page's reach.
  On every load the page saves its empty addresses and a render later the restored
  ones (`HomeReload`, `HomeRestored`); nothing is claimed once a second reload fell
  between the two. The model has one wallet: on a wallet switch the code saves the
  addresses of one wallet into the entry of the other.
- A second settlement of a defaulted line finds no debt and marks the line closed
  (processor.rs:404): `StoppedLinesWait` says that its counters stay, and the
  written-off notes still tell the default. README.md:204 only speaks of the first.
- Settlement: settle_maturity takes any slot from any caller and asks for no
  signature (processor.rs:391-402), so a line may be written off before its maturity.
  README.md:80 of the repository says "settlement only after maturity slot"; that is a
  promise of the clients, not of the program, and no property states it.
- Accounts of another type: each `is_initialized` looks for its own discriminator
  (state.rs:99, 205, 290), so initialize_pool, approve_credit_line and post_receipt
  write over a live account of another type that has room (279 bytes of a pool, 278 of a
  line), and README.md:78's "Re-initialization protection on all accounts" holds within
  a type only. A pool that lost its own account or one of its lines' (`spoilt`) is
  outside `LineMatchesPool`, `PoolAccounting` and `DebtCanAlwaysLeave`: its lines may be
  locked out with their debt, its counters count notes nobody owes, and a finished line's
  address may be approved again. `LineAccounting` and `PoolConserved` hold of every
  account, and every other pool keeps all its promises: that is what is checked.
- `MandateKept` speaks of lines on the pool the page showed; `underwriter_pool`
  shows the others.
- Price stream: `LiveMeansDelivering` is about the status, which one ticking asset
  keeps live. Stale prices of others are handed out all the same
  (price-stream-core.ts:99-102) and the exchange page marks every price it has as LIVE
  (exchange/page.tsx:635), so the design document's "never a silently-stuck live number"
  (docs/superpowers/specs/2026-07-05-live-price-websocket-design.md:107-108) is not kept.
  The fallback socket is opened once, and when it closed it stays closed although
  price-stream.ts:165 says that it resets; a primary socket that is open and silent is
  never given up. `SourcesAreOpened` says that the fallback was opened, not that it
  delivers. One primary socket is
  claimed for streams that were never stopped; no page stops one.
- Price cache: a fallback may be of any age (price-feed.ts:114, 138) and is labelled
  live all the same (candles/route.ts:28; markets/route.ts:20): `AnswersKeepTheirTime`
  bounds the age of what came from the source or a young entry, and of a fallback only
  how far its entry's time is from the prices'. Candles may be those of another range of
  days (the entry's key lacks it), an empty answer is passed on, and a failed fetch
  answers what was there when it began: less is claimed of them than of spot prices.
- Limits: the verifier's comment says "Sliding one-minute window" (zk/verify/route.ts:28);
  its windows are fixed, and up to twice the budget less one passes around a boundary.
  `VerifierBudgetKept` claims that bound.
- `ScriptsExpectWhatHappens` excuses a lost confirmation, and a validator that
  really moves its clock past the maturity: then the last test of
  local-integration.ts opens a line after its end, where its comment (line 431)
  says that the "test will still work".
- Envelopes: nothing is claimed of who can read a shielded envelope. Its key is a hash
  of public values (stealth-settlement.ts:253-258, 292) and `recipientIdentityPubHex` is
  never read, although lines 8-17 and 57-63 and note-identity.ts:4-7 say that only the
  holder of the recipient's private key can decrypt. Whoever names the recipient opens
  the envelope: `WholeLettersOpen` says so. The settlement's authenticated data does not
  cover its commitment, so
  that one is claimed only when the receipt is checked too; two settlements of one
  line, kind and number of notes in one millisecond have one id. The private
  computation's verifyRiskCommitment recomputes with a new nonce and never verifies
  an honest output; no page calls it, and it is not modelled.
- Exchange: one server process; the code shares nothing between instances. The badge
  needs a transaction that did not fail and whose memo has the first twelve characters of
  the settlement id (trades/verify/route.ts:100-121); payer, payee, amount and whether
  anything was transferred are not looked at, and nobody is asked who he is. So what
  lines 6-8 of the route say, that a payment "actually happened", is claimed only of
  settlements that no other transaction mentions (`memos`, which stands for any such
  transaction, also one for another settlement that begins alike). A signature attached
  by anybody (`Elsewhere`) may be anything. The memo of an order is never read back and
  is left out.
- Risk: a commitment's moment is a millisecond (risk-engine.ts:129, 169), so two
  equal checks in one millisecond have one commitment; and the mandate is not in it.
- MagicBlock: instructions 7 to 9 need a signature by seeds that a line with a
  keypair address cannot have, so they change nothing; what the delegation program
  does is in no file here. WireFormat has both sides' accounts and bytes.

## 6. Not modelled

- Rendering and styling, charts, tables, analytics, the static site: nothing
  reads their state back. They are most of the pages' lines.
- Routes and tables without state: the demo API's routes, the privacy plan, the
  spectrum, the manifest, the watchlist, synthetic bids and statistics of the book.
- Curve, field and hash arithmetic (`sha256.ts`, the inside of the proofs), key
  generation, Token-2022: cryptography is taken as ideal.
- The program's unit tests and build files, airdrops, logs and texts.
- Multi-tab use of one wallet and several instances of the server: the code
  coordinates neither, and no document says what should happen.
