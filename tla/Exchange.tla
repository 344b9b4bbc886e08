------------------------------ MODULE Exchange ------------------------------
(***************************************************************************)
(* The note exchange: the store behind /api/exchange (lib/exchange-store,  *)
(* the state of one server process), the exchange page of every wallet,    *)
(* the USDC transfers the pages send, and the fire-and-forget requests     *)
(* that report a transfer to the store afterwards.                         *)
(*                                                                         *)
(* handleBuy fills the order first, delivers the notes to the buyer's      *)
(* vault and only then pays.  Every await of it is a window in which       *)
(* orders end, other wallets buy, tabs close and the process restarts      *)
(* with its seeds, counting the ids of orders and trades from the start.   *)
(*                                                                         *)
(* The routes do not ask who calls.  A trade's badge needs a transaction   *)
(* that landed and whose memo holds the first characters of the trade's    *)
(* settlement id: its payment is one, but anybody may send another, and    *)
(* another settlement may begin alike.  What is said of payments is said   *)
(* of settlements that only their own payment mentions.                    *)
(*                                                                         *)
(* The id of an order is its position in the store, as in the code         *)
(* (lst_<length + 1>); an order is one lot, and prices are in parts of its *)
(* face value, the same for every lot.                                     *)
(***************************************************************************)
EXTENDS Integers, Sequences, FiniteSets, SequencesExt, FiniteSetsExt

CONSTANTS
    Wallets,        \* buyers and sellers: any wallet may be both
    Markets,        \* market symbols
    Asks,           \* prices a page asks for a lot; its rounding may yield 0
    Face,           \* the face value of a lot, and the price of a market at first
    Demo,           \* the seller of the seeded orders, whose address pays nobody
    DemoLots,       \* how many orders the store is seeded with
    Funds,          \* the USDC of a wallet at first
    MaxOrders,      \* bound: orders of wallets in one life of the process
    MaxBuys,        \* bound: purchases begun
    MaxOutside,     \* bound: what others than the pages do at a time
    MaxRestarts     \* bound: cold starts

ASSUME ExchangeAssumption ==
    /\ Demo \notin Wallets
    /\ Asks \subseteq Nat
    /\ Face \in Nat \ {0} /\ Markets # {}
    /\ {DemoLots, Funds, MaxOrders, MaxBuys, MaxOutside, MaxRestarts} \subseteq Nat

VARIABLES
    listings,   \* the orders of the store, oldest first
    trades,     \* its trades, oldest first
    quote,      \* the figures of a market
    screen,     \* screen[w]: the orders on w's page, as of its last refresh
    buying,     \* buying[w]: where w's handleBuy is
    begun,      \* settlement ids handed out
    vault,      \* vault[w]: the lots delivered to w, by settlement
    transfers,  \* USDC transfers sent, by settlement
    usdc,       \* balances
    memos,      \* settlements a landed transaction mentions that is not their payment
    requests,   \* reports under way to the store
    restarts,   \* cold starts so far
    forgotten   \* history: the trades of earlier lives of the process

store == <<listings, trades, quote>>
chain == <<transfers, usdc, memos>>
vars  == <<store, screen, buying, begun, vault, chain, requests, restarts, forgotten>>

-----------------------------------------------------------------------------
(* Data.                                                                   *)

Sellers == Wallets \cup {Demo}

Listing == [seller : Sellers, ask : 1 .. Face, market : Markets,
            status : {"active", "filled", "cancelled"}]

\* An order as a page shows it: with the id it had when the page was refreshed.
Offer == [id : Nat, seller : Sellers, ask : 1 .. Face]

\* A transfer's signature is the settlement it pays: a purchase sends at most one.
\* Elsewhere is the signature of any transaction that is not sent by a page.
Elsewhere == -1
Signature == Nat \cup {Elsewhere}

\* paymentSig is 0 without one.
Trade == [listing : Nat, buyer : Wallets, seller : Sellers, price : 1 .. Face,
          settlement : Nat, paymentSig : Signature, verified : BOOLEAN]

Transfer == [settlement : Nat, from : Wallets, to : Wallets, amount : 1 .. Face,
             status : {"sent", "landed", "failed"}]

Request == [op : {"pay", "verify"}, trade : Nat, sig : Nat]

\* "asking": POST /buy is out.  "paying": filled and delivered, the proofs
\* are being verified.  "confirming": the transfer is out.
Idle == [at |-> "idle"]
Buying == {Idle} \cup [at : {"asking", "paying", "confirming"},
                       offer : Offer, trade : Nat, settlement : Nat]

Seeds == [i \in 1 .. DemoLots |->
            [seller |-> Demo, ask |-> 1, market |-> CHOOSE m \in Markets : TRUE,
             status |-> "active"]]

OpeningQuote == [m \in Markets |-> [last |-> Face, high |-> Face, low |-> Face, volume |-> 0]]

ActiveOffers ==
    {[id |-> i, seller |-> listings[i].seller, ask |-> listings[i].ask] :
        i \in {j \in DOMAIN listings : listings[j].status = "active"}}

\* A demo seller's name is shorter than an address: the buyer's own key is used.
Recipient(w, o) == IF o.seller = Demo THEN w ELSE o.seller

-----------------------------------------------------------------------------
\* refresh(), with which every handler of the page ends: it keeps the orders on
\* the screen when a request fails.
Reread(w) == screen' \in {screen, [screen EXCEPT ![w] = ActiveOffers]}

Init ==
    /\ listings = Seeds
    /\ trades = <<>>
    /\ quote = OpeningQuote
    /\ screen = [w \in Wallets |-> {}]
    /\ buying = [w \in Wallets |-> Idle]
    /\ begun = 0
    /\ vault = [w \in Wallets |-> {}]
    /\ transfers = {}
    /\ usdc = [w \in Wallets |-> Funds]
    /\ memos = {}
    /\ requests = {}
    /\ restarts = 0
    /\ forgotten = {}

-----------------------------------------------------------------------------
(* Selling.                                                                *)

\* The store takes no order without a price or above its face value.
Acceptable(ask) == ask \in 1 .. Face

\* POST /listings of handleSell; the page shows the order at once, unless the
\* answer is lost.  The signature of the order's memo, which the page reports later
\* (recordListingChainSig), is shown and never read: it is left out.
List(w, ask, m) ==
    /\ Acceptable(ask)
    /\ Len(listings) < DemoLots + MaxOrders
    /\ listings' = Append(listings, [seller |-> w, ask |-> ask, market |-> m,
                                     status |-> "active"])
    /\ screen' \in {screen, [screen EXCEPT ![w] = @ \cup {[id |-> Len(listings'), seller |-> w, ask |-> ask]}]}
    /\ UNCHANGED <<trades, quote, buying, begun, vault, chain, requests, restarts, forgotten>>

\* Slip: a sold order can be cancelled.
CancelAnything(w, i) == listings[i].seller = w

\* POST /cancel, which no page calls.
Cancellable(w, i) == listings[i].seller = w /\ listings[i].status = "active"

Cancel(w, i) ==
    /\ i \in DOMAIN listings
    /\ Cancellable(w, i)
    /\ listings' = [listings EXCEPT ![i].status = "cancelled"]
    /\ UNCHANGED <<trades, quote, screen, buying, begun, vault, chain, requests, restarts, forgotten>>

-----------------------------------------------------------------------------
(* Buying.                                                                 *)

\* The poll of the page.
Refresh(w) ==
    /\ Reread(w)
    /\ UNCHANGED <<store, buying, begun, vault, chain, requests, restarts, forgotten>>

\* getUsdcBalance: a wallet without a token account has nothing.
Affords(w, amount) == usdc[w] >= amount

\* handleBuy up to POST /buy: the balance covers the price on the screen.
Choose(w, o) ==
    /\ buying[w] = Idle
    /\ begun < MaxBuys
    /\ Affords(w, o.ask)
    /\ begun' = begun + 1
    /\ buying' = [buying EXCEPT ![w] = [at |-> "asking", offer |-> o, trade |-> 0, settlement |-> begun + 1]]
    /\ UNCHANGED <<store, screen, vault, chain, requests, restarts, forgotten>>

\* Slip: the order's status is not asked.
SellAgain(i) == i \in DOMAIN listings

\* The two refusals of fillListing.
Fillable(i) == i \in DOMAIN listings /\ listings[i].status = "active"

\* Slip: only the last price and the volume are kept up to date.
QuoteWithoutRange(q, price) == [q EXCEPT !.last = price, !.volume = @ + price]

QuoteAfter(q, price) ==
    [last |-> price, high |-> Max({q.high, price}), low |-> Min({q.low, price}),
     volume |-> q.volume + price]

\* Slip: the counter of orders starts one too low.
TradeOfNext(w, i) ==
    [listing |-> i + 1, buyer |-> w, seller |-> listings[i].seller, price |-> listings[i].ask,
     settlement |-> buying[w].settlement, paymentSig |-> 0, verified |-> FALSE]

TradeOf(w, i) ==
    [listing |-> i, buyer |-> w, seller |-> listings[i].seller, price |-> listings[i].ask,
     settlement |-> buying[w].settlement, paymentSig |-> 0, verified |-> FALSE]

\* POST /buy, fillListing: the order, the trade and the figures of its market.
Fill(w) ==
    LET i == buying[w].offer.id IN
    /\ buying[w].at = "asking"
    /\ Fillable(i)
    /\ listings' = [listings EXCEPT ![i].status = "filled"]
    /\ trades' = Append(trades, TradeOf(w, i))
    /\ quote' = [quote EXCEPT ![listings[i].market] = QuoteAfter(@, listings[i].ask)]

\* The answer arrives: the page takes the order away and delivers the notes.
Filled(w) ==
    /\ Fill(w)
    /\ screen' = [screen EXCEPT ![w] = {o \in @ : o.id # buying[w].offer.id}]
    /\ vault' = [vault EXCEPT ![w] = @ \cup {buying[w].settlement}]
    /\ buying' = [buying EXCEPT ![w].at = "paying", ![w].trade = Len(trades')]
    /\ UNCHANGED <<begun, chain, requests, restarts, forgotten>>

\* The answer is lost: the order is filled and the page reports a failure.
FilledUnheard(w) ==
    /\ Fill(w)
    /\ buying' = [buying EXCEPT ![w] = Idle]
    /\ UNCHANGED <<screen, begun, vault, chain, requests, restarts, forgotten>>

\* The store or the rate limiter refuses, the request never arrived, or the
\* tab was reloaded: the page reads the orders again.
Refused(w) ==
    /\ buying[w].at = "asking"
    /\ buying' = [buying EXCEPT ![w] = Idle]
    /\ Reread(w)
    /\ UNCHANGED <<store, begun, vault, chain, requests, restarts, forgotten>>

\* Slip: the fallback for a demo seller is taken for every seller.
PayOneself(w) ==
    [settlement |-> buying[w].settlement, from |-> w, to |-> w,
     amount |-> buying[w].offer.ask, status |-> "sent"]

\* payAndSettleBuy checks the balance again and sends the transfer with its memo.
Payment(w) ==
    [settlement |-> buying[w].settlement, from |-> w, to |-> Recipient(w, buying[w].offer),
     amount |-> buying[w].offer.ask, status |-> "sent"]

Pay(w) ==
    /\ buying[w].at = "paying"
    /\ Affords(w, buying[w].offer.ask)
    /\ transfers' = transfers \cup {Payment(w)}
    /\ buying' = [buying EXCEPT ![w].at = "confirming"]
    /\ UNCHANGED <<store, screen, begun, vault, usdc, memos, requests, restarts, forgotten>>

\* Any failure of payAndSettleBuy, the timeout of the confirmation included,
\* or a reload: the page reads the orders again and is done with the purchase.
PaymentGivenUp(w) ==
    /\ buying[w].at \in {"paying", "confirming"}
    /\ buying' = [buying EXCEPT ![w] = Idle]
    /\ Reread(w)
    /\ UNCHANGED <<store, begun, vault, chain, requests, restarts, forgotten>>

\* confirmTransaction returned, also for a transfer that failed: both reports go out.
Confirmed(w) ==
    /\ buying[w].at = "confirming"
    /\ \E p \in transfers : p.settlement = buying[w].settlement /\ p.status \in {"landed", "failed"}
    /\ requests' = requests \cup
         [op : {"pay", "verify"}, trade : {buying[w].trade}, sig : {buying[w].settlement}]
    /\ buying' = [buying EXCEPT ![w] = Idle]
    /\ Reread(w)
    /\ UNCHANGED <<store, begun, vault, chain, restarts, forgotten>>

-----------------------------------------------------------------------------
(* The chain.                                                              *)

Become(p, status) == (transfers \ {p}) \cup {[p EXCEPT !.status = status]}

Land(p) ==
    /\ p.status = "sent"
    /\ usdc[p.from] >= p.amount
    /\ transfers' = Become(p, "landed")
    /\ LET taken == [usdc EXCEPT ![p.from] = @ - p.amount]
       IN usdc' = [taken EXCEPT ![p.to] = @ + p.amount]
    /\ UNCHANGED <<store, screen, buying, begun, vault, memos, requests, restarts, forgotten>>

\* Another transfer took the money.  (One whose blockhash expires stays "sent".)
Miss(p) ==
    /\ p.status = "sent"
    /\ usdc[p.from] < p.amount
    /\ transfers' = Become(p, "failed")
    /\ UNCHANGED <<store, screen, buying, begun, vault, usdc, memos, requests, restarts, forgotten>>

OutsideBound ==
    Cardinality(memos) + Cardinality({k \in DOMAIN trades : trades[k].paymentSig = Elsewhere})
      < MaxOutside

\* A transaction that is not the payment of trade k lands, and its memo holds the first
\* characters of the trade's settlement.  (One that lands before the trade is filled
\* makes no difference: it is of use from then on.)
Mention(k) ==
    /\ OutsideBound
    /\ memos' = memos \cup {trades[k].settlement}
    /\ UNCHANGED <<store, screen, buying, begun, vault, transfers, usdc, requests, restarts,
                   forgotten>>

-----------------------------------------------------------------------------
(* Reports.  One that is lost, or finds nothing, stays among the requests.  *)

Served(r) ==
    /\ requests' = requests \ {r}
    /\ UNCHANGED <<listings, quote, screen, buying, begun, vault, chain, restarts, forgotten>>

\* recordTradePaymentSig: whatever trade has the id now.
AttachPayment(r) ==
    /\ r.op = "pay"
    /\ r.trade \in DOMAIN trades
    /\ trades' = [trades EXCEPT ![r.trade].paymentSig = r.sig]
    /\ Served(r)

\* Slip: the transaction is there, and nobody asks whether it failed.
SentOnChain(t, sig) ==
    \/ sig = t.settlement /\ \E p \in transfers : p.settlement = sig
    \/ sig = Elsewhere /\ t.settlement \in memos

\* The transaction is there, did not fail, and its memo holds the first twelve
\* characters of the settlement id: the trade's payment, or anything else that
\* mentions it.  Payer, payee and amount are not looked at.
PaidOnChain(t, sig) ==
    \/ /\ sig = t.settlement
       /\ \E p \in transfers : p.settlement = sig /\ p.status = "landed"
    \/ sig = Elsewhere /\ t.settlement \in memos

\* markTradePaymentVerified, after the answer of the chain.
Badge(k, sig) ==
    /\ k \in DOMAIN trades
    /\ PaidOnChain(trades[k], sig)
    /\ trades' = [trades EXCEPT ![k].verified = TRUE]

Verify(r) ==
    /\ r.op = "verify"
    /\ Badge(r.trade, r.sig)
    /\ Served(r)

\* Anybody asks for a badge, or attaches a signature of no page's payment.
AnybodyVerifies(k, sig) ==
    /\ Badge(k, sig)
    /\ UNCHANGED <<listings, quote, screen, buying, begun, vault, chain, requests, restarts,
                   forgotten>>

AnybodyAttaches(k) ==
    /\ OutsideBound
    /\ trades' = [trades EXCEPT ![k].paymentSig = Elsewhere]
    /\ UNCHANGED <<listings, quote, screen, buying, begun, vault, chain, requests, restarts,
                   forgotten>>

-----------------------------------------------------------------------------
\* A cold start: the module is loaded again and seeded on the first request.
Restart ==
    /\ restarts < MaxRestarts
    /\ restarts' = restarts + 1
    /\ listings' = Seeds
    /\ trades' = <<>>
    /\ quote' = OpeningQuote
    /\ forgotten' = forgotten \cup ToSet(trades)
    /\ UNCHANGED <<screen, buying, begun, vault, chain, requests>>

Next ==
    \/ \E w \in Wallets, ask \in Asks, m \in Markets : List(w, ask, m)
    \/ \E w \in Wallets, i \in DOMAIN listings : Cancel(w, i)
    \/ \E w \in Wallets : Refresh(w)
    \/ \E w \in Wallets : \E o \in screen[w] : Choose(w, o)
    \/ \E w \in Wallets : Filled(w) \/ FilledUnheard(w) \/ Refused(w)
    \/ \E w \in Wallets : Pay(w) \/ PaymentGivenUp(w) \/ Confirmed(w)
    \/ \E p \in transfers : Land(p) \/ Miss(p)
    \/ \E r \in requests : AttachPayment(r) \/ Verify(r)
    \/ \E k \in DOMAIN trades : Mention(k) \/ AnybodyAttaches(k)
    \/ \E k \in DOMAIN trades, sig \in {Elsewhere} \cup 1 .. begun : AnybodyVerifies(k, sig)
    \/ Restart

Spec == Init /\ [][Next]_vars

-----------------------------------------------------------------------------
(* Properties.                                                             *)

\* Every trade there ever was, in this life of the process or an earlier one.
EveryTrade == ToSet(trades) \cup forgotten

\* The store, the pages and the chain hold values of their types
\* (exchange-store.ts:55-111).
ExchangeTypeOK ==
    /\ listings \in Seq(Listing)
    /\ trades \in Seq(Trade)
    /\ \A i \in DOMAIN trades : trades[i].listing \in DOMAIN listings
    /\ quote \in [Markets -> [last : 1 .. Face, high : 1 .. Face, low : 1 .. Face, volume : Nat]]
    /\ screen \in [Wallets -> SUBSET Offer]
    /\ buying \in [Wallets -> Buying]
    /\ vault \in [Wallets -> SUBSET (1 .. begun)]
    /\ transfers \subseteq Transfer
    /\ usdc \in [Wallets -> Nat]
    /\ memos \subseteq 1 .. begun
    /\ requests \subseteq Request
    /\ forgotten \subseteq Trade

\* An order is sold once: it is filled exactly when one trade names it, whoever
\* else asked for it, and that trade repeats its seller and its price
\* (fillListing refuses an order that is no longer active).
OrdersSellOnce ==
    \A i \in DOMAIN listings :
        LET sales == {k \in DOMAIN trades : trades[k].listing = i} IN
        /\ Cardinality(sales) = (IF listings[i].status = "filled" THEN 1 ELSE 0)
        /\ \A k \in sales : /\ trades[k].seller = listings[i].seller
                            /\ trades[k].price = listings[i].ask

\* Nobody pays for a refused order and nobody gets notes without a trade: notes
\* are delivered for trades of their holder, every transfer is for notes its
\* payer holds, and a trade is paid at most once (handleBuy returns on a
\* refusal before it delivers, and delivers before it pays).
PaymentsFollowFills ==
    /\ \A w \in Wallets : \A s \in vault[w] :
          \E t \in EveryTrade : t.settlement = s /\ t.buyer = w
    /\ \A p \in transfers : p.settlement \in vault[p.from]
    /\ \A p, q \in transfers : p.settlement = q.settlement => p = q

\* The badge of a trade tells a payment of its buyer that landed, whoever asked for
\* it, also when the report arrives after a cold start gave the trade's id to another
\* trade.  Not when another transaction mentions the settlement: the route takes any
\* memo for the payment (trades/verify/route.ts:102-121).
VerifiedWasPaid ==
    \A t \in EveryTrade : t.verified =>
        \/ t.settlement \in memos
        \/ \E p \in transfers :
              p.settlement = t.settlement /\ p.from = t.buyer /\ p.status = "landed"

\* The two of them: no payment without a trade, no badge without a payment or another
\* transaction that mentions the settlement.
PaymentsAreTrue == PaymentsFollowFills /\ VerifiedWasPaid

PaidAsAgreed(t) ==
    \E p \in transfers : /\ p.settlement = t.settlement
                         /\ p.status = "landed"
                         /\ p.to = t.seller
                         /\ p.amount = t.price

\* A verified trade whose settlement nothing else mentions paid its seller its price
\* (exchange/page.tsx:178: the buyer pays the seller the ask price;
\* trades/verify/route.ts:7: the trade's payment actually happened).
PaymentReachesTheSeller ==
    \A t \in EveryTrade :
        t.verified /\ t.settlement \notin memos /\ t.seller # Demo => PaidAsAgreed(t)

\* The same, as long as the process has not restarted: then an order on a
\* screen is the order of the store with that id.
PaymentReachesTheSellerInOneLife == restarts = 0 => PaymentReachesTheSeller

\* As long as the process has not restarted, the signature that a page attaches to
\* a trade is that of the trade's own payment, in whatever order the reports arrive
\* (Trade.paymentSig, exchange-store.ts:107; recordTradePaymentSig).  What anybody
\* else attaches may be anything.
ReportsReachTheirTrade ==
    restarts = 0 => \A t \in ToSet(trades) : t.paymentSig \in {0, Elsewhere, t.settlement}

\* The two of them, for one life of the process: payments and trades find each other.
PaymentsMeetTheirTrades == PaymentReachesTheSellerInOneLife /\ ReportsReachTheirTrade

\* The trades of a market, and the prices of the trades.
Sold(m) == {k \in DOMAIN trades : listings[trades[k].listing].market = m}
Prices == [k \in DOMAIN trades |-> trades[k].price]

\* The figures of a market tell its trades: the last price is that of the
\* newest one, the volume is their sum, and the range holds them all
\* (fillListing, exchange-store.ts:365-380).
QuoteTellsTrades ==
    \A m \in Markets :
        LET q == quote[m]
        IN /\ q.last = IF Sold(m) = {} THEN Face ELSE trades[Max(Sold(m))].price
           /\ q.volume = SumFunctionOnSet(Prices, Sold(m))
           /\ \A k \in Sold(m) : q.low <= trades[k].price /\ trades[k].price <= q.high

\* An order ends once: while the process lives, one that was sold stays sold
\* and one that was cancelled is never sold (fillListing, cancelListing).
OrdersEndOnce ==
    [][restarts' = restarts =>
         \A i \in DOMAIN listings :
            listings[i].status # "active" => listings'[i].status = listings[i].status]_vars

=============================================================================
