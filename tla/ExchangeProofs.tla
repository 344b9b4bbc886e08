--------------------------- MODULE ExchangeProofs ---------------------------
(***************************************************************************)
(* Proofs about the note exchange, for any numbers of wallets, markets,    *)
(* orders, purchases and cold starts: an order is sold once, on its own    *)
(* terms, and ends once.                                                   *)
(*                                                                         *)
(* The invariant needs the pages' purchases only for their types: whatever *)
(* a screen shows, the store decides by its own orders.                    *)
(***************************************************************************)
EXTENDS Exchange, FiniteSums, TLAPS

\* The values of the store.
StoreOK ==
    /\ listings \in Seq(Listing)
    /\ trades \in Seq(Trade)
    /\ \A k \in DOMAIN trades : trades[k].listing \in DOMAIN listings

\* The values of the pages, of the reports under way and of the bounded counters.
PagesOK ==
    /\ screen \in [Wallets -> SUBSET Offer]
    /\ buying \in [Wallets -> Buying]
    /\ begun \in Nat /\ restarts \in Nat
    /\ requests \subseteq Request

\* No order has two trades, an order is filled exactly when it has one, and the
\* trade repeats the order's terms.
SoldOnce ==
    /\ \A j, k \in DOMAIN trades : trades[j].listing = trades[k].listing => j = k
    /\ \A i \in DOMAIN listings :
          listings[i].status = "filled" <=> \E k \in DOMAIN trades : trades[k].listing = i
    /\ \A k \in DOMAIN trades :
          /\ trades[k].seller = listings[trades[k].listing].seller
          /\ trades[k].price = listings[trades[k].listing].ask

ExchangeInv == StoreOK /\ PagesOK /\ SoldOnce

-----------------------------------------------------------------------------
(* What the steps make of the store.                                       *)

\* The orders on sale are offers.
LEMMA OffersAreTyped ==
    ASSUME StoreOK
    PROVE  ActiveOffers \subseteq Offer
<1> SUFFICES ASSUME NEW i \in DOMAIN listings
             PROVE  [id |-> i, seller |-> listings[i].seller, ask |-> listings[i].ask] \in Offer
  BY DEF ActiveOffers
<1>1. i \in Nat /\ listings[i] \in Listing
  BY DEF StoreOK
<1> QED BY <1>1 DEF Listing, Offer

\* A page reads its orders again, or keeps those it had.
LEMMA RereadIsTyped ==
    ASSUME StoreOK, PagesOK, NEW w \in Wallets, Reread(w)
    PROVE  screen' \in [Wallets -> SUBSET Offer]
BY OffersAreTyped DEF PagesOK, Reread

\* The seeds are orders, none of them filled.
LEMMA SeedsAreTyped ==
    /\ Seeds \in Seq(Listing)
    /\ \A i \in DOMAIN Seeds : Seeds[i].status = "active"
<1>1. (CHOOSE m \in Markets : TRUE) \in Markets
  BY ExchangeAssumption
<1>2. 1 \in 1 .. Face /\ DemoLots \in Nat
  BY ExchangeAssumption
<1> DEFINE seed == [seller |-> Demo, ask |-> 1, market |-> CHOOSE m \in Markets : TRUE,
                    status |-> "active"]
<1>3. seed \in Listing
  BY <1>1, <1>2 DEF Listing, Sellers
<1>4. Seeds = [i \in 1 .. DemoLots |-> seed]
  BY DEF Seeds
<1>5. seed.status = "active"
  OBVIOUS
<1> HIDE DEF seed
<1> QED BY <1>2, <1>3, <1>4, <1>5

\* A new order is the last one: no trade names it.
LEMMA ListKeepsStore ==
    ASSUME StoreOK, SoldOnce, NEW w \in Wallets, NEW ask \in Asks, NEW m \in Markets,
           List(w, ask, m)
    PROVE  StoreOK' /\ SoldOnce'
<1> DEFINE new == [seller |-> w, ask |-> ask, market |-> m, status |-> "active"]
<1>1. new \in Listing
  BY DEF List, Acceptable, Listing, Sellers
<1>2. listings' = Append(listings, new) /\ trades' = trades
  BY DEF List
<1>3. new.status = "active"
  OBVIOUS
<1> HIDE DEF new
<1>4. StoreOK'
  BY <1>1, <1>2 DEF StoreOK
<1>5. SoldOnce'
  BY <1>1, <1>2, <1>3 DEF StoreOK, SoldOnce
<1> QED BY <1>4, <1>5

\* Orders that change neither their terms nor whether they are filled keep all of it.
LEMMA SameTermsKeepStore ==
    ASSUME StoreOK, SoldOnce, trades' = trades, listings' \in Seq(Listing),
           DOMAIN listings' = DOMAIN listings,
           \A i \in DOMAIN listings :
               /\ listings'[i].seller = listings[i].seller
               /\ listings'[i].ask = listings[i].ask
               /\ (listings'[i].status = "filled") <=> (listings[i].status = "filled")
    PROVE  StoreOK' /\ SoldOnce'
<1>1. StoreOK'
  BY DEF StoreOK
<1>2. \A i \in DOMAIN listings' :
          listings'[i].status = "filled" <=> \E k \in DOMAIN trades' : trades'[k].listing = i
  BY DEF SoldOnce
<1>3. \A k \in DOMAIN trades' :
          /\ trades'[k].seller = listings'[trades'[k].listing].seller
          /\ trades'[k].price = listings'[trades'[k].listing].ask
  BY DEF SoldOnce, StoreOK
<1> QED BY <1>1, <1>2, <1>3 DEF SoldOnce

\* Only an active order is cancelled, which no trade names.
LEMMA CancelKeepsStore ==
    ASSUME StoreOK, SoldOnce, NEW w \in Wallets, NEW i \in DOMAIN listings, Cancel(w, i)
    PROVE  StoreOK' /\ SoldOnce'
<1>1. listings' = [listings EXCEPT ![i].status = "cancelled"] /\ trades' = trades
  BY DEF Cancel
<1>2. listings[i] \in Listing /\ listings[i].status = "active"
  BY DEF StoreOK, Cancel, Cancellable
<1>3. [listings[i] EXCEPT !.status = "cancelled"] \in Listing
  BY <1>2 DEF Listing
<1>4. listings' \in Seq(Listing)
  BY <1>1, <1>3 DEF StoreOK
<1> QED BY <1>1, <1>2, <1>4, SameTermsKeepStore DEF StoreOK, Listing

\* The one step that sells: the order was active, so no trade named it.
LEMMA FillKeepsStore ==
    ASSUME StoreOK, PagesOK, SoldOnce, NEW w \in Wallets, Fill(w)
    PROVE  StoreOK' /\ SoldOnce'
<1> DEFINE i == buying[w].offer.id
           t == TradeOf(w, i)
<1>1. /\ i \in DOMAIN listings /\ listings[i].status = "active"
      /\ listings' = [listings EXCEPT ![i].status = "filled"]
      /\ trades' = Append(trades, t)
  BY DEF Fill, Fillable
<1>2. buying[w] \in [at : {"asking", "paying", "confirming"},
                     offer : Offer, trade : Nat, settlement : Nat]
  BY DEF PagesOK, Fill, Buying, Idle
<1>3. listings[i] \in Listing /\ i \in Nat
  BY <1>1 DEF StoreOK
<1>4. /\ t.listing = i /\ t.seller = listings[i].seller /\ t.price = listings[i].ask
  BY DEF TradeOf
<1>5. t \in Trade
  BY <1>2, <1>3 DEF TradeOf, Trade, Signature, Listing
<1>6. [listings[i] EXCEPT !.status = "filled"] \in Listing
  BY <1>3 DEF Listing
<1> HIDE DEF i, t
<1>7. listings' \in Seq(Listing) /\ DOMAIN listings' = DOMAIN listings
  BY <1>1, <1>6 DEF StoreOK
<1>8. \A j \in DOMAIN listings :
          /\ listings'[j].seller = listings[j].seller
          /\ listings'[j].ask = listings[j].ask
          /\ listings'[j].status = IF j = i THEN "filled" ELSE listings[j].status
  BY <1>1, <1>3 DEF StoreOK, Listing
<1>9. /\ trades' \in Seq(Trade)
      /\ DOMAIN trades' = DOMAIN trades \cup {Len(trades) + 1}
      /\ trades'[Len(trades) + 1] = t
      /\ \A k \in DOMAIN trades : trades'[k] = trades[k] /\ k # Len(trades) + 1
  BY <1>1, <1>5 DEF StoreOK
<1>10. \A k \in DOMAIN trades : trades[k].listing # i
  BY <1>1 DEF SoldOnce
<1>11. StoreOK'
  BY <1>1, <1>4, <1>7, <1>9 DEF StoreOK
<1>12. SoldOnce'
  <2>1. \A j, k \in DOMAIN trades' : trades'[j].listing = trades'[k].listing => j = k
    BY <1>4, <1>9, <1>10 DEF SoldOnce
  <2>2. \A j \in DOMAIN listings' :
            listings'[j].status = "filled" <=> \E k \in DOMAIN trades' : trades'[k].listing = j
    BY <1>1, <1>4, <1>7, <1>8, <1>9 DEF SoldOnce
  <2>3. \A k \in DOMAIN trades' :
            /\ trades'[k].seller = listings'[trades'[k].listing].seller
            /\ trades'[k].price = listings'[trades'[k].listing].ask
    BY <1>1, <1>4, <1>8, <1>9 DEF SoldOnce, StoreOK
  <2> QED BY <2>1, <2>2, <2>3 DEF SoldOnce
<1> QED BY <1>11, <1>12

\* The chain tells a payment of the trade, or something that mentions its settlement.
ChainTells(t) ==
    \/ t.settlement \in memos
    \/ \E p \in transfers : p.settlement = t.settlement /\ p.status = "landed"

\* The routes are told something of trade k, by the page that paid or by anybody.
Told(k) ==
    \/ \E r \in requests : r.trade = k /\ (AttachPayment(r) \/ Verify(r))
    \/ AnybodyAttaches(k)
    \/ \E sig \in {Elsewhere} \cup 1 .. begun : AnybodyVerifies(k, sig)

\* A report under way is told of a trade there is.
LEMMA ReportsAreTold ==
    /\ \A r \in requests : AttachPayment(r) \/ Verify(r) => \E k \in DOMAIN trades : Told(k)
    /\ \A k \in DOMAIN trades : AnybodyAttaches(k) => Told(k)
    /\ \A k \in DOMAIN trades, sig \in {Elsewhere} \cup 1 .. begun :
          AnybodyVerifies(k, sig) => Told(k)
BY DEF AttachPayment, Verify, Badge, Told

\* What is told leaves all but the trade as it is.
LEMMA TellingIsQuiet ==
    ASSUME NEW k, Told(k)
    PROVE  /\ UNCHANGED <<listings, quote, screen, buying, begun, vault, chain, restarts, forgotten>>
           /\ requests' \subseteq requests
BY DEF Told, AttachPayment, Verify, Served, AnybodyAttaches, AnybodyVerifies

\* And it changes of the trade its badge or the payment it carries, not its terms.
LEMMA ReportChangesOneTrade ==
    ASSUME StoreOK, PagesOK, NEW k \in DOMAIN trades, Told(k)
    PROVE  \E t \in Trade :
              /\ trades' = [trades EXCEPT ![k] = t]
              /\ t.listing = trades[k].listing
              /\ t.seller = trades[k].seller
              /\ t.price = trades[k].price
              /\ t.buyer = trades[k].buyer
              /\ t.settlement = trades[k].settlement
              /\ \/ t.paymentSig \in {trades[k].paymentSig, Elsewhere}
                 \/ \E r \in requests : r.trade = k /\ t.paymentSig = r.sig
              /\ t.verified => trades[k].verified \/ ChainTells(trades[k])
<1> DEFINE Changed ==
              \E t \in Trade :
                /\ trades' = [trades EXCEPT ![k] = t]
                /\ t.listing = trades[k].listing
                /\ t.seller = trades[k].seller
                /\ t.price = trades[k].price
                /\ t.buyer = trades[k].buyer
                /\ t.settlement = trades[k].settlement
                /\ \/ t.paymentSig \in {trades[k].paymentSig, Elsewhere}
                   \/ \E r \in requests : r.trade = k /\ t.paymentSig = r.sig
                /\ t.verified => trades[k].verified \/ ChainTells(trades[k])
<1>1. trades[k] \in Trade
  BY DEF StoreOK
<1>2. ASSUME NEW sig \in Signature, trades' = [trades EXCEPT ![k].paymentSig = sig],
             sig = Elsewhere \/ \E r \in requests : r.trade = k /\ sig = r.sig
      PROVE  Changed
  <2> DEFINE t == [trades[k] EXCEPT !.paymentSig = sig]
  <2>1. t \in Trade /\ trades' = [trades EXCEPT ![k] = t]
    BY <1>1, <1>2 DEF Trade
  <2>2. t.paymentSig = sig /\ t.verified = trades[k].verified
    BY <1>1 DEF Trade
  <2>3. /\ t.listing = trades[k].listing /\ t.seller = trades[k].seller
        /\ t.price = trades[k].price /\ t.buyer = trades[k].buyer
        /\ t.settlement = trades[k].settlement
    BY <1>1 DEF Trade
  <2> HIDE DEF t
  <2> QED BY <1>2, <2>1, <2>2, <2>3
<1>3. ASSUME NEW sig, Badge(k, sig)
      PROVE  Changed
  <2> DEFINE t == [trades[k] EXCEPT !.verified = TRUE]
  <2>1. t \in Trade /\ trades' = [trades EXCEPT ![k] = t]
    BY <1>1, <1>3 DEF Badge, Trade
  <2>2. ChainTells(trades[k])
    BY <1>3 DEF Badge, PaidOnChain, ChainTells
  <2>3. /\ t.listing = trades[k].listing /\ t.seller = trades[k].seller
        /\ t.price = trades[k].price /\ t.buyer = trades[k].buyer
        /\ t.settlement = trades[k].settlement /\ t.paymentSig = trades[k].paymentSig
    BY <1>1 DEF Trade
  <2> HIDE DEF t
  <2> QED BY <2>1, <2>2, <2>3
<1>4. ASSUME NEW r \in requests, r.trade = k, AttachPayment(r)
      PROVE  trades' = [trades EXCEPT ![k].paymentSig = r.sig] /\ r.sig \in Signature
  BY <1>4 DEF AttachPayment, PagesOK, Request, Signature
<1>5. Elsewhere \in Signature
  BY DEF Signature
<1> QED BY <1>2, <1>3, <1>4, <1>5 DEF Told, Verify, AnybodyAttaches, AnybodyVerifies

\* So it keeps the store.
LEMMA ReportKeepsStore ==
    ASSUME StoreOK, PagesOK, SoldOnce, NEW j \in DOMAIN trades, Told(j)
    PROVE  /\ StoreOK' /\ SoldOnce'
           /\ UNCHANGED <<listings, quote>>
           /\ DOMAIN trades' = DOMAIN trades
           /\ \A k \in DOMAIN trades :
                 /\ trades'[k].listing = trades[k].listing
                 /\ trades'[k].price = trades[k].price
<1>2. listings' = listings /\ quote' = quote
  BY TellingIsQuiet
<1>4. PICK t \in Trade : /\ trades' = [trades EXCEPT ![j] = t]
                         /\ t.listing = trades[j].listing
                         /\ t.seller = trades[j].seller
                         /\ t.price = trades[j].price
  BY ReportChangesOneTrade
<1>5. trades' \in Seq(Trade) /\ DOMAIN trades' = DOMAIN trades
  <2>1. trades' = [trades EXCEPT ![j] = t]
    BY <1>4
  <2> QED BY <2>1 DEF StoreOK
<1>6. \A k \in DOMAIN trades :
          /\ trades'[k].listing = trades[k].listing
          /\ trades'[k].seller = trades[k].seller
          /\ trades'[k].price = trades[k].price
  <2> TAKE k \in DOMAIN trades
  <2>1. trades' = [trades EXCEPT ![j] = t]
    BY <1>4
  <2>2. trades'[k] = IF k = j THEN t ELSE trades[k]
    BY <2>1 DEF StoreOK
  <2> QED BY <1>4, <2>2
<1>7. StoreOK'
  BY <1>2, <1>5, <1>6 DEF StoreOK
<1>8. SoldOnce'
  <2>1. \A h, k \in DOMAIN trades' : trades'[h].listing = trades'[k].listing => h = k
    BY <1>5, <1>6 DEF SoldOnce
  <2>2. \A i \in DOMAIN listings' :
            listings'[i].status = "filled" <=> \E k \in DOMAIN trades' : trades'[k].listing = i
    BY <1>2, <1>5, <1>6, SMTT(30) DEF SoldOnce
  <2>3. \A k \in DOMAIN trades' :
            /\ trades'[k].seller = listings'[trades'[k].listing].seller
            /\ trades'[k].price = listings'[trades'[k].listing].ask
    BY <1>2, <1>5, <1>6 DEF SoldOnce
  <2> QED BY <2>1, <2>2, <2>3 DEF SoldOnce
<1> QED BY <1>2, <1>5, <1>6, <1>7, <1>8

\* A cold start leaves the seeds and no trade.
LEMMA RestartKeepsStore ==
    ASSUME listings' = Seeds, trades' = << >>
    PROVE  StoreOK' /\ SoldOnce'
BY SeedsAreTyped DEF StoreOK, SoldOnce

-----------------------------------------------------------------------------
(* The pages.                                                              *)

\* Every step leaves the pages and the reports values of their types.
LEMMA PagesStayTyped ==
    ASSUME StoreOK, PagesOK, StoreOK', Next
    PROVE  PagesOK'
<1> USE DEF PagesOK
<1>1. ASSUME NEW w \in Wallets, NEW ask \in Asks, NEW m \in Markets, List(w, ask, m)
      PROVE  PagesOK'
  <2>1. Len(listings') \in Nat
    BY DEF StoreOK
  <2>2. [id |-> Len(listings'), seller |-> w, ask |-> ask] \in Offer
    BY <1>1, <2>1 DEF List, Acceptable, Offer, Sellers
  <2> QED BY <1>1, <2>2 DEF List
<1>2. ASSUME NEW k \in DOMAIN trades, Mention(k)
      PROVE  PagesOK'
  BY <1>2 DEF Mention
<1>3. ASSUME NEW w \in Wallets, NEW i \in DOMAIN listings, Cancel(w, i)
      PROVE  PagesOK'
  BY <1>3 DEF Cancel
<1>4. ASSUME NEW w \in Wallets, Refresh(w)
      PROVE  PagesOK'
  BY <1>4, RereadIsTyped DEF Refresh
<1>5. ASSUME NEW w \in Wallets, NEW o \in screen[w], Choose(w, o)
      PROVE  PagesOK'
  <2>1. o \in Offer
    OBVIOUS
  <2>2. [at |-> "asking", offer |-> o, trade |-> 0, settlement |-> begun + 1] \in Buying
    BY <2>1 DEF Buying
  <2> QED BY <1>5, <2>2 DEF Choose
<1>6. ASSUME NEW w \in Wallets, Filled(w)
      PROVE  PagesOK'
  <2>1. buying[w] \in [at : {"asking", "paying", "confirming"},
                       offer : Offer, trade : Nat, settlement : Nat]
    BY <1>6 DEF Filled, Fill, Buying, Idle
  <2>2. Len(trades') \in Nat
    BY DEF StoreOK
  <2>3. [buying[w] EXCEPT !.at = "paying", !.trade = Len(trades')] \in Buying
    BY <2>1, <2>2 DEF Buying
  <2>4. buying' \in [Wallets -> Buying]
    BY <1>6, <2>3 DEF Filled
  <2>5. screen' \in [Wallets -> SUBSET Offer]
    BY <1>6 DEF Filled
  <2> QED BY <1>6, <2>4, <2>5 DEF Filled
<1>7. ASSUME NEW w \in Wallets, FilledUnheard(w) \/ Refused(w) \/ PaymentGivenUp(w)
      PROVE  PagesOK'
  <2>1. Idle \in Buying
    BY DEF Buying
  <2>2. screen' \in [Wallets -> SUBSET Offer]
    BY <1>7, RereadIsTyped DEF FilledUnheard, Refused, PaymentGivenUp
  <2> QED BY <1>7, <2>1, <2>2 DEF FilledUnheard, Refused, PaymentGivenUp
<1>8. ASSUME NEW w \in Wallets, Pay(w)
      PROVE  PagesOK'
  <2>1. buying[w] \in [at : {"asking", "paying", "confirming"},
                       offer : Offer, trade : Nat, settlement : Nat]
    BY <1>8 DEF Pay, Buying, Idle
  <2>2. [buying[w] EXCEPT !.at = "confirming"] \in Buying
    BY <2>1 DEF Buying
  <2> QED BY <1>8, <2>2 DEF Pay
<1>9. ASSUME NEW w \in Wallets, Confirmed(w)
      PROVE  PagesOK'
  <2>1. buying[w] \in [at : {"asking", "paying", "confirming"},
                       offer : Offer, trade : Nat, settlement : Nat]
    BY <1>9 DEF Confirmed, Buying, Idle
  <2>2. [op : {"pay", "verify"}, trade : {buying[w].trade}, sig : {buying[w].settlement}]
            \subseteq Request
    BY <2>1 DEF Request
  <2>3. Idle \in Buying
    BY DEF Buying
  <2>4. screen' \in [Wallets -> SUBSET Offer]
    BY <1>9, RereadIsTyped DEF Confirmed
  <2> QED BY <1>9, <2>2, <2>3, <2>4 DEF Confirmed
<1>10. ASSUME NEW p \in transfers, Land(p) \/ Miss(p)
       PROVE  PagesOK'
  BY <1>10 DEF Land, Miss
<1>11. ASSUME NEW k \in DOMAIN trades, Told(k)
       PROVE  PagesOK'
  BY <1>11, TellingIsQuiet
<1>12. ASSUME Restart
       PROVE  PagesOK'
  BY <1>12 DEF Restart
<1> HIDE DEF PagesOK
<1> QED BY <1>1, <1>2, <1>3, <1>4, <1>5, <1>6, <1>7, <1>8, <1>9, <1>10, <1>11, <1>12,
           ReportsAreTold DEF Next

-----------------------------------------------------------------------------
(* The figures of the markets.                                             *)

Quote == [last : 1 .. Face, high : 1 .. Face, low : 1 .. Face, volume : Nat]

QuoteInv == quote \in [Markets -> Quote] /\ QuoteTellsTrades

\* The trades of a market are finitely many, and each has a price.
LEMMA SoldIsFinite ==
    ASSUME StoreOK, NEW m
    PROVE  /\ IsFiniteSet(Sold(m))
           /\ \A k \in Sold(m) : k \in Nat /\ Prices[k] \in 1 .. Face
<1>1. IsFiniteSet(DOMAIN trades)
  <2>1. DOMAIN trades = 1 .. Len(trades) /\ Len(trades) \in Nat
    BY DEF StoreOK
  <2> QED BY <2>1, FS_Interval
<1>2. \A k \in DOMAIN trades : k \in Nat /\ trades[k] \in Trade
  BY DEF StoreOK
<1>3. \A k \in DOMAIN trades : trades[k].price \in 1 .. Face
  BY <1>2 DEF Trade
<1>4. \A k \in Sold(m) : k \in Nat /\ Prices[k] \in 1 .. Face
  BY <1>2, <1>3 DEF Sold, Prices
<1>5. IsFiniteSet(Sold(m))
  BY <1>1, FS_Subset DEF Sold
<1> QED BY <1>4, <1>5

\* Steps that leave the figures, the prices and where they were paid keep the account.
LEMMA SameSalesKeepQuote ==
    ASSUME StoreOK, QuoteInv, UNCHANGED quote,
           DOMAIN trades' = DOMAIN trades,
           \A k \in DOMAIN trades :
               /\ trades'[k].price = trades[k].price
               /\ listings'[trades'[k].listing].market = listings[trades[k].listing].market
    PROVE  QuoteInv'
<1>1. \A m : Sold(m)' = Sold(m)
  BY DEF Sold
<1>2. Prices' = Prices
  BY DEF Prices
<1>3. ASSUME NEW m \in Markets, Sold(m) # {}
      PROVE  Max(Sold(m)) \in DOMAIN trades
  <2>1. Max(Sold(m)) \in Sold(m)
    <3>1. IsFiniteSet(Sold(m)) /\ Sold(m) \subseteq Int
      BY SoldIsFinite
    <3> QED BY <1>3, <3>1, GreatestMember
  <2> QED BY <2>1 DEF Sold
<1>4. QuoteTellsTrades'
  BY <1>1, <1>2, <1>3, ZenonT(60) DEF QuoteTellsTrades, QuoteInv, Sold
<1> QED BY <1>4 DEF QuoteInv

\* The figures after a sale are figures.
LEMMA QuoteAfterIsTyped ==
    ASSUME NEW q \in Quote, NEW price \in 1 .. Face
    PROVE  /\ QuoteAfter(q, price) \in Quote
           /\ QuoteAfter(q, price).last = price
           /\ QuoteAfter(q, price).volume = q.volume + price
           /\ QuoteAfter(q, price).low <= q.low /\ QuoteAfter(q, price).low <= price
           /\ QuoteAfter(q, price).high >= q.high /\ QuoteAfter(q, price).high >= price
<1>1. q.high \in 1 .. Face /\ q.low \in 1 .. Face /\ q.volume \in Nat
  BY DEF Quote
<1> DEFINE high == Max({q.high, price})
           low  == Min({q.low, price})
<1>2. high \in {q.high, price} /\ high >= q.high /\ high >= price
  <2>1. \E x \in {q.high, price} : \A y \in {q.high, price} : x >= y
    BY <1>1, ExchangeAssumption
  <2> QED BY <2>1 DEF Max
<1>3. low \in {q.low, price} /\ low <= q.low /\ low <= price
  <2>1. \E x \in {q.low, price} : \A y \in {q.low, price} : x <= y
    BY <1>1, ExchangeAssumption
  <2> QED BY <2>1 DEF Min
<1>4. QuoteAfter(q, price) = [last |-> price, high |-> high, low |-> low, volume |-> q.volume + price]
  BY DEF QuoteAfter
<1> HIDE DEF high, low
<1>5. q.volume + price \in Nat
  BY <1>1, ExchangeAssumption
<1> QED BY <1>1, <1>2, <1>3, <1>4, <1>5 DEF Quote

\* A sale is the newest trade of its market and adds its price to the volume.
LEMMA FillKeepsQuote ==
    ASSUME StoreOK, PagesOK, QuoteInv, StoreOK', NEW w \in Wallets, Fill(w)
    PROVE  QuoteInv'
<1>1. PICK i, t : i = buying[w].offer.id /\ t = TradeOf(w, i)
  OBVIOUS
<1>2. PICK n, mine, price :
          n = Len(trades) + 1 /\ mine = listings[i].market /\ price = listings[i].ask
  OBVIOUS
<1>3. /\ i \in DOMAIN listings /\ i \in Nat /\ n \in Nat
      /\ mine \in Markets /\ price \in 1 .. Face
      /\ n = Len(trades) + 1 /\ mine = listings[i].market
      /\ t.listing = i /\ t.price = price
      /\ listings' = [listings EXCEPT ![i].status = "filled"]
      /\ trades' = Append(trades, t)
      /\ quote' = [quote EXCEPT ![mine] = QuoteAfter(@, price)]
  <2>1. /\ i \in DOMAIN listings
        /\ listings' = [listings EXCEPT ![i].status = "filled"]
        /\ trades' = Append(trades, t)
        /\ quote' = [quote EXCEPT ![mine] = QuoteAfter(@, price)]
    BY <1>1, <1>2 DEF Fill, Fillable
  <2>2. listings[i] \in Listing /\ i \in Nat
    BY <2>1 DEF StoreOK
  <2>3. mine \in Markets /\ price \in 1 .. Face
    BY <1>2, <2>2 DEF Listing
  <2>4. t.listing = i /\ t.price = price
    BY <1>1, <1>2 DEF TradeOf
  <2>5. n \in Nat
    BY <1>2 DEF StoreOK
  <2> QED BY <1>2, <2>1, <2>2, <2>3, <2>4, <2>5
<1>4. \A j \in DOMAIN listings : listings'[j].market = listings[j].market
  BY <1>3 DEF StoreOK, Listing
<1>5. /\ n \in Nat /\ DOMAIN trades' = DOMAIN trades \cup {n}
      /\ trades'[n] = t
      /\ \A k \in DOMAIN trades : trades'[k] = trades[k] /\ k < n
  BY <1>3 DEF StoreOK
<1>7. \A m : Sold(m)' = IF m = mine THEN Sold(m) \cup {n} ELSE Sold(m)
  <2>1. \A k \in DOMAIN trades : listings'[trades'[k].listing].market = listings[trades[k].listing].market
    BY <1>4, <1>5 DEF StoreOK
  <2>2. listings'[trades'[n].listing].market = mine
    BY <1>3, <1>4, <1>5
  <2> QED BY <1>5, <2>1, <2>2 DEF Sold
<1>8. /\ Prices'[n] = price
      /\ \A k \in DOMAIN trades : Prices'[k] = Prices[k] /\ trades'[k].price = trades[k].price
  BY <1>3, <1>5 DEF Prices
<1>9. ASSUME NEW m
      PROVE  /\ IsFiniteSet(Sold(m)) /\ Sold(m) \subseteq DOMAIN trades /\ Sold(m) \subseteq Int
             /\ n \notin Sold(m) /\ \A k \in Sold(m) : n > k
             /\ \A k \in Sold(m) : Prices[k] \in 1 .. Face /\ Prices'[k] \in Int
  <2>1. IsFiniteSet(Sold(m)) /\ \A k \in Sold(m) : k \in Nat /\ Prices[k] \in 1 .. Face
    BY SoldIsFinite
  <2>2. Sold(m) \subseteq DOMAIN trades
    BY DEF Sold
  <2> QED BY <1>5, <1>8, <2>1, <2>2
<1>10. ASSUME NEW m \in Markets PROVE quote'[m] \in Quote
  BY <1>3, QuoteAfterIsTyped DEF QuoteInv
<1>11. ASSUME NEW m \in Markets, m # mine
       PROVE  LET q == quote'[m]
              IN /\ q.last = IF Sold(m)' = {} THEN Face ELSE trades'[Max(Sold(m)')].price
                 /\ q.volume = SumFunctionOnSet(Prices', Sold(m)')
                 /\ \A k \in Sold(m)' : q.low <= trades'[k].price /\ trades'[k].price <= q.high
  <2>1. Sold(m)' = Sold(m) /\ quote'[m] = quote[m]
    BY <1>3, <1>7, <1>11 DEF QuoteInv
  <2>2. SumFunctionOnSet(Prices', Sold(m)) = SumFunctionOnSet(Prices, Sold(m))
    <3>1. IsFiniteSet(Sold(m)) /\ \A k \in Sold(m) : Prices'[k] = Prices[k]
      BY <1>8, <1>9
    <3> QED BY <3>1, SumSame
  <2>3. Sold(m) # {} => trades'[Max(Sold(m))].price = trades[Max(Sold(m))].price
    BY <1>8, <1>9, GreatestMember
  <2>4. \A k \in Sold(m) : trades'[k].price = trades[k].price
    BY <1>8, <1>9
  <2> QED BY <2>1, <2>2, <2>3, <2>4 DEF QuoteInv, QuoteTellsTrades
<1>12. /\ quote'[mine].last = trades'[Max(Sold(mine)')].price
       /\ Sold(mine)' # {}
       /\ quote'[mine].volume = SumFunctionOnSet(Prices', Sold(mine)')
       /\ \A k \in Sold(mine)' : /\ quote'[mine].low <= trades'[k].price
                                 /\ trades'[k].price <= quote'[mine].high
  <2>1. quote[mine] \in Quote /\ quote'[mine] = QuoteAfter(quote[mine], price)
    BY <1>3 DEF QuoteInv
  <2>2. Sold(mine)' = Sold(mine) \cup {n}
    BY <1>7
  <2>3. Max(Sold(mine)') = n
    <3>1. Sold(mine) \subseteq Int /\ n \in Int /\ \A k \in Sold(mine) : n > k
      BY <1>5, <1>9
    <3>2. Max(Sold(mine) \cup {n}) = n
      BY <3>1, GreatestAdded
    <3> QED BY <2>2, <3>2
  <2>4. trades'[n].price = price
    BY <1>3, <1>5
  <2>5. SumFunctionOnSet(Prices', Sold(mine)') = Prices'[n] + SumFunctionOnSet(Prices', Sold(mine))
    <3>1. IsFiniteSet(Sold(mine)) /\ n \notin Sold(mine)
      BY <1>9
    <3>2. \A k \in Sold(mine) \cup {n} : Prices'[k] \in Int
      BY <1>3, <1>8, <1>9, ExchangeAssumption
    <3> QED BY <2>2, <3>1, <3>2, SumAdd
  <2>6. SumFunctionOnSet(Prices', Sold(mine)) = SumFunctionOnSet(Prices, Sold(mine))
    <3>1. IsFiniteSet(Sold(mine)) /\ \A k \in Sold(mine) : Prices'[k] = Prices[k]
      BY <1>8, <1>9
    <3> QED BY <3>1, SumSame
  <2>7. /\ quote[mine].volume = SumFunctionOnSet(Prices, Sold(mine))
        /\ \A k \in Sold(mine) : quote[mine].low <= trades[k].price /\ trades[k].price <= quote[mine].high
    BY <1>3 DEF QuoteInv, QuoteTellsTrades
  <2> DEFINE q == QuoteAfter(quote[mine], price)
  <2>8. /\ q \in Quote /\ q.last = price
        /\ q.volume = quote[mine].volume + price
        /\ q.low <= quote[mine].low /\ q.low <= price
        /\ q.high >= quote[mine].high /\ q.high >= price
    BY <1>3, <2>1, QuoteAfterIsTyped
  <2> HIDE DEF q
  <2>9. quote'[mine] = q
    BY <2>1 DEF q
  <2>10. /\ quote[mine].volume \in Nat
         /\ quote[mine].low \in Int /\ quote[mine].high \in Int /\ q.low \in Int /\ q.high \in Int
         /\ price \in Int
    BY <1>3, <2>1, <2>8, ExchangeAssumption DEF Quote
  <2>11. quote'[mine].volume = SumFunctionOnSet(Prices', Sold(mine)')
    BY <1>8, <2>5, <2>6, <2>7, <2>8, <2>9, <2>10
  <2>12. \A k \in Sold(mine)' : q.low <= trades'[k].price /\ trades'[k].price <= q.high
    <3> TAKE k \in Sold(mine)'
    <3>1. CASE k = n
      BY <2>4, <2>8, <3>1
    <3>2. CASE k \in Sold(mine)
      <4>1. trades'[k].price = trades[k].price /\ trades[k].price \in Int
        BY <1>8, <1>9, <3>2, ExchangeAssumption DEF Prices
      <4> QED BY <2>7, <2>8, <2>10, <3>2, <4>1
    <3> QED BY <2>2, <3>1, <3>2
  <2> QED BY <2>2, <2>3, <2>4, <2>8, <2>9, <2>11, <2>12
<1>13. QuoteTellsTrades'
  BY <1>11, <1>12 DEF QuoteTellsTrades
<1>14. quote' \in [Markets -> Quote]
  BY <1>3, <1>10 DEF QuoteInv
<1> QED BY <1>13, <1>14 DEF QuoteInv

\* A market without trades opens at the face value.
LEMMA OpeningQuoteTells ==
    ASSUME trades = << >>, quote = OpeningQuote
    PROVE  QuoteInv
<1>1. \A m : Sold(m) = {}
  BY DEF Sold
<1>2. Face \in 1 .. Face /\ 0 \in Nat
  BY ExchangeAssumption
<1> DEFINE q == [last |-> Face, high |-> Face, low |-> Face, volume |-> 0]
<1>3. q \in Quote /\ q.last = Face /\ q.volume = 0
  BY <1>2 DEF Quote
<1> HIDE DEF q
<1>4. quote = [m \in Markets |-> q]
  BY DEF OpeningQuote, q
<1>5. SumFunctionOnSet(Prices, {}) = 0
  BY SumEmpty
<1>6. QuoteTellsTrades
  BY <1>1, <1>3, <1>4, <1>5 DEF QuoteTellsTrades
<1> QED BY <1>3, <1>4, <1>6 DEF QuoteInv

-----------------------------------------------------------------------------
(* The invariant and what follows from it.                                 *)

\* Every step keeps the store.
LEMMA ExchangeInvHolds == Spec => []ExchangeInv
<1>1. Init => ExchangeInv
  <2> SUFFICES ASSUME Init
               PROVE  ExchangeInv
    OBVIOUS
  <2>1. StoreOK /\ SoldOnce
    BY SeedsAreTyped DEF Init, StoreOK, SoldOnce
  <2>2. PagesOK
    BY DEF Init, PagesOK, Buying
  <2> QED BY <2>1, <2>2 DEF ExchangeInv
<1>2. ExchangeInv /\ [Next]_vars => ExchangeInv'
  <2> SUFFICES ASSUME StoreOK, PagesOK, SoldOnce, [Next]_vars
               PROVE  ExchangeInv'
    BY DEF ExchangeInv
  <2>1. CASE UNCHANGED vars
    BY <2>1 DEF ExchangeInv, StoreOK, PagesOK, SoldOnce, vars, store
  <2>2. CASE Next
    <3>1. ASSUME UNCHANGED <<listings, trades>>
          PROVE  StoreOK' /\ SoldOnce'
      BY <3>1 DEF StoreOK, SoldOnce
    <3>2. StoreOK' /\ SoldOnce'
      <4>1. ASSUME NEW w \in Wallets, NEW ask \in Asks, NEW m \in Markets, List(w, ask, m)
            PROVE  StoreOK' /\ SoldOnce'
        BY <4>1, ListKeepsStore
      <4>2. ASSUME NEW k \in DOMAIN trades, Mention(k)
            PROVE  StoreOK' /\ SoldOnce'
        BY <3>1, <4>2 DEF Mention, store
      <4>3. ASSUME NEW w \in Wallets, NEW i \in DOMAIN listings, Cancel(w, i)
            PROVE  StoreOK' /\ SoldOnce'
        BY <4>3, CancelKeepsStore
      <4>4. ASSUME NEW w \in Wallets, Refresh(w)
            PROVE  StoreOK' /\ SoldOnce'
        BY <3>1, <4>4 DEF Refresh, store
      <4>5. ASSUME NEW w \in Wallets, NEW o \in screen[w], Choose(w, o)
            PROVE  StoreOK' /\ SoldOnce'
        BY <3>1, <4>5 DEF Choose, store
      <4>6. ASSUME NEW w \in Wallets, Filled(w) \/ FilledUnheard(w)
            PROVE  StoreOK' /\ SoldOnce'
        BY <4>6, FillKeepsStore DEF Filled, FilledUnheard
      <4>7. ASSUME NEW w \in Wallets,
                   Refused(w) \/ Pay(w) \/ PaymentGivenUp(w) \/ Confirmed(w)
            PROVE  StoreOK' /\ SoldOnce'
        BY <3>1, <4>7 DEF Refused, Pay, PaymentGivenUp, Confirmed, store
      <4>8. ASSUME NEW p \in transfers, Land(p) \/ Miss(p)
            PROVE  StoreOK' /\ SoldOnce'
        BY <3>1, <4>8 DEF Land, Miss, store
      <4>9. ASSUME NEW k \in DOMAIN trades, Told(k)
            PROVE  StoreOK' /\ SoldOnce'
        BY <4>9, ReportKeepsStore
      <4>10. ASSUME Restart
             PROVE  StoreOK' /\ SoldOnce'
        BY <4>10, RestartKeepsStore DEF Restart
      <4> QED BY <2>2, <4>1, <4>2, <4>3, <4>4, <4>5, <4>6, <4>7, <4>8, <4>9, <4>10,
                 ReportsAreTold DEF Next
    <3> QED BY <2>2, <3>2, PagesStayTyped DEF ExchangeInv
  <2> QED BY <2>1, <2>2
<1> QED BY <1>1, <1>2, PTL DEF Spec

\* An order is sold once, to whoever asked first, and the trade repeats its seller
\* and its price (fillListing, exchange-store.ts:345-382).
THEOREM OrdersAreSoldOnce == Spec => []OrdersSellOnce
<1>1. ExchangeInv => OrdersSellOnce
  <2> DEFINE Sales(i) == {k \in DOMAIN trades : trades[k].listing = i}
  <2> SUFFICES ASSUME ExchangeInv, NEW i \in DOMAIN listings
               PROVE  /\ Cardinality(Sales(i)) = (IF listings[i].status = "filled" THEN 1 ELSE 0)
                      /\ \A k \in Sales(i) : /\ trades[k].seller = listings[i].seller
                                             /\ trades[k].price = listings[i].ask
    BY DEF OrdersSellOnce
  <2>1. SoldOnce
    BY DEF ExchangeInv
  <2>2. \A k \in Sales(i) : /\ trades[k].seller = listings[i].seller
                            /\ trades[k].price = listings[i].ask
    BY <2>1 DEF SoldOnce
  <2>3. CASE listings[i].status = "filled"
    <3>1. PICK k \in DOMAIN trades : trades[k].listing = i
      BY <2>1, <2>3 DEF SoldOnce
    <3>2. Sales(i) = {k}
      BY <2>1, <3>1 DEF SoldOnce
    <3>3. Cardinality(Sales(i)) = 1
      BY <3>2, FS_Singleton
    <3> HIDE DEF Sales
    <3> QED BY <2>2, <2>3, <3>3
  <2>4. CASE listings[i].status # "filled"
    <3>1. Sales(i) = {}
      BY <2>1, <2>4 DEF SoldOnce
    <3>2. Cardinality(Sales(i)) = 0
      BY <3>1, FS_EmptySet
    <3> HIDE DEF Sales
    <3> QED BY <2>2, <2>4, <3>2
  <2> QED BY <2>3, <2>4
<1> QED BY <1>1, ExchangeInvHolds, PTL

\* Every step keeps the figures.
LEMMA QuoteInvHolds == Spec => []QuoteInv
<1>1. Init => QuoteInv
  BY OpeningQuoteTells DEF Init
<1>2. ExchangeInv /\ ExchangeInv' /\ QuoteInv /\ [Next]_vars => QuoteInv'
  <2> SUFFICES ASSUME StoreOK, PagesOK, StoreOK', SoldOnce, QuoteInv, [Next]_vars
               PROVE  QuoteInv'
    BY DEF ExchangeInv
  <2>1. ASSUME UNCHANGED store
        PROVE  QuoteInv'
    BY <2>1 DEF store, QuoteInv, QuoteTellsTrades, Sold, Prices
  <2>2. ASSUME trades' = trades, quote' = quote,
               \A i \in DOMAIN listings : listings'[i].market = listings[i].market
        PROVE  QuoteInv'
    BY <2>2, SameSalesKeepQuote DEF StoreOK
  <2>3. ASSUME NEW w \in Wallets, NEW ask \in Asks, NEW m \in Markets, List(w, ask, m)
        PROVE  QuoteInv'
    <3> DEFINE new == [seller |-> w, ask |-> ask, market |-> m, status |-> "active"]
    <3>1. listings' = Append(listings, new) /\ trades' = trades /\ quote' = quote
      BY <2>3 DEF List
    <3> HIDE DEF new
    <3>2. \A i \in DOMAIN listings : listings'[i] = listings[i]
      BY <3>1 DEF StoreOK
    <3> QED BY <2>2, <3>1, <3>2
  <2>4. ASSUME NEW w \in Wallets, NEW i \in DOMAIN listings, Cancel(w, i)
        PROVE  QuoteInv'
    <3>1. listings[i] \in Listing
      BY DEF StoreOK
    <3>2. listings' = [listings EXCEPT ![i].status = "cancelled"]
      BY <2>4 DEF Cancel
    <3>3. PICK new : listings' = [listings EXCEPT ![i] = new] /\ new.market = listings[i].market
      <4>1. [listings[i] EXCEPT !.status = "cancelled"].market = listings[i].market
        BY <3>1 DEF Listing
      <4> QED BY <3>2, <4>1
    <3>4. \A j \in DOMAIN listings : listings'[j].market = listings[j].market
      BY <3>3 DEF StoreOK
    <3> QED BY <2>2, <2>4, <3>4 DEF Cancel
  <2>5. ASSUME NEW w \in Wallets, Filled(w) \/ FilledUnheard(w)
        PROVE  QuoteInv'
    BY <2>5, FillKeepsQuote DEF Filled, FilledUnheard
  <2>6. ASSUME NEW k \in DOMAIN trades, Told(k)
        PROVE  QuoteInv'
    BY <2>6, ReportKeepsStore, SameSalesKeepQuote
  <2>7. CASE Restart
    <3>1. trades' = << >> /\ quote' = OpeningQuote
      BY <2>7 DEF Restart
    <3>2. (trades = << >> /\ quote = OpeningQuote => QuoteInv)'
      BY OpeningQuoteTells, PTL
    <3> QED BY <3>1, <3>2 DEF OpeningQuote
  <2> QED BY <2>1, <2>3, <2>4, <2>5, <2>6, <2>7, ReportsAreTold
          DEF Next, vars, Refresh, Choose, Refused, Pay, PaymentGivenUp, Confirmed, Land, Miss,
              Mention
<1> QED BY <1>1, <1>2, ExchangeInvHolds, PTL DEF Spec

\* The figures of a market tell its trades, over any number of sales and cold starts
\* (fillListing, exchange-store.ts:365-380).
THEOREM QuotesTellTheTrades == Spec => []QuoteTellsTrades
<1>1. QuoteInv => QuoteTellsTrades
  BY DEF QuoteInv
<1> QED BY <1>1, QuoteInvHolds, PTL

\* While the process lives an order that was sold or cancelled stays so, whoever
\* asks for it again (fillListing, cancelListing, exchange-store.ts:298-301, 345-349).
THEOREM OrdersStayEnded == Spec => OrdersEndOnce
<1> DEFINE Ended ==
        restarts' = restarts =>
            \A i \in DOMAIN listings :
                listings[i].status # "active" => listings'[i].status = listings[i].status
<1>1. ExchangeInv /\ [Next]_vars => [Ended]_vars
  <2> SUFFICES ASSUME StoreOK, PagesOK, Next, restarts' = restarts,
                      NEW i \in DOMAIN listings, listings[i].status # "active"
               PROVE  listings'[i].status = listings[i].status
    BY DEF ExchangeInv
  <2>1. listings[i] \in Listing
    BY DEF StoreOK
  <2>2. CASE UNCHANGED listings
    BY <2>2
  <2>3. ASSUME NEW w \in Wallets, NEW ask \in Asks, NEW m \in Markets, List(w, ask, m)
        PROVE  listings'[i].status = listings[i].status
    BY <2>3 DEF List, StoreOK
  <2>4. ASSUME NEW k \in DOMAIN trades, Told(k)
        PROVE  listings'[i].status = listings[i].status
    BY <2>4, TellingIsQuiet
  <2>5. ASSUME NEW w \in Wallets, NEW j \in DOMAIN listings, Cancel(w, j)
        PROVE  listings'[i].status = listings[i].status
    BY <2>5 DEF Cancel, Cancellable, StoreOK
  <2>6. ASSUME NEW w \in Wallets, Fill(w)
        PROVE  listings'[i].status = listings[i].status
    BY <2>6 DEF Fill, Fillable, StoreOK
  <2>7. CASE Restart
    <3>1. restarts \in Nat /\ restarts' = restarts + 1
      BY <2>7 DEF Restart, PagesOK
    <3> QED BY <3>1
  <2> QED BY <2>2, <2>3, <2>4, <2>5, <2>6, <2>7, ReportsAreTold
          DEF Next, Refresh, Choose, Filled, FilledUnheard, Refused, Pay, PaymentGivenUp,
              Confirmed, Land, Miss, Mention, store
<1>2. Spec => [][Ended]_vars
  BY <1>1, ExchangeInvHolds, PTL DEF Spec
<1> QED BY <1>2 DEF OrdersEndOnce

-----------------------------------------------------------------------------
(* The payments, across any number of purchases and cold starts: nobody      *)
(* pays or gets notes without a trade, nothing is paid twice, and a badge    *)
(* tells a payment or a mention.                                             *)
(*                                                                           *)
(* Ids of orders and trades start again after a cold start, settlement ids   *)
(* do not.  So the argument follows the settlements: each purchase under way *)
(* has one of its own, which no trade carries while the page asks and no     *)
(* transfer carries while it has not paid.                                   *)

MoneyOK ==
    /\ vault \in [Wallets -> SUBSET Nat]
    /\ transfers \subseteq Transfer
    /\ memos \subseteq 1 .. begun
    /\ forgotten \subseteq Trade

\* The settlements of the trades were handed out, each to one buyer.
TradesApart ==
    /\ \A t \in EveryTrade : t.settlement \in 1 .. begun
    /\ \A t, u \in EveryTrade : t.settlement = u.settlement => t.buyer = u.buyer

Busy(w) == buying[w].at # "idle"

\* So were those of the purchases under way, and no two share one.
PurchasesApart ==
    /\ \A w \in Wallets : Busy(w) => buying[w].settlement \in 1 .. begun
    /\ \A w, v \in Wallets :
          Busy(w) /\ Busy(v) /\ buying[w].settlement = buying[v].settlement => w = v

\* What a page still has to do was not done before.
NothingTwice ==
    /\ \A w \in Wallets :
          buying[w].at = "asking" =>
              \A t \in EveryTrade : t.settlement # buying[w].settlement
    /\ \A w \in Wallets :
          buying[w].at = "paying" =>
              /\ buying[w].settlement \in vault[w]
              /\ \A p \in transfers : p.settlement # buying[w].settlement

PaymentInv ==
    /\ MoneyOK
    /\ TradesApart
    /\ PurchasesApart
    /\ NothingTwice
    /\ PaymentsFollowFills
    /\ VerifiedWasPaid

-----------------------------------------------------------------------------
(* Trades.                                                                 *)

\* A purchase under way has an offer, a trade and a settlement.
LEMMA BusyIsTyped ==
    ASSUME PagesOK, NEW w \in Wallets, Busy(w)
    PROVE  buying[w] \in [at : {"asking", "paying", "confirming"},
                          offer : Offer, trade : Nat, settlement : Nat]
BY DEF PagesOK, Busy, Buying, Idle

\* All trades, those of earlier lives too, have the fields of a trade.
LEMMA TradesAreTyped ==
    ASSUME StoreOK, MoneyOK
    PROVE  EveryTrade \subseteq Trade
BY DEF StoreOK, MoneyOK, EveryTrade, ToSet

\* A sale adds its trade to those there ever were.
LEMMA FillAddsTrade ==
    ASSUME StoreOK, PagesOK, NEW w \in Wallets, Fill(w), UNCHANGED forgotten
    PROVE  \E t \in Trade : /\ EveryTrade' = EveryTrade \cup {t}
                            /\ t.settlement = buying[w].settlement
                            /\ t.buyer = w /\ t.verified = FALSE
<1> DEFINE i == buying[w].offer.id
           t == TradeOf(w, i)
<1>1. /\ i \in DOMAIN listings
      /\ trades' = Append(trades, t)
  BY DEF Fill, Fillable
<1>2. buying[w] \in [at : {"asking", "paying", "confirming"},
                     offer : Offer, trade : Nat, settlement : Nat]
  BY DEF PagesOK, Fill, Buying, Idle
<1>3. listings[i] \in Listing /\ i \in Nat
  BY <1>1 DEF StoreOK
<1>4. t \in Trade
  BY <1>2, <1>3 DEF TradeOf, Trade, Signature, Listing
<1>5. t.settlement = buying[w].settlement /\ t.buyer = w /\ t.verified = FALSE
  BY DEF TradeOf
<1> HIDE DEF i, t
<1>6. /\ DOMAIN trades' = DOMAIN trades \cup {Len(trades) + 1}
      /\ trades'[Len(trades) + 1] = t
      /\ \A k \in DOMAIN trades : trades'[k] = trades[k]
  BY <1>1, <1>4 DEF StoreOK
<1>7. EveryTrade' = EveryTrade \cup {t}
  BY <1>6 DEF EveryTrade, ToSet
<1> QED BY <1>4, <1>5, <1>7

\* A cold start moves the trades to the forgotten ones.
LEMMA RestartKeepsTrades ==
    ASSUME Restart
    PROVE  EveryTrade' = EveryTrade
BY DEF Restart, EveryTrade, ToSet

\* A report leaves every trade its settlement and its buyer, and gives a badge
\* only for what is on the chain.
LEMMA ReportKeepsTrades ==
    ASSUME StoreOK, PagesOK, MoneyOK, NEW j \in DOMAIN trades, Told(j)
    PROVE  /\ \A t \in EveryTrade : \E u \in EveryTrade' :
                 u.settlement = t.settlement /\ u.buyer = t.buyer
           /\ \A u \in EveryTrade' : \E t \in EveryTrade :
                 /\ u.settlement = t.settlement /\ u.buyer = t.buyer
                 /\ u.verified => t.verified \/ ChainTells(t)
<1>2. forgotten' = forgotten
  BY TellingIsQuiet
<1>4. PICK v \in Trade :
          /\ trades' = [trades EXCEPT ![j] = v]
          /\ v.settlement = trades[j].settlement
          /\ v.buyer = trades[j].buyer
          /\ v.verified => trades[j].verified \/ ChainTells(trades[j])
  BY ReportChangesOneTrade
<1>5. /\ DOMAIN trades' = DOMAIN trades
      /\ \A k \in DOMAIN trades : trades'[k] = IF k = j THEN v ELSE trades[k]
  <2>1. trades' = [trades EXCEPT ![j] = v]
    BY <1>4
  <2> QED BY <2>1 DEF StoreOK
<1>6. ASSUME NEW t \in EveryTrade
      PROVE  \E u \in EveryTrade' : u.settlement = t.settlement /\ u.buyer = t.buyer
  <2>1. CASE t \in forgotten
    BY <1>2, <2>1 DEF EveryTrade
  <2>2. CASE t \in ToSet(trades)
    <3>1. PICK k \in DOMAIN trades : t = trades[k]
      BY <2>2 DEF ToSet
    <3>2. trades'[k] \in EveryTrade'
      BY <1>5, <3>1 DEF EveryTrade, ToSet
    <3> QED BY <1>4, <1>5, <3>1, <3>2
  <2> QED BY <2>1, <2>2 DEF EveryTrade
<1>7. ASSUME NEW u \in EveryTrade'
      PROVE  \E t \in EveryTrade :
                 /\ u.settlement = t.settlement /\ u.buyer = t.buyer
                 /\ u.verified => t.verified \/ ChainTells(t)
  <2>1. CASE u \in forgotten'
    BY <1>2, <2>1 DEF EveryTrade
  <2>2. CASE u \in ToSet(trades')
    <3>1. PICK k \in DOMAIN trades : u = trades'[k]
      BY <1>5, <2>2 DEF ToSet
    <3>2. trades[k] \in EveryTrade
      BY <3>1 DEF EveryTrade, ToSet
    <3> QED BY <1>4, <1>5, <3>1, <3>2
  <2> QED BY <2>1, <2>2 DEF EveryTrade
<1> QED BY <1>6, <1>7


-----------------------------------------------------------------------------
(* What the steps make of the payments.                                    *)

\* Most steps neither sell nor pay: at most they end a purchase under way.
LEMMA QuietStepsKeepPayments ==
    ASSUME PagesOK, PaymentInv,
           EveryTrade' = EveryTrade, forgotten' \subseteq Trade,
           UNCHANGED <<vault, transfers, begun>>,
           memos \subseteq memos', memos' \subseteq 1 .. begun,
           \A w \in Wallets : buying'[w] \in {buying[w], Idle}
    PROVE  PaymentInv'
<1> USE DEF PaymentInv
<1>1. \A w \in Wallets : /\ Busy(w)' => Busy(w) /\ buying'[w] = buying[w]
                         /\ buying'[w].at \in {"asking", "paying"} => Busy(w)'
  BY DEF Busy, Idle
<1>2. MoneyOK'
  BY DEF MoneyOK
<1>3. TradesApart'
  BY DEF TradesApart
<1>4. PurchasesApart'
  BY <1>1 DEF PurchasesApart
<1>5. NothingTwice'
  BY <1>1 DEF NothingTwice
<1>6. PaymentsFollowFills'
  BY DEF PaymentsFollowFills
<1>7. VerifiedWasPaid'
  BY DEF VerifiedWasPaid
<1> QED BY <1>2, <1>3, <1>4, <1>5, <1>6, <1>7

\* A new purchase gets a settlement nobody has.
LEMMA ChooseKeepsPayments ==
    ASSUME StoreOK, PagesOK, PaymentInv, NEW w \in Wallets, NEW o \in screen[w], Choose(w, o)
    PROVE  PaymentInv'
<1> USE DEF PaymentInv
<1>1. /\ begun \in Nat /\ begun' = begun + 1
      /\ UNCHANGED <<trades, forgotten, vault, transfers, memos>>
  BY DEF Choose, PagesOK, store, chain
<1>2. /\ buying'[w].at = "asking" /\ buying'[w].settlement = begun + 1
      /\ \A v \in Wallets \ {w} : buying'[v] = buying[v]
  BY DEF Choose, PagesOK
<1>3. EveryTrade' = EveryTrade
  BY <1>1 DEF EveryTrade, ToSet
<1>4. MoneyOK'
  BY <1>1 DEF MoneyOK
<1>5. TradesApart'
  BY <1>1, <1>3 DEF TradesApart
<1>6. PurchasesApart'
  BY <1>1, <1>2 DEF PurchasesApart, Busy
<1>7. NothingTwice'
  <2>1. \A t \in EveryTrade : t.settlement # begun + 1
    BY <1>1 DEF TradesApart
  <2> QED BY <1>1, <1>2, <1>3, <2>1 DEF NothingTwice
<1>8. PaymentsFollowFills'
  BY <1>1, <1>3 DEF PaymentsFollowFills
<1>9. VerifiedWasPaid'
  BY <1>1, <1>3 DEF VerifiedWasPaid
<1> QED BY <1>4, <1>5, <1>6, <1>7, <1>8, <1>9

\* A sale adds a trade with a settlement no other trade, vault or transfer has.
LEMMA FillKeepsPayments ==
    ASSUME StoreOK, PagesOK, PaymentInv, NEW w \in Wallets, Filled(w) \/ FilledUnheard(w)
    PROVE  PaymentInv'
<1> USE DEF PaymentInv
<1> DEFINE s == buying[w].settlement
<1>1. /\ Fill(w) /\ buying[w].at = "asking" /\ Busy(w)
      /\ UNCHANGED <<forgotten, transfers, memos, begun>>
  BY DEF Filled, FilledUnheard, Fill, Busy, chain
<1>2. PICK t \in Trade : /\ EveryTrade' = EveryTrade \cup {t}
                         /\ t.settlement = s /\ t.buyer = w /\ t.verified = FALSE
  BY <1>1, FillAddsTrade
<1>3. /\ s \in 1 .. begun
      /\ \A u \in EveryTrade : u.settlement # s
  BY <1>1 DEF PurchasesApart, NothingTwice
<1>4. /\ \A v \in Wallets \ {w} : buying'[v] = buying[v] /\ vault'[v] = vault[v]
      /\ \/ buying'[w] = Idle /\ vault'[w] = vault[w]
         \/ /\ buying'[w].at = "paying" /\ buying'[w].settlement = s
            /\ vault'[w] = vault[w] \cup {s}
  <2>1. buying[w] \in [at : {"asking", "paying", "confirming"},
                       offer : Offer, trade : Nat, settlement : Nat]
    BY <1>1, BusyIsTyped
  <2>2. CASE Filled(w)
    <3>1. buying'[w] = [buying[w] EXCEPT !.at = "paying", !.trade = Len(trades')]
      BY <2>2 DEF Filled, PagesOK
    <3>2. buying'[w].at = "paying" /\ buying'[w].settlement = s
      BY <2>1, <3>1
    <3>3. /\ \A v \in Wallets \ {w} : buying'[v] = buying[v] /\ vault'[v] = vault[v]
          /\ vault'[w] = vault[w] \cup {s}
      BY <2>2 DEF Filled, PagesOK, MoneyOK
    <3> QED BY <3>2, <3>3
  <2>3. CASE FilledUnheard(w)
    BY <2>3 DEF FilledUnheard, PagesOK
  <2> QED BY <2>2, <2>3
<1>5. \A v \in Wallets : s \notin vault[v]
  BY <1>3 DEF PaymentsFollowFills
<1>6. \A p \in transfers : p.settlement # s
  BY <1>5 DEF PaymentsFollowFills, MoneyOK, Transfer
<1>7. MoneyOK'
  <2>1. s \in Nat
    BY <1>3
  <2>2. vault' \in [Wallets -> SUBSET Nat]
    <3>1. vault' = vault \/ vault' = [vault EXCEPT ![w] = @ \cup {s}]
      BY DEF Filled, FilledUnheard
    <3> QED BY <2>1, <3>1 DEF MoneyOK
  <2> QED BY <1>1, <2>2 DEF MoneyOK
<1>8. TradesApart'
  BY <1>1, <1>2, <1>3 DEF TradesApart
<1>9. PurchasesApart'
  <2>1. \A v \in Wallets : Busy(v)' => Busy(v) /\ buying'[v].settlement = buying[v].settlement
    BY <1>1, <1>4 DEF Busy, Idle
  <2> QED BY <1>1, <2>1 DEF PurchasesApart
<1>10. NothingTwice'
  <2>1. ASSUME NEW v \in Wallets, buying'[v].at = "asking"
        PROVE  \A u \in EveryTrade' : u.settlement # buying'[v].settlement
    <3>1. v # w /\ buying'[v] = buying[v]
      BY <1>4, <2>1 DEF Idle
    <3>2. buying[v].settlement # s
      BY <1>1, <2>1, <3>1 DEF PurchasesApart, Busy
    <3> QED BY <1>2, <2>1, <3>1, <3>2 DEF NothingTwice
  <2>2. ASSUME NEW v \in Wallets, buying'[v].at = "paying"
        PROVE  /\ buying'[v].settlement \in vault'[v]
               /\ \A p \in transfers' : p.settlement # buying'[v].settlement
    <3>1. CASE v = w
      BY <1>1, <1>4, <1>6, <2>2, <3>1 DEF Idle
    <3>2. CASE v # w
      BY <1>1, <1>4, <2>2, <3>2 DEF NothingTwice
    <3> QED BY <3>1, <3>2
  <2> QED BY <2>1, <2>2 DEF NothingTwice
<1>11. PaymentsFollowFills'
  <2>1. ASSUME NEW v \in Wallets, NEW x \in vault'[v]
        PROVE  \E u \in EveryTrade' : u.settlement = x /\ u.buyer = v
    <3>1. CASE x \in vault[v]
      BY <1>2, <3>1 DEF PaymentsFollowFills
    <3>2. CASE x \notin vault[v]
      <4>1. v = w /\ x = s
        BY <1>4, <2>1, <3>2
      <4> QED BY <1>2, <4>1
    <3> QED BY <3>1, <3>2
  <2>2. \A p \in transfers' : p.settlement \in vault'[p.from]
    <3>1. \A v \in Wallets : \A x \in vault[v] : x \in vault'[v]
      BY <1>4
    <3> QED BY <1>1, <3>1 DEF PaymentsFollowFills, MoneyOK, Transfer
  <2> QED BY <1>1, <2>1, <2>2 DEF PaymentsFollowFills
<1>12. VerifiedWasPaid'
  BY <1>1, <1>2 DEF VerifiedWasPaid
<1> QED BY <1>7, <1>8, <1>9, <1>10, <1>11, <1>12

\* A payment is for notes the payer holds, and the first for them.
LEMMA PayKeepsPayments ==
    ASSUME StoreOK, PagesOK, PaymentInv, NEW w \in Wallets, Pay(w)
    PROVE  PaymentInv'
<1> USE DEF PaymentInv
<1> DEFINE s == buying[w].settlement
           new == Payment(w)
<1>1. /\ buying[w].at = "paying" /\ Busy(w)
      /\ transfers' = transfers \cup {new}
      /\ UNCHANGED <<trades, forgotten, vault, memos, begun>>
  BY DEF Pay, Busy, store
<1>2. buying[w] \in [at : {"asking", "paying", "confirming"},
                     offer : Offer, trade : Nat, settlement : Nat]
  BY <1>1, BusyIsTyped
<1>3. new.settlement = s /\ new.from = w /\ new.status = "sent"
  BY DEF Payment
<1>4. new \in Transfer
  <2>1. Recipient(w, buying[w].offer) \in Wallets
    BY <1>2 DEF Recipient, Offer, Sellers
  <2>2. buying[w].offer.ask \in 1 .. Face
    BY <1>2 DEF Offer
  <2> QED BY <1>2, <2>1, <2>2 DEF Payment, Transfer
<1> HIDE DEF new
<1>5. /\ s \in vault[w]
      /\ \A p \in transfers : p.settlement # s
  BY <1>1 DEF NothingTwice
<1>6. /\ buying'[w].at = "confirming" /\ buying'[w].settlement = s
      /\ \A v \in Wallets \ {w} : buying'[v] = buying[v]
  <2>1. buying'[w] = [buying[w] EXCEPT !.at = "confirming"]
    BY DEF Pay, PagesOK
  <2>2. \A v \in Wallets \ {w} : buying'[v] = buying[v]
    BY DEF Pay, PagesOK
  <2> QED BY <1>2, <2>1, <2>2
<1>7. EveryTrade' = EveryTrade
  BY <1>1 DEF EveryTrade, ToSet
<1>8. MoneyOK'
  BY <1>1, <1>4 DEF MoneyOK
<1>9. TradesApart'
  BY <1>1, <1>7 DEF TradesApart
<1>10. PurchasesApart'
  <2>1. \A v \in Wallets : Busy(v)' => Busy(v) /\ buying'[v].settlement = buying[v].settlement
    BY <1>1, <1>6 DEF Busy
  <2> QED BY <1>1, <2>1 DEF PurchasesApart
<1>11. NothingTwice'
  <2>1. ASSUME NEW v \in Wallets, buying'[v].at = "asking"
        PROVE  \A u \in EveryTrade' : u.settlement # buying'[v].settlement
    BY <1>6, <1>7, <2>1 DEF NothingTwice
  <2>2. ASSUME NEW v \in Wallets, buying'[v].at = "paying"
        PROVE  /\ buying'[v].settlement \in vault'[v]
               /\ \A p \in transfers' : p.settlement # buying'[v].settlement
    <3>1. v # w /\ buying'[v] = buying[v]
      BY <1>6, <2>2
    <3>2. buying[v].settlement # s
      BY <1>1, <2>2, <3>1 DEF PurchasesApart, Busy
    <3> QED BY <1>1, <1>3, <2>2, <3>1, <3>2 DEF NothingTwice
  <2> QED BY <2>1, <2>2 DEF NothingTwice
<1>12. PaymentsFollowFills'
  <2>1. \A p, q \in transfers' : p.settlement = q.settlement => p = q
    BY <1>1, <1>3, <1>5 DEF PaymentsFollowFills
  <2> QED BY <1>1, <1>3, <1>5, <1>7, <2>1 DEF PaymentsFollowFills
<1>13. VerifiedWasPaid'
  BY <1>1, <1>7 DEF VerifiedWasPaid
<1> QED BY <1>8, <1>9, <1>10, <1>11, <1>12, <1>13

\* The chain decides a payment that was sent, and leaves its settlement and its payer.
LEMMA ChainKeepsPayments ==
    ASSUME StoreOK, PagesOK, PaymentInv, NEW p \in transfers, Land(p) \/ Miss(p)
    PROVE  PaymentInv'
<1> USE DEF PaymentInv
<1>1. /\ p.status = "sent"
      /\ UNCHANGED <<trades, forgotten, vault, memos, begun, buying>>
  BY DEF Land, Miss, store
<1>2. PICK q \in Transfer : /\ transfers' = (transfers \ {p}) \cup {q}
                            /\ q.settlement = p.settlement /\ q.from = p.from
  <2>1. p \in Transfer
    BY DEF MoneyOK
  <2>2. PICK status \in {"landed", "failed"} : transfers' = Become(p, status)
    BY DEF Land, Miss
  <2> DEFINE q == [p EXCEPT !.status = status]
  <2>3. q \in Transfer /\ q.settlement = p.settlement /\ q.from = p.from
    BY <2>1 DEF Transfer
  <2>4. transfers' = (transfers \ {p}) \cup {q}
    BY <2>2 DEF Become
  <2> QED BY <2>3, <2>4
<1>3. EveryTrade' = EveryTrade
  BY <1>1 DEF EveryTrade, ToSet
<1>4. \A x \in transfers' : \E y \in transfers : x.settlement = y.settlement /\ x.from = y.from
  BY <1>2
<1>5. MoneyOK'
  BY <1>1, <1>2 DEF MoneyOK
<1>6. TradesApart'
  BY <1>1, <1>3 DEF TradesApart
<1>7. PurchasesApart'
  BY <1>1 DEF PurchasesApart, Busy
<1>8. NothingTwice'
  BY <1>1, <1>3, <1>4 DEF NothingTwice
<1>9. PaymentsFollowFills'
  <2>1. \A x \in transfers' : x.settlement \in vault'[x.from]
    BY <1>1, <1>4 DEF PaymentsFollowFills
  <2>2. \A x, y \in transfers' : x.settlement = y.settlement => x = y
    BY <1>2 DEF PaymentsFollowFills
  <2> QED BY <1>1, <1>3, <2>1, <2>2 DEF PaymentsFollowFills
<1>10. VerifiedWasPaid'
  BY <1>1, <1>2, <1>3 DEF VerifiedWasPaid
<1> QED BY <1>5, <1>6, <1>7, <1>8, <1>9, <1>10

\* The payment of a settlement came from the buyer of every trade that carries it.
LEMMA PaidByTheBuyer ==
    ASSUME PaymentInv, NEW t \in EveryTrade, ChainTells(t)
    PROVE  \/ t.settlement \in memos
           \/ \E p \in transfers : /\ p.settlement = t.settlement
                                   /\ p.from = t.buyer
                                   /\ p.status = "landed"
<1> SUFFICES ASSUME t.settlement \notin memos
             PROVE  \E p \in transfers : /\ p.settlement = t.settlement
                                         /\ p.from = t.buyer
                                         /\ p.status = "landed"
  OBVIOUS
<1>1. PICK p \in transfers : p.settlement = t.settlement /\ p.status = "landed"
  BY DEF ChainTells
<1>2. p.from \in Wallets /\ p.settlement \in vault[p.from]
  BY DEF PaymentInv, MoneyOK, Transfer, PaymentsFollowFills
<1>3. PICK u \in EveryTrade : u.settlement = p.settlement /\ u.buyer = p.from
  BY <1>2 DEF PaymentInv, PaymentsFollowFills
<1>4. u.buyer = t.buyer
  BY <1>1, <1>3 DEF PaymentInv, TradesApart
<1> QED BY <1>1, <1>3, <1>4

\* A report gives a badge only to a trade whose payment landed or whose settlement
\* something else mentions.
LEMMA ReportKeepsPayments ==
    ASSUME StoreOK, PagesOK, PaymentInv, NEW j \in DOMAIN trades, Told(j)
    PROVE  PaymentInv'
<1> USE DEF PaymentInv
<1>1. UNCHANGED <<forgotten, vault, transfers, memos, begun, buying>>
  BY TellingIsQuiet DEF chain
<1>2. /\ \A t \in EveryTrade : \E u \in EveryTrade' :
            u.settlement = t.settlement /\ u.buyer = t.buyer
      /\ \A u \in EveryTrade' : \E t \in EveryTrade :
            /\ u.settlement = t.settlement /\ u.buyer = t.buyer
            /\ u.verified => t.verified \/ ChainTells(t)
  BY ReportKeepsTrades
<1>3. MoneyOK'
  BY <1>1 DEF MoneyOK
<1>4. TradesApart'
  <2>1. ASSUME NEW u \in EveryTrade'
        PROVE  u.settlement \in 1 .. begun'
    BY <1>1, <1>2 DEF TradesApart
  <2>2. ASSUME NEW u \in EveryTrade', NEW v \in EveryTrade', u.settlement = v.settlement
        PROVE  u.buyer = v.buyer
    <3>1. PICK t \in EveryTrade : u.settlement = t.settlement /\ u.buyer = t.buyer
      BY <1>2
    <3>2. PICK x \in EveryTrade : v.settlement = x.settlement /\ v.buyer = x.buyer
      BY <1>2
    <3> QED BY <2>2, <3>1, <3>2 DEF TradesApart
  <2> QED BY <2>1, <2>2 DEF TradesApart
<1>5. PurchasesApart'
  BY <1>1 DEF PurchasesApart, Busy
<1>6. NothingTwice'
  BY <1>1, <1>2 DEF NothingTwice
<1>7. PaymentsFollowFills'
  BY <1>1, <1>2 DEF PaymentsFollowFills
<1>8. VerifiedWasPaid'
  <2> SUFFICES ASSUME NEW u \in EveryTrade', u.verified
               PROVE  \/ u.settlement \in memos
                      \/ \E p \in transfers : /\ p.settlement = u.settlement
                                              /\ p.from = u.buyer /\ p.status = "landed"
    BY <1>1 DEF VerifiedWasPaid
  <2>1. PICK t \in EveryTrade :
            /\ u.settlement = t.settlement /\ u.buyer = t.buyer
            /\ u.verified => t.verified \/ ChainTells(t)
    BY <1>2
  <2>2. t.verified \/ ChainTells(t)
    BY <2>1
  <2>3. u.settlement = t.settlement /\ u.buyer = t.buyer
    BY <2>1
  <2>4. \/ t.settlement \in memos
        \/ \E p \in transfers : /\ p.settlement = t.settlement
                                /\ p.from = t.buyer /\ p.status = "landed"
    BY <2>2, PaidByTheBuyer DEF VerifiedWasPaid
  <2> QED BY <2>3, <2>4
<1> QED BY <1>3, <1>4, <1>5, <1>6, <1>7, <1>8

-----------------------------------------------------------------------------
(* The invariant and what follows from it.                                 *)

\* Every step keeps the payments true.
LEMMA PaymentInvHolds == Spec => []PaymentInv
<1>1. Init => PaymentInv
  <2> SUFFICES ASSUME Init
               PROVE  PaymentInv
    OBVIOUS
  <2>1. EveryTrade = {} /\ transfers = {}
    BY DEF Init, EveryTrade, ToSet
  <2>2. MoneyOK
    BY <2>1 DEF Init, MoneyOK
  <2>3. TradesApart /\ VerifiedWasPaid
    BY <2>1 DEF TradesApart, VerifiedWasPaid
  <2>4. PurchasesApart /\ NothingTwice
    BY DEF Init, PurchasesApart, NothingTwice, Busy, Idle
  <2>5. PaymentsFollowFills
    BY <2>1 DEF Init, PaymentsFollowFills
  <2> QED BY <2>2, <2>3, <2>4, <2>5 DEF PaymentInv
<1>2. ExchangeInv /\ PaymentInv /\ [Next]_vars => PaymentInv'
  <2> SUFFICES ASSUME StoreOK, PagesOK, PaymentInv, [Next]_vars
               PROVE  PaymentInv'
    BY DEF ExchangeInv
  <2>1. ASSUME UNCHANGED <<trades, forgotten, vault, transfers, memos, begun>>,
               \A w \in Wallets : buying'[w] \in {buying[w], Idle}
        PROVE  PaymentInv'
    <3>1. EveryTrade' = EveryTrade /\ forgotten' \subseteq Trade
      BY <2>1 DEF EveryTrade, ToSet, PaymentInv, MoneyOK
    <3>2. memos \subseteq memos' /\ memos' \subseteq 1 .. begun
      BY <2>1 DEF PaymentInv, MoneyOK
    <3> QED BY <2>1, <3>1, <3>2, QuietStepsKeepPayments
  <2>2. CASE UNCHANGED vars
    BY <2>1, <2>2 DEF vars, store, chain
  <2>3. ASSUME NEW w \in Wallets, NEW ask \in Asks, NEW m \in Markets, List(w, ask, m)
        PROVE  PaymentInv'
    BY <2>1, <2>3 DEF List, chain
  <2>4. ASSUME NEW k \in DOMAIN trades, Mention(k)
        PROVE  PaymentInv'
    <3>1. /\ UNCHANGED <<trades, forgotten, vault, transfers, begun, buying>>
          /\ memos' = memos \cup {trades[k].settlement}
      BY <2>4 DEF Mention, store
    <3>2. EveryTrade' = EveryTrade /\ forgotten' \subseteq Trade /\ memos \subseteq 1 .. begun
      BY <3>1 DEF EveryTrade, ToSet, PaymentInv, MoneyOK
    <3>3. trades[k].settlement \in 1 .. begun
      BY DEF PaymentInv, TradesApart, EveryTrade, ToSet
    <3> QED BY <3>1, <3>2, <3>3, QuietStepsKeepPayments
  <2>5. ASSUME NEW w \in Wallets, NEW i \in DOMAIN listings, Cancel(w, i)
        PROVE  PaymentInv'
    BY <2>1, <2>5 DEF Cancel, chain
  <2>6. ASSUME NEW w \in Wallets, Refresh(w)
        PROVE  PaymentInv'
    BY <2>1, <2>6 DEF Refresh, store, chain
  <2>7. ASSUME NEW w \in Wallets, NEW o \in screen[w], Choose(w, o)
        PROVE  PaymentInv'
    BY <2>7, ChooseKeepsPayments
  <2>8. ASSUME NEW w \in Wallets, Filled(w) \/ FilledUnheard(w)
        PROVE  PaymentInv'
    BY <2>8, FillKeepsPayments
  <2>9. ASSUME NEW w \in Wallets, Refused(w) \/ PaymentGivenUp(w) \/ Confirmed(w)
        PROVE  PaymentInv'
    <3>1. UNCHANGED <<trades, forgotten, vault, transfers, memos, begun>>
      BY <2>9 DEF Refused, PaymentGivenUp, Confirmed, store, chain
    <3>2. buying' = [buying EXCEPT ![w] = Idle]
      BY <2>9 DEF Refused, PaymentGivenUp, Confirmed
    <3>3. \A v \in Wallets : buying'[v] \in {buying[v], Idle}
      BY <3>2 DEF PagesOK
    <3> QED BY <2>1, <3>1, <3>3
  <2>10. ASSUME NEW w \in Wallets, Pay(w)
         PROVE  PaymentInv'
    BY <2>10, PayKeepsPayments
  <2>11. ASSUME NEW p \in transfers, Land(p) \/ Miss(p)
         PROVE  PaymentInv'
    BY <2>11, ChainKeepsPayments
  <2>12. ASSUME NEW k \in DOMAIN trades, Told(k)
         PROVE  PaymentInv'
    BY <2>12, ReportKeepsPayments
  <2>13. ASSUME Restart
         PROVE  PaymentInv'
    <3>1. EveryTrade' = EveryTrade
      BY <2>13, RestartKeepsTrades
    <3>2. forgotten' \subseteq Trade
      BY <2>13, TradesAreTyped DEF Restart, EveryTrade, PaymentInv
    <3>3. UNCHANGED <<vault, transfers, memos, begun, buying>>
      BY <2>13 DEF Restart, chain
    <3>4. memos \subseteq memos' /\ memos' \subseteq 1 .. begun
      BY <3>3 DEF PaymentInv, MoneyOK
    <3> QED BY <3>1, <3>2, <3>3, <3>4, QuietStepsKeepPayments
  <2> QED BY <2>2, <2>3, <2>4, <2>5, <2>6, <2>7, <2>8, <2>9, <2>10, <2>11, <2>12, <2>13,
             ReportsAreTold DEF Next
<1> QED BY <1>1, <1>2, ExchangeInvHolds, PTL DEF Spec

\* No payment and no notes without a trade, no trade paid twice, and no badge
\* without a payment of its buyer that landed or another transaction that mentions
\* the settlement, whatever the cold starts do to the ids and whoever asks for
\* badges (handleBuy, exchange/page.tsx:411-530; trades/verify/route.ts:102-121).
THEOREM PaymentsStayTrue == Spec => []PaymentsAreTrue
<1>1. PaymentInv => PaymentsAreTrue
  BY DEF PaymentInv, PaymentsAreTrue
<1> QED BY <1>1, PaymentInvHolds, PTL

-----------------------------------------------------------------------------
(* One life of the process.                                                *)

\* The order of the store that has the id of an offer is that offer.
OnBook(o) ==
    /\ o.id \in DOMAIN listings
    /\ listings[o.id].seller = o.seller
    /\ listings[o.id].ask = o.ask

Agrees(p, t) == p.amount = t.price /\ (t.seller # Demo => p.to = t.seller)

\* What a page has to do with a trade, and what a report says of one.
TradeKnown(w) ==
    /\ buying[w].trade \in DOMAIN trades
    /\ trades[buying[w].trade].settlement = buying[w].settlement
    /\ trades[buying[w].trade].listing = buying[w].offer.id

ReportKnown(r) ==
    /\ r.trade \in DOMAIN trades
    /\ trades[r.trade].settlement = r.sig

AtTrade(w) == buying[w].at \in {"paying", "confirming"}

\* What the pages know of the orders is true, and ids lead to the trade of their purchase.
KnownOrders ==
    /\ \A w \in Wallets : \A o \in screen[w] : OnBook(o)
    /\ \A w \in Wallets : Busy(w) => OnBook(buying[w].offer)

KnownTrades ==
    /\ \A w \in Wallets : AtTrade(w) => TradeKnown(w)
    /\ \A r \in requests : ReportKnown(r)

\* So each trade has its own settlement and only its own payment.
TradesAreTrue ==
    /\ forgotten = {}
    /\ \A j, k \in DOMAIN trades : trades[j].settlement = trades[k].settlement => j = k
    /\ \A k \in DOMAIN trades : trades[k].paymentSig \in {0, Elsewhere, trades[k].settlement}
    /\ \A p \in transfers : \A k \in DOMAIN trades :
          p.settlement = trades[k].settlement => Agrees(p, trades[k])

FirstLife == restarts = 0 => KnownOrders /\ KnownTrades /\ TradesAreTrue

\* A sale is a new trade of the purchase, and leaves the orders their terms.
LEMMA FillIsASale ==
    ASSUME StoreOK, PagesOK, NEW w \in Wallets, Fill(w)
    PROVE  /\ Busy(w) /\ buying[w].at = "asking"
           /\ DOMAIN listings' = DOMAIN listings
           /\ \A j \in DOMAIN listings : /\ listings'[j].seller = listings[j].seller
                                         /\ listings'[j].ask = listings[j].ask
           /\ Len(trades') = Len(trades) + 1
           /\ DOMAIN trades' = DOMAIN trades \cup {Len(trades')}
           /\ \A k \in DOMAIN trades : trades'[k] = trades[k] /\ k # Len(trades')
           /\ trades'[Len(trades')].listing = buying[w].offer.id
           /\ trades'[Len(trades')].settlement = buying[w].settlement
           /\ trades'[Len(trades')].paymentSig = 0
<1> DEFINE i == buying[w].offer.id
           t == TradeOf(w, i)
<1>1. /\ i \in DOMAIN listings
      /\ listings' = [listings EXCEPT ![i].status = "filled"]
      /\ trades' = Append(trades, t)
      /\ buying[w].at = "asking"
  BY DEF Fill, Fillable
<1>2. t.listing = i /\ t.settlement = buying[w].settlement /\ t.paymentSig = 0
  BY DEF TradeOf
<1> HIDE DEF i, t
<1>3. i \in Nat /\ listings[i] \in Listing
  BY <1>1 DEF StoreOK
<1>4. /\ DOMAIN listings' = DOMAIN listings
      /\ \A j \in DOMAIN listings : /\ listings'[j].seller = listings[j].seller
                                    /\ listings'[j].ask = listings[j].ask
  BY <1>1, <1>3 DEF StoreOK, Listing
<1>5. /\ Len(trades') = Len(trades) + 1
      /\ DOMAIN trades' = DOMAIN trades \cup {Len(trades')}
      /\ \A k \in DOMAIN trades : trades'[k] = trades[k] /\ k # Len(trades')
      /\ trades'[Len(trades')] = t
  BY <1>1 DEF StoreOK
<1>6. t.listing = buying[w].offer.id
  BY <1>2 DEF i
<1> QED BY <1>1, <1>2, <1>4, <1>5, <1>6 DEF Busy

\* While the process lives, the orders keep their ids and their terms.
LEMMA OrdersKeepTerms ==
    ASSUME StoreOK, PagesOK, Next, restarts' = restarts, NEW o, OnBook(o)
    PROVE  OnBook(o)'
<1> USE DEF OnBook
<1>1. CASE UNCHANGED listings
  BY <1>1
<1>2. ASSUME NEW w \in Wallets, NEW ask \in Asks, NEW m \in Markets, List(w, ask, m)
      PROVE  OnBook(o)'
  <2> DEFINE new == [seller |-> w, ask |-> ask, market |-> m, status |-> "active"]
  <2>1. listings' = Append(listings, new)
    BY <1>2 DEF List
  <2> HIDE DEF new
  <2> QED BY <2>1 DEF StoreOK
<1>3. ASSUME NEW w \in Wallets, NEW i \in DOMAIN listings, Cancel(w, i)
      PROVE  OnBook(o)'
  <2>1. listings[i] \in Listing
    BY DEF StoreOK
  <2>2. listings' = [listings EXCEPT ![i].status = "cancelled"]
    BY <1>3 DEF Cancel
  <2>3. PICK new : /\ listings' = [listings EXCEPT ![i] = new]
                   /\ new.seller = listings[i].seller /\ new.ask = listings[i].ask
    <3>1. /\ [listings[i] EXCEPT !.status = "cancelled"].seller = listings[i].seller
          /\ [listings[i] EXCEPT !.status = "cancelled"].ask = listings[i].ask
      BY <2>1 DEF Listing
    <3> QED BY <2>2, <3>1
  <2> QED BY <2>3 DEF StoreOK
<1>4. ASSUME NEW w \in Wallets, Fill(w)
      PROVE  OnBook(o)'
  BY <1>4, FillIsASale
<1>5. CASE Restart
  BY <1>5 DEF Restart, PagesOK
<1>6. ASSUME NEW k \in DOMAIN trades, Told(k)
      PROVE  OnBook(o)'
  BY <1>6, TellingIsQuiet
<1> QED BY <1>1, <1>2, <1>3, <1>4, <1>5, <1>6, ReportsAreTold
        DEF Next, Refresh, Choose, Filled, FilledUnheard, Refused, Pay, PaymentGivenUp,
            Confirmed, Land, Miss, Mention, store

\* So do the trades.
LEMMA TradesKeepTerms ==
    ASSUME StoreOK, PagesOK, Next, restarts' = restarts, NEW k \in DOMAIN trades
    PROVE  /\ k \in DOMAIN trades'
           /\ trades'[k].settlement = trades[k].settlement
           /\ trades'[k].listing = trades[k].listing
           /\ trades'[k].seller = trades[k].seller
           /\ trades'[k].price = trades[k].price
<1> DEFINE Kept == /\ k \in DOMAIN trades'
                   /\ trades'[k].settlement = trades[k].settlement
                   /\ trades'[k].listing = trades[k].listing
                   /\ trades'[k].seller = trades[k].seller
                   /\ trades'[k].price = trades[k].price
<1>1. CASE UNCHANGED trades
  BY <1>1
<1>2. ASSUME NEW w \in Wallets, Fill(w)
      PROVE  Kept
  BY <1>2, FillIsASale
<1>3. ASSUME NEW j \in DOMAIN trades, Told(j)
      PROVE  Kept
  <2>1. PICK t : /\ trades' = [trades EXCEPT ![j] = t]
                 /\ t.listing = trades[j].listing
                 /\ t.seller = trades[j].seller
                 /\ t.price = trades[j].price
                 /\ t.settlement = trades[j].settlement
    BY <1>3, ReportChangesOneTrade
  <2> QED BY <2>1 DEF StoreOK
<1>4. CASE Restart
  BY <1>4 DEF Restart, PagesOK
<1> QED BY <1>1, <1>2, <1>3, <1>4, ReportsAreTold
        DEF Next, List, Cancel, Refresh, Choose, Filled, FilledUnheard, Refused,
            Pay, PaymentGivenUp, Confirmed, Land, Miss, Mention, store

\* A page that reads its orders again shows those of the store.
LEMMA RereadIsOnBook ==
    ASSUME PagesOK, KnownOrders, UNCHANGED listings, NEW w \in Wallets, Reread(w)
    PROVE  \A v \in Wallets : \A o \in screen'[v] : OnBook(o)
<1>1. \A o \in ActiveOffers : OnBook(o)
  BY DEF ActiveOffers, OnBook
<1> QED BY <1>1 DEF Reread, KnownOrders, PagesOK

\* While the process lives, what the pages know of the orders stays true.
LEMMA OrdersStayKnown ==
    ASSUME StoreOK, PagesOK, KnownOrders, Next, restarts' = restarts
    PROVE  KnownOrders'
<1> DEFINE Shown == \A v \in Wallets : \A o \in screen'[v] : OnBook(o) \/ OnBook(o)'
           Wanted == \A v \in Wallets : Busy(v)' => OnBook(buying'[v].offer)
<1>1. ASSUME UNCHANGED screen PROVE Shown
  BY <1>1 DEF KnownOrders
<1>2. ASSUME NEW w \in Wallets, UNCHANGED listings, Reread(w) PROVE Shown
  BY <1>2, RereadIsOnBook
<1>3. ASSUME \A v \in Wallets : Busy(v)' => Busy(v) /\ buying'[v].offer = buying[v].offer
      PROVE  Wanted
  BY <1>3 DEF KnownOrders
<1>4. ASSUME NEW w \in Wallets, buying' = [buying EXCEPT ![w] = Idle]
      PROVE  Wanted
  <2>1. \A v \in Wallets : Busy(v)' => buying'[v] = buying[v]
    BY <1>4 DEF PagesOK, Busy, Idle
  <2> QED BY <1>3, <2>1 DEF Busy
<1>5. ASSUME UNCHANGED buying PROVE Wanted
  BY <1>3, <1>5 DEF Busy
<1>6. ASSUME NEW w \in Wallets, NEW ask \in Asks, NEW m \in Markets, List(w, ask, m)
      PROVE  Shown /\ Wanted
  <2> DEFINE new == [seller |-> w, ask |-> ask, market |-> m, status |-> "active"]
  <2>0. PICK o : o = [id |-> Len(listings'), seller |-> w, ask |-> ask]
    OBVIOUS
  <2>1. listings' = Append(listings, new) /\ new.seller = w /\ new.ask = ask
    BY <1>6 DEF List
  <2>2. o.id = Len(listings') /\ o.seller = w /\ o.ask = ask
    BY <2>0
  <2>3. screen' \in {screen, [screen EXCEPT ![w] = @ \cup {o}]} /\ buying' = buying
    BY <1>6, <2>0 DEF List
  <2> HIDE DEF new
  <2>4. OnBook(o)'
    BY <2>1, <2>2 DEF OnBook, StoreOK
  <2>5. Shown
    BY <2>3, <2>4 DEF KnownOrders, PagesOK
  <2> QED BY <1>5, <2>3, <2>5
<1>7. ASSUME \/ \E w \in Wallets, i \in DOMAIN listings : Cancel(w, i)
             \/ \E k \in DOMAIN trades : Mention(k)
      PROVE  Shown /\ Wanted
  BY <1>1, <1>5, <1>7 DEF Cancel, Mention
<1>8. ASSUME NEW w \in Wallets, Refresh(w)
      PROVE  Shown /\ Wanted
  BY <1>2, <1>5, <1>8 DEF Refresh, store
<1>9. ASSUME NEW w \in Wallets, NEW o \in screen[w], Choose(w, o)
      PROVE  Shown /\ Wanted
  <2>1. buying'[w].offer = o /\ \A v \in Wallets \ {w} : buying'[v] = buying[v]
    BY <1>9 DEF Choose, PagesOK
  <2>2. OnBook(o)
    BY DEF KnownOrders
  <2>3. Wanted
    BY <2>1, <2>2 DEF KnownOrders, Busy
  <2> QED BY <1>1, <1>9, <2>3 DEF Choose
<1>10. ASSUME NEW w \in Wallets, Filled(w)
       PROVE  Shown /\ Wanted
  <2>1. screen'[w] \subseteq screen[w] /\ \A v \in Wallets \ {w} : screen'[v] = screen[v]
    BY <1>10 DEF Filled, PagesOK
  <2>2. Busy(w) /\ buying' = [buying EXCEPT ![w].at = "paying", ![w].trade = Len(trades')]
    BY <1>10 DEF Filled, Fill, Busy
  <2>3. buying'[w].offer = buying[w].offer /\ \A v \in Wallets \ {w} : buying'[v] = buying[v]
    BY <2>2, BusyIsTyped DEF PagesOK
  <2>4. Shown
    BY <2>1 DEF KnownOrders
  <2>5. Wanted
    BY <1>3, <2>2, <2>3 DEF Busy
  <2> QED BY <2>4, <2>5
<1>11. ASSUME NEW w \in Wallets, FilledUnheard(w)
       PROVE  Shown /\ Wanted
  BY <1>1, <1>4, <1>11 DEF FilledUnheard
<1>12. ASSUME NEW w \in Wallets, Refused(w) \/ PaymentGivenUp(w) \/ Confirmed(w)
       PROVE  Shown /\ Wanted
  BY <1>2, <1>4, <1>12 DEF Refused, PaymentGivenUp, Confirmed, store
<1>13. ASSUME NEW w \in Wallets, Pay(w)
       PROVE  Shown /\ Wanted
  <2>1. Busy(w) /\ buying' = [buying EXCEPT ![w].at = "confirming"] /\ screen' = screen
    BY <1>13 DEF Pay, Busy
  <2>2. buying'[w].offer = buying[w].offer /\ \A v \in Wallets \ {w} : buying'[v] = buying[v]
    BY <2>1, BusyIsTyped DEF PagesOK
  <2>3. Wanted
    BY <1>3, <2>1, <2>2 DEF Busy
  <2> QED BY <1>1, <2>1, <2>3
<1>14. ASSUME NEW p \in transfers, Land(p) \/ Miss(p)
       PROVE  Shown /\ Wanted
  BY <1>1, <1>5, <1>14 DEF Land, Miss
<1>15. ASSUME NEW k \in DOMAIN trades, Told(k)
       PROVE  Shown /\ Wanted
  BY <1>1, <1>5, <1>15, TellingIsQuiet
<1>16. ~ Restart
  BY DEF Restart, PagesOK
<1>17. Shown /\ Wanted
  <2> HIDE DEF Shown, Wanted
  <2> QED BY <1>6, <1>7, <1>8, <1>9, <1>10, <1>11, <1>12, <1>13, <1>14, <1>15, <1>16,
             ReportsAreTold DEF Next
<1>18. \A o : OnBook(o) => OnBook(o)'
  BY OrdersKeepTerms
<1> QED BY <1>17, <1>18 DEF KnownOrders

\* While the process lives, the ids of trades keep leading to the trade of their purchase.
LEMMA TradesStayKnown ==
    ASSUME StoreOK, PagesOK, KnownTrades, Next, restarts' = restarts
    PROVE  KnownTrades'
<1> DEFINE Pages == \A v \in Wallets : AtTrade(v)' => TradeKnown(v)'
           Reports == \A r \in requests' : r \in requests \/ ReportKnown(r)
<1>1. \A v \in Wallets : AtTrade(v) => TradeKnown(v)
  BY DEF KnownTrades
<1>2. \A k \in DOMAIN trades : /\ k \in DOMAIN trades'
                               /\ trades'[k].settlement = trades[k].settlement
                               /\ trades'[k].listing = trades[k].listing
  BY TradesKeepTerms
<1>3. ASSUME NEW v \in Wallets, AtTrade(v), AtTrade(v)',
             buying'[v].trade = buying[v].trade,
             buying'[v].settlement = buying[v].settlement,
             buying'[v].offer = buying[v].offer
      PROVE  TradeKnown(v)'
  BY <1>1, <1>2, <1>3 DEF TradeKnown
<1>4. ASSUME NEW w \in Wallets, buying' = [buying EXCEPT ![w] = Idle]
      PROVE  Pages
  <2>1. \A v \in Wallets : AtTrade(v)' => buying'[v] = buying[v]
    BY <1>4 DEF PagesOK, AtTrade, Idle
  <2> QED BY <1>3, <2>1 DEF AtTrade
<1>5. ASSUME UNCHANGED buying PROVE Pages
  BY <1>3, <1>5 DEF AtTrade
<1>6. ASSUME NEW w \in Wallets, NEW ask \in Asks, NEW m \in Markets, List(w, ask, m)
      PROVE  Pages /\ Reports
  BY <1>5, <1>6 DEF List
<1>7. ASSUME \/ \E w \in Wallets, i \in DOMAIN listings : Cancel(w, i)
             \/ \E k \in DOMAIN trades : Mention(k)
      PROVE  Pages /\ Reports
  BY <1>5, <1>7 DEF Cancel, Mention
<1>8. ASSUME NEW w \in Wallets, Refresh(w)
      PROVE  Pages /\ Reports
  BY <1>5, <1>8 DEF Refresh
<1>9. ASSUME NEW w \in Wallets, NEW o \in screen[w], Choose(w, o)
      PROVE  Pages /\ Reports
  <2>1. buying'[w].at = "asking" /\ \A v \in Wallets \ {w} : buying'[v] = buying[v]
    BY <1>9 DEF Choose, PagesOK
  <2> QED BY <1>3, <1>9, <2>1 DEF Choose, AtTrade
<1>10. ASSUME NEW w \in Wallets, Filled(w)
       PROVE  Pages /\ Reports
  <2>1. Fill(w) /\ Busy(w)
        /\ buying' = [buying EXCEPT ![w].at = "paying", ![w].trade = Len(trades')]
        /\ requests' = requests
    BY <1>10 DEF Filled, Fill, Busy
  <2>2. /\ buying'[w].trade = Len(trades')
        /\ buying'[w].offer = buying[w].offer
        /\ buying'[w].settlement = buying[w].settlement
        /\ \A v \in Wallets \ {w} : buying'[v] = buying[v]
    BY <2>1, BusyIsTyped DEF PagesOK
  <2>3. TradeKnown(w)'
    BY <2>1, <2>2, FillIsASale DEF TradeKnown
  <2> QED BY <1>3, <2>1, <2>2, <2>3 DEF AtTrade
<1>11. ASSUME NEW w \in Wallets, FilledUnheard(w)
       PROVE  Pages /\ Reports
  BY <1>4, <1>11 DEF FilledUnheard
<1>12. ASSUME NEW w \in Wallets, Refused(w) \/ PaymentGivenUp(w)
       PROVE  Pages /\ Reports
  BY <1>4, <1>12 DEF Refused, PaymentGivenUp
<1>13. ASSUME NEW w \in Wallets, Pay(w)
       PROVE  Pages /\ Reports
  <2>1. /\ buying[w].at = "paying" /\ Busy(w)
        /\ buying' = [buying EXCEPT ![w].at = "confirming"] /\ requests' = requests
    BY <1>13 DEF Pay, Busy
  <2>2. /\ buying'[w].trade = buying[w].trade
        /\ buying'[w].offer = buying[w].offer
        /\ buying'[w].settlement = buying[w].settlement
        /\ \A v \in Wallets \ {w} : buying'[v] = buying[v]
    BY <2>1, BusyIsTyped DEF PagesOK
  <2> QED BY <1>3, <2>1, <2>2 DEF AtTrade
<1>14. ASSUME NEW w \in Wallets, Confirmed(w)
       PROVE  Pages /\ Reports
  <2>1. /\ AtTrade(w) /\ buying' = [buying EXCEPT ![w] = Idle]
        /\ requests' = requests \cup
             [op : {"pay", "verify"}, trade : {buying[w].trade}, sig : {buying[w].settlement}]
    BY <1>14 DEF Confirmed, AtTrade
  <2>2. \A r \in [op : {"pay", "verify"}, trade : {buying[w].trade}, sig : {buying[w].settlement}] :
            ReportKnown(r)
    BY <1>1, <2>1 DEF TradeKnown, ReportKnown
  <2> QED BY <1>4, <2>1, <2>2
<1>15. ASSUME NEW p \in transfers, Land(p) \/ Miss(p)
       PROVE  Pages /\ Reports
  BY <1>5, <1>15 DEF Land, Miss
<1>16. ASSUME NEW k \in DOMAIN trades, Told(k)
       PROVE  Pages /\ Reports
  BY <1>5, <1>16, TellingIsQuiet
<1>17. ~ Restart
  BY DEF Restart, PagesOK
<1>18. Pages /\ Reports
  <2> HIDE DEF Pages, Reports
  <2> QED BY <1>6, <1>7, <1>8, <1>9, <1>10, <1>11, <1>12, <1>13, <1>14, <1>15, <1>16, <1>17,
             ReportsAreTold DEF Next
<1>19. \A r : (r \in requests \/ ReportKnown(r)) => ReportKnown(r)'
  BY <1>2 DEF KnownTrades, ReportKnown
<1> QED BY <1>18, <1>19 DEF KnownTrades

\* Trades that keep their settlements, terms and payments, and transfers that keep
\* theirs, still agree.
LEMMA SameTradesStayTrue ==
    ASSUME TradesAreTrue, forgotten' = forgotten, DOMAIN trades' = DOMAIN trades,
           \A k \in DOMAIN trades :
               /\ trades'[k].settlement = trades[k].settlement
               /\ trades'[k].seller = trades[k].seller
               /\ trades'[k].price = trades[k].price
               /\ trades'[k].paymentSig \in
                     {trades[k].paymentSig, Elsewhere, trades[k].settlement},
           \A q \in transfers' : \E p \in transfers :
               p.settlement = q.settlement /\ p.to = q.to /\ p.amount = q.amount
    PROVE  TradesAreTrue'
<1>1. \A k \in DOMAIN trades' : trades'[k].paymentSig \in {0, Elsewhere, trades'[k].settlement}
  BY DEF TradesAreTrue
<1>2. ASSUME NEW q \in transfers', NEW k \in DOMAIN trades', q.settlement = trades'[k].settlement
      PROVE  Agrees(q, trades'[k])
  <2>1. PICK p \in transfers : p.settlement = q.settlement /\ p.to = q.to /\ p.amount = q.amount
    OBVIOUS
  <2>2. Agrees(p, trades[k])
    BY <1>2, <2>1 DEF TradesAreTrue
  <2> QED BY <2>1, <2>2 DEF Agrees
<1>3. \A j, k \in DOMAIN trades' : trades'[j].settlement = trades'[k].settlement => j = k
  BY DEF TradesAreTrue
<1> QED BY <1>1, <1>2, <1>3 DEF TradesAreTrue

\* A sale under way has a settlement of its own, so its trade meets no payment yet.
LEMMA FillStaysTrue ==
    ASSUME StoreOK, PagesOK, PaymentInv, TradesAreTrue,
           NEW w \in Wallets, Filled(w) \/ FilledUnheard(w)
    PROVE  TradesAreTrue'
<1> DEFINE s == buying[w].settlement
           n == Len(trades')
<1>1. Fill(w) /\ UNCHANGED <<forgotten, transfers>>
  BY DEF Filled, FilledUnheard, chain
<1>2. /\ buying[w].at = "asking"
      /\ DOMAIN trades' = DOMAIN trades \cup {n}
      /\ \A k \in DOMAIN trades : trades'[k] = trades[k] /\ k # n
      /\ trades'[n].settlement = s /\ trades'[n].paymentSig = 0
  BY <1>1, FillIsASale
<1>3. \A t \in EveryTrade : t.settlement # s
  BY <1>2 DEF PaymentInv, NothingTwice
<1>4. \A k \in DOMAIN trades : trades[k].settlement # s
  BY <1>3 DEF EveryTrade, ToSet
<1>5. \A p \in transfers : p.settlement # s
  BY <1>3 DEF PaymentInv, PaymentsFollowFills, MoneyOK, Transfer
<1> HIDE DEF s, n
<1> QED BY <1>1, <1>2, <1>4, <1>5 DEF TradesAreTrue

\* A payment follows the offer, the offer is the order, and the order is the trade.
LEMMA PayStaysTrue ==
    ASSUME StoreOK, SoldOnce, KnownOrders, KnownTrades, TradesAreTrue,
           NEW w \in Wallets, Pay(w)
    PROVE  TradesAreTrue'
<1> DEFINE s == buying[w].settlement
           o == buying[w].offer
           k == buying[w].trade
           new == Payment(w)
<1>1. /\ Busy(w) /\ AtTrade(w)
      /\ transfers' = transfers \cup {new}
      /\ UNCHANGED <<trades, forgotten>>
  BY DEF Pay, Busy, AtTrade, store
<1>2. OnBook(o) /\ TradeKnown(w)
  BY <1>1 DEF KnownOrders, KnownTrades
<1>3. k \in DOMAIN trades /\ trades[k].settlement = s /\ trades[k].listing = o.id
  BY <1>2 DEF TradeKnown
<1>4. trades[k].seller = o.seller /\ trades[k].price = o.ask
  BY <1>2, <1>3 DEF SoldOnce, OnBook
<1>5. new.settlement = s /\ new.amount = o.ask /\ new.to = Recipient(w, o)
  BY DEF Payment
<1>6. Agrees(new, trades[k])
  BY <1>4, <1>5 DEF Agrees, Recipient
<1>7. \A j \in DOMAIN trades : trades[j].settlement = s => j = k
  BY <1>3 DEF TradesAreTrue
<1> HIDE DEF s, o, k, new
<1> QED BY <1>1, <1>5, <1>6, <1>7 DEF TradesAreTrue

\* The chain changes neither whom a transfer pays nor how much.
LEMMA ChainStaysTrue ==
    ASSUME PaymentInv, TradesAreTrue, NEW p \in transfers, Land(p) \/ Miss(p)
    PROVE  TradesAreTrue'
<1>1. PICK status \in {"landed", "failed"} : transfers' = Become(p, status)
  BY DEF Land, Miss
<1>2. p \in Transfer
  BY DEF PaymentInv, MoneyOK
<1> DEFINE q == [p EXCEPT !.status = status]
<1>3. q.settlement = p.settlement /\ q.to = p.to /\ q.amount = p.amount
  BY <1>2 DEF Transfer
<1>4. transfers' = (transfers \ {p}) \cup {q}
  BY <1>1 DEF Become
<1> HIDE DEF q
<1>5. UNCHANGED <<trades, forgotten>>
  BY DEF Land, Miss, store
<1> QED BY <1>3, <1>4, <1>5, SameTradesStayTrue

\* A report reaches the trade of the payment it tells.
LEMMA ReportStaysTrue ==
    ASSUME StoreOK, PagesOK, KnownTrades, TradesAreTrue, NEW j \in DOMAIN trades, Told(j)
    PROVE  TradesAreTrue'
<1>1. PICK t \in Trade :
          /\ trades' = [trades EXCEPT ![j] = t]
          /\ t.seller = trades[j].seller
          /\ t.price = trades[j].price
          /\ t.settlement = trades[j].settlement
          /\ \/ t.paymentSig \in {trades[j].paymentSig, Elsewhere}
             \/ \E r \in requests : r.trade = j /\ t.paymentSig = r.sig
  BY ReportChangesOneTrade
<1>2. t.paymentSig \in {trades[j].paymentSig, Elsewhere, trades[j].settlement}
  BY <1>1 DEF KnownTrades, ReportKnown
<1>3. UNCHANGED <<forgotten, transfers>>
  BY TellingIsQuiet DEF chain
<1>4. DOMAIN trades' = DOMAIN trades
  BY <1>1 DEF StoreOK
<1>5. \A k \in DOMAIN trades :
          /\ trades'[k].settlement = trades[k].settlement
          /\ trades'[k].seller = trades[k].seller
          /\ trades'[k].price = trades[k].price
          /\ trades'[k].paymentSig \in {trades[k].paymentSig, Elsewhere, trades[k].settlement}
  BY <1>1, <1>2 DEF StoreOK
<1> QED BY <1>3, <1>4, <1>5, SameTradesStayTrue

-----------------------------------------------------------------------------
(* The invariant of the first life, and what follows from it.              *)

\* Until the first cold start, orders, trades and payments find each other.
LEMMA FirstLifeHolds == Spec => []FirstLife
<1>1. Init => FirstLife
  <2> SUFFICES ASSUME Init PROVE FirstLife
    OBVIOUS
  <2>1. \A w \in Wallets : screen[w] = {} /\ ~ Busy(w) /\ ~ AtTrade(w)
    BY DEF Init, Busy, AtTrade, Idle
  <2>2. requests = {} /\ forgotten = {} /\ trades = << >> /\ transfers = {}
    BY DEF Init
  <2> QED BY <2>1, <2>2 DEF FirstLife, KnownOrders, KnownTrades, TradesAreTrue
<1>2. ExchangeInv /\ PaymentInv /\ FirstLife /\ [Next]_vars => FirstLife'
  <2> SUFFICES ASSUME StoreOK, PagesOK, SoldOnce, PaymentInv, FirstLife, [Next]_vars, restarts' = 0
               PROVE  KnownOrders' /\ KnownTrades' /\ TradesAreTrue'
    BY DEF ExchangeInv, FirstLife
  <2>1. CASE UNCHANGED vars
    BY <2>1 DEF vars, store, chain, FirstLife, KnownOrders, OnBook, Busy, KnownTrades,
                AtTrade, TradeKnown, ReportKnown, TradesAreTrue
  <2>2. CASE Next
    <3>1. restarts = 0
      <4>1. restarts' = restarts \/ restarts' = restarts + 1
        BY <2>2 DEF Next, List, Cancel, Refresh, Choose, Filled, FilledUnheard, Refused, Pay,
                    PaymentGivenUp, Confirmed, Land, Miss, Mention, AnybodyAttaches,
                    AnybodyVerifies, AttachPayment, Verify, Served, Restart
      <4> QED BY <4>1 DEF PagesOK
    <3>2. KnownOrders /\ KnownTrades /\ TradesAreTrue
      BY <3>1 DEF FirstLife
    <3>3. KnownOrders' /\ KnownTrades'
      BY <2>2, <3>1, <3>2, OrdersStayKnown, TradesStayKnown
    <3>4. ASSUME UNCHANGED <<trades, transfers, forgotten>>
          PROVE  TradesAreTrue'
      BY <3>2, <3>4 DEF TradesAreTrue
    <3>5. ASSUME NEW w \in Wallets, Filled(w) \/ FilledUnheard(w)
          PROVE  TradesAreTrue'
      BY <3>2, <3>5, FillStaysTrue
    <3>6. ASSUME NEW w \in Wallets, Pay(w)
          PROVE  TradesAreTrue'
      BY <3>2, <3>6, PayStaysTrue
    <3>7. ASSUME NEW p \in transfers, Land(p) \/ Miss(p)
          PROVE  TradesAreTrue'
      BY <3>2, <3>7, ChainStaysTrue
    <3>8. ASSUME NEW k \in DOMAIN trades, Told(k)
          PROVE  TradesAreTrue'
      BY <3>2, <3>8, ReportStaysTrue
    <3>9. ~ Restart
      BY <3>1 DEF Restart
    <3>10. TradesAreTrue'
      BY <2>2, <3>4, <3>5, <3>6, <3>7, <3>8, <3>9, ReportsAreTold
      DEF Next, List, Cancel, Refresh, Choose, Refused, PaymentGivenUp, Confirmed, Mention,
          store, chain
    <3> QED BY <3>3, <3>10
  <2> QED BY <2>1, <2>2
<1> QED BY <1>1, <1>2, ExchangeInvHolds, PaymentInvHolds, PTL DEF Spec

\* Until the first cold start a verified trade whose settlement nothing else mentions
\* paid its seller its price, and the payment a page attaches to a trade is its own
\* (exchange/page.tsx:178, trades/verify/route.ts:7, recordTradePaymentSig of
\* exchange-store.ts).
THEOREM PaymentsFindTheirTrades == Spec => []PaymentsMeetTheirTrades
<1>1. PaymentInv /\ FirstLife => PaymentsMeetTheirTrades
  <2> SUFFICES ASSUME PaymentInv, FirstLife, restarts = 0
               PROVE  /\ PaymentReachesTheSeller
                      /\ \A t \in ToSet(trades) : t.paymentSig \in {0, Elsewhere, t.settlement}
    BY DEF PaymentsMeetTheirTrades, PaymentReachesTheSellerInOneLife, ReportsReachTheirTrade
  <2>1. TradesAreTrue
    BY DEF FirstLife
  <2>2. ASSUME NEW t \in EveryTrade, t.verified, t.settlement \notin memos, t.seller # Demo
        PROVE  PaidAsAgreed(t)
    <3>1. PICK k \in DOMAIN trades : t = trades[k]
      BY <2>1 DEF TradesAreTrue, EveryTrade, ToSet
    <3>2. PICK p \in transfers : p.settlement = t.settlement /\ p.status = "landed"
      BY <2>2 DEF PaymentInv, VerifiedWasPaid
    <3>3. Agrees(p, t)
      BY <2>1, <3>1, <3>2 DEF TradesAreTrue
    <3> QED BY <2>2, <3>2, <3>3 DEF PaidAsAgreed, Agrees
  <2>3. \A t \in ToSet(trades) : t.paymentSig \in {0, Elsewhere, t.settlement}
    BY <2>1 DEF TradesAreTrue, ToSet
  <2> QED BY <2>2, <2>3 DEF PaymentReachesTheSeller
<1> QED BY <1>1, PaymentInvHolds, FirstLifeHolds, PTL

-----------------------------------------------------------------------------
(* Types.                                                                  *)

\* No balance goes below zero: a transfer the payer cannot cover fails.
LEMMA BalancesStayNatural == Spec => [](usdc \in [Wallets -> Nat])
<1>1. Init => usdc \in [Wallets -> Nat]
  BY ExchangeAssumption DEF Init
<1>2. MoneyOK /\ usdc \in [Wallets -> Nat] /\ [Next]_vars => (usdc \in [Wallets -> Nat])'
  <2> SUFFICES ASSUME MoneyOK, usdc \in [Wallets -> Nat], [Next]_vars
               PROVE  usdc' \in [Wallets -> Nat]
    OBVIOUS
  <2>1. ASSUME NEW p \in transfers, Land(p)
        PROVE  usdc' \in [Wallets -> Nat]
    <3>1. p.from \in Wallets /\ p.to \in Wallets /\ p.amount \in 1 .. Face
      BY DEF MoneyOK, Transfer
    <3> DEFINE taken == [usdc EXCEPT ![p.from] = @ - p.amount]
    <3>2. usdc[p.from] >= p.amount /\ usdc' = [taken EXCEPT ![p.to] = @ + p.amount]
      BY <2>1 DEF Land
    <3>3. usdc[p.from] - p.amount \in Nat
      BY <3>1, <3>2, ExchangeAssumption
    <3>4. taken \in [Wallets -> Nat]
      BY <3>3
    <3> HIDE DEF taken
    <3> QED BY <3>1, <3>2, <3>4, ExchangeAssumption
  <2> QED BY <2>1
          DEF Next, vars, chain, List, Cancel, Refresh, Choose, Filled, FilledUnheard, Refused,
              Pay, PaymentGivenUp, Confirmed, Miss, Mention, AnybodyAttaches, AnybodyVerifies,
              AttachPayment, Verify, Served, Restart
<1>3. PaymentInv => MoneyOK
  BY DEF PaymentInv
<1> QED BY <1>1, <1>2, <1>3, PaymentInvHolds, PTL DEF Spec

\* The store, the pages and the chain hold values of their types; in particular a
\* trade names an order there is, no balance is overdrawn, and a vault holds only
\* notes of purchases that were begun (exchange-store.ts:55-111).
THEOREM ExchangeTypeCorrect == Spec => []ExchangeTypeOK
<1>1. /\ ExchangeInv /\ QuoteInv /\ PaymentInv /\ usdc \in [Wallets -> Nat] => ExchangeTypeOK
  <2> SUFFICES ASSUME StoreOK, PagesOK, QuoteInv, PaymentInv, usdc \in [Wallets -> Nat]
               PROVE  ExchangeTypeOK
    BY DEF ExchangeInv
  <2>1. vault \in [Wallets -> SUBSET (1 .. begun)]
    <3>1. \A w \in Wallets : \A s \in vault[w] : s \in 1 .. begun
      BY DEF PaymentInv, PaymentsFollowFills, TradesApart
    <3> QED BY <3>1 DEF PaymentInv, MoneyOK
  <2>2. transfers \subseteq Transfer /\ forgotten \subseteq Trade /\ memos \subseteq 1 .. begun
    BY DEF PaymentInv, MoneyOK
  <2>3. quote \in [Markets -> Quote]
    BY DEF QuoteInv
  <2> QED BY <2>1, <2>2, <2>3 DEF ExchangeTypeOK, StoreOK, PagesOK, Quote
<1> QED BY <1>1, ExchangeInvHolds, QuoteInvHolds, PaymentInvHolds, BalancesStayNatural, PTL

=============================================================================
