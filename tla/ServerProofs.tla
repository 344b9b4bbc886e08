---------------------------- MODULE ServerProofs ----------------------------
(***************************************************************************)
(* Proofs about what the web server keeps in memory besides the exchange,  *)
(* for any number of clients and requests and any limits: answered prices  *)
(* are as old as their entry tells, within one fetch, the two limiters of  *)
(* requests keep their budgets, and the feed is the tail of what was       *)
(* verified.                                                               *)
(***************************************************************************)
EXTENDS PriceCache, RateLimits, FiniteSums, TLAPS

-----------------------------------------------------------------------------
(* The cache of prices.                                                    *)

Prices == [at : Int, taken : Int, days : Int]
Fetch  == [since : Int, days : Int, before : Prices]
Reply  == [prices : Prices, at : Int, asked : Int, days : Int,
           from : {"nobody", "cache", "source", "fallback"}]

CacheValues ==
    /\ clock \in Nat /\ newest \in Int /\ kind \in {"spot", "candles"}
    /\ cached \in Prices /\ reply \in Reply
    /\ fetching \in [Readers -> Fetch]

\* The entry is at most one fetch older than it looks, and so is every fetch under
\* way; what was ever answered was known by now.
CacheInv ==
    /\ CacheValues
    /\ cached.at - cached.taken <= FetchLimit
    /\ cached.taken <= cached.at /\ cached.at <= clock
    /\ \A r \in Readers : fetching[r] # NotFetching =>
          /\ fetching[r].since <= clock
          /\ clock - fetching[r].since <= FetchLimit
    /\ \A r \in Readers :
          LET before == fetching[r].before IN
          before.taken <= clock /\ before.at - before.taken <= FetchLimit
    /\ newest <= clock
    /\ kind = "spot" => newest - cached.taken <= FetchLimit
    /\ AnswersKeepTheirTime

\* The limits are positive numbers.
LEMMA CacheLimits ==
    /\ SpotTtl \in Nat /\ SpotTtl > 0 /\ CandleTtl \in Nat /\ CandleTtl > 0
    /\ FetchLimit \in Nat /\ FetchLimit > 0
    /\ \A asked \in DaysAsked : asked \in Int
BY CacheAssumption

\* So is the time to live of the entry.
LEMMA TtlIsNumber == Ttl \in Nat /\ Ttl > 0
BY CacheLimits DEF Ttl

\* The range of candles is a number of days.
LEMMA DaysAreNumbers ==
    ASSUME NEW asked \in DaysAsked
    PROVE  DaysServed(asked) \in Int
BY CacheLimits DEF DaysServed

\* The values that stand for nothing are of the types.
LEMMA NothingIsTyped ==
    /\ NoPrices \in Prices /\ NotFetching \in Fetch /\ NoReply \in Reply
    /\ NoPrices.at = -1 /\ NoPrices.taken = -1 /\ NotFetching.since = -1
    /\ NoReply.prices.at = -1 /\ NoReply.prices.taken = -1
    /\ NoReply.at = 0 /\ NoReply.asked = 0
    /\ NoReply.from = "nobody"
BY DEF NoPrices, NotFetching, NoReply, Prices, Fetch, Reply

\* An answer that was asked for at most a fetch ago, with prices that are recent unless
\* they are a fallback, keeps the answers true to their time.
LEMMA RepliesStayRecent ==
    ASSUME CacheInv, NEW prices \in Prices, NEW asked \in Int, NEW days \in Int,
           NEW from \in {"cache", "source", "fallback"},
           Replies(prices, asked, days, from),
           UNCHANGED <<clock, kind>>,
           clock - asked <= FetchLimit,
           from \in {"cache", "source"} => clock - prices.taken < Ttl + FetchLimit,
           prices.taken <= clock,
           kind = "spot" => newest - prices.taken <= FetchLimit,
           prices.at - prices.taken <= FetchLimit,
           cached'.at - cached'.taken <= FetchLimit
    PROVE  /\ reply' \in Reply /\ newest' \in Int /\ newest' <= clock'
           /\ newest' \in {newest, prices.taken}
           /\ AnswersKeepTheirTime'
<1> USE CacheLimits, TtlIsNumber DEF CacheInv, CacheValues
<1>1. reply' = [prices |-> prices, at |-> clock, asked |-> asked, days |-> days, from |-> from]
  BY DEF Replies
<1>2. prices.taken \in Int
  BY DEF Prices
<1>3. /\ newest' = IF prices.taken > newest THEN prices.taken ELSE newest
  BY DEF Replies
<1>4. reply' \in Reply
  BY <1>1 DEF Reply
<1>5. Ttl' = Ttl
  BY DEF Ttl
<1>6. AnswersKeepTheirTime'
  <2>1. reply'.at - reply'.asked <= FetchLimit
    BY <1>1
  <2>2. reply'.from \in {"cache", "source"} =>
            reply'.at - reply'.prices.taken < Ttl' + FetchLimit
    BY <1>1, <1>5
  <2>3. kind' = "spot" => newest' - reply'.prices.taken <= FetchLimit
    BY <1>1, <1>2, <1>3
  <2>4. reply'.prices.at - reply'.prices.taken <= FetchLimit
    BY <1>1
  <2> QED BY <2>1, <2>2, <2>3, <2>4 DEF AnswersKeepTheirTime
<1> QED BY <1>2, <1>3, <1>4, <1>6

\* A question answered from the entry, or the start of a fetch.
LEMMA AskKeepsRecent ==
    ASSUME CacheInv, NEW r \in Readers, NEW asked \in DaysAsked, AskPrices(r, asked)
    PROVE  CacheInv'
<1> USE CacheLimits, TtlIsNumber DEF CacheInv, CacheValues
<1>1. DaysServed(asked) \in Int /\ UNCHANGED <<clock, kind, cached>>
  BY DaysAreNumbers DEF AskPrices
<1>4. cached # NoPrices => cached.taken <= cached.at /\ cached.at <= clock
  OBVIOUS
<1>2. CASE Fresh
  <2>1. Replies(cached, clock, DaysServed(asked), "cache") /\ UNCHANGED fetching
    BY <1>2 DEF AskPrices
  <2>2. cached.at \in Int /\ cached.taken \in Int
    BY DEF Prices
  <2>3. cached # NoPrices /\ clock - cached.at < Ttl
    BY <1>2 DEF Fresh
  <2>4. clock - cached.taken < Ttl + FetchLimit
    BY <2>2, <2>3
  <2>5. cached.taken <= clock
    BY <2>2, <2>3, <1>4
  <2>6. /\ reply' \in Reply /\ newest' \in Int /\ newest' <= clock'
        /\ newest' \in {newest, cached.taken}
        /\ AnswersKeepTheirTime'
    <3> DEFINE days == DaysServed(asked)
    <3>1. days \in Int /\ Replies(cached, clock, days, "cache")
      BY <1>1, <2>1
    <3> HIDE DEF days
    <3>2. clock - clock <= FetchLimit /\ clock \in Int
      OBVIOUS
    <3> QED BY <1>1, <2>3, <2>4, <2>5, <3>1, <3>2, RepliesStayRecent
  <2> QED BY <1>1, <2>1, <2>2, <2>6
<1>3. CASE ~Fresh
  <2> DEFINE new == [since |-> clock, days |-> DaysServed(asked), before |-> cached]
  <2>1. fetching' = [fetching EXCEPT ![r] = new] /\ UNCHANGED <<reply, newest>>
    BY <1>3 DEF AskPrices
  <2>2. new \in Fetch /\ new.since = clock /\ new.before = cached
    BY <1>1 DEF Fetch
  <2> HIDE DEF new
  <2>3. \A q \in Readers : fetching'[q] = IF q = r THEN new ELSE fetching[q]
    BY <2>1
  <2>4. CacheValues'
    BY <1>1, <2>1, <2>2
  <2>5. AnswersKeepTheirTime'
    BY <1>1, <2>1 DEF AnswersKeepTheirTime, Ttl
  <2>6. cached.taken <= clock
    <3>1. cached.taken \in Int /\ cached.at \in Int
      BY DEF Prices
    <3> QED BY <3>1
  <2> QED BY <1>1, <2>1, <2>2, <2>3, <2>4, <2>5, <2>6
<1> QED BY <1>2, <1>3

\* The source answered, with prices from since the question.
LEMMA ComeKeepsRecent ==
    ASSUME CacheInv, NEW r \in Readers, PricesCome(r)
    PROVE  CacheInv'
<1> USE CacheLimits, TtlIsNumber DEF CacheInv, CacheValues
<1> DEFINE since == fetching[r].since
           days == fetching[r].days
<1>1. fetching[r] \in Fetch
  OBVIOUS
<1>2. since \in Int /\ days \in Int /\ since <= clock /\ clock - since <= FetchLimit
  BY <1>1 DEF PricesCome, Fetch
<1>3. PICK taken \in since .. clock :
          /\ cached' = [at |-> clock, taken |-> taken, days |-> days]
          /\ Comes(r, cached', "source")
  BY DEF PricesCome
<1>4. /\ cached' = [at |-> clock, taken |-> taken, days |-> days]
      /\ Replies(cached', since, days, "source")
      /\ fetching' = [fetching EXCEPT ![r] = NotFetching]
      /\ UNCHANGED <<clock, kind>>
  BY <1>3 DEF Comes
<1>5. taken \in Int /\ taken <= clock /\ since <= taken /\ clock - taken <= FetchLimit
  BY <1>2
<1> HIDE DEF since, days
<1>6. /\ cached' \in Prices
      /\ cached'.taken = taken /\ cached'.at = clock
  BY <1>2, <1>4, <1>5 DEF Prices
<1>7. /\ reply' \in Reply /\ newest' \in Int /\ newest' <= clock'
      /\ newest' \in {newest, taken}
      /\ AnswersKeepTheirTime'
  <2> DEFINE prices == cached'
  <2>1. prices \in Prices /\ prices.taken = taken /\ Replies(prices, since, days, "source")
    BY <1>4, <1>6
  <2>2. clock - taken < Ttl + FetchLimit
    BY <1>5
  <2>3. cached'.at - cached'.taken <= FetchLimit /\ prices.at - prices.taken <= FetchLimit
    BY <1>5, <1>6
  <2>4. newest - taken <= FetchLimit
    BY <1>5
  <2> HIDE DEF prices
  <2> QED BY <1>2, <1>4, <1>5, <2>1, <2>2, <2>3, <2>4, RepliesStayRecent
<1>8. \A q \in Readers : fetching'[q] = IF q = r THEN NotFetching ELSE fetching[q]
  BY <1>4
<1>9. NotFetching.before.taken = -1 /\ NotFetching.before.at = -1
  BY DEF NotFetching, NoPrices
<1>10. fetching' \in [Readers -> Fetch]
  BY <1>4, NothingIsTyped
<1> QED BY <1>4, <1>5, <1>6, <1>7, <1>8, <1>9, <1>10

\* No prices from the source: an answer of any age, whose entry tells its time.
LEMMA FallbackKeepsRecent ==
    ASSUME CacheInv, NEW r \in Readers, NEW empty \in BOOLEAN, NoPricesCome(r, empty)
    PROVE  CacheInv'
<1> USE CacheLimits, TtlIsNumber DEF CacheInv, CacheValues
<1> DEFINE since == fetching[r].since
           days == fetching[r].days
           prices == Fallback(r, empty)
<1>1. fetching[r] \in Fetch
  OBVIOUS
<1>2. since \in Int /\ days \in Int /\ clock - since <= FetchLimit
  BY <1>1 DEF NoPricesCome, Fetch
<1>3. prices \in Prices /\ prices.taken <= clock /\ prices.at - prices.taken <= FetchLimit /\ (kind = "spot" => prices = cached)
  <2>1. cached.taken \in Int /\ cached.at \in Int
    BY DEF Prices
  <2>2. cached \in Prices /\ cached.taken <= clock /\ cached.at - cached.taken <= FetchLimit
    BY <2>1
  <2>3. /\ fetching[r].before \in Prices /\ fetching[r].before.taken <= clock
        /\ fetching[r].before.at - fetching[r].before.taken <= FetchLimit
    BY <1>1 DEF Fetch
  <2>4. /\ NoPrices \in Prices /\ NoPrices.taken <= clock
        /\ NoPrices.at - NoPrices.taken <= FetchLimit
    BY NothingIsTyped
  <2> QED BY <2>2, <2>3, <2>4 DEF Fallback
<1>4. /\ Replies(prices, since, days, "fallback")
      /\ fetching' = [fetching EXCEPT ![r] = NotFetching]
      /\ UNCHANGED <<clock, kind, cached>>
  BY DEF NoPricesCome, Comes
<1> HIDE DEF since, days, prices
<1>5. kind = "spot" => newest - prices.taken <= FetchLimit
  BY <1>3
<1>6. /\ reply' \in Reply /\ newest' \in Int /\ newest' <= clock'
      /\ newest' \in {newest, prices.taken}
      /\ AnswersKeepTheirTime'
  BY <1>2, <1>3, <1>4, <1>5, RepliesStayRecent
<1>7. kind' = "spot" => newest' - cached'.taken <= FetchLimit
  <2>1. cached.taken \in Int
    BY DEF Prices
  <2> QED BY <1>3, <1>4, <1>6, <2>1
<1>8. \A q \in Readers : fetching'[q] = IF q = r THEN NotFetching ELSE fetching[q]
  BY <1>4
<1>9. NotFetching.before.taken = -1 /\ NotFetching.before.at = -1
  BY DEF NotFetching, NoPrices
<1>10. fetching' \in [Readers -> Fetch]
  BY <1>4, NothingIsTyped
<1> QED BY <1>4, <1>6, <1>7, <1>8, <1>9, <1>10

\* Time passes, but not past the end of a fetch.
LEMMA TickKeepsRecent ==
    ASSUME CacheInv, CacheTick
    PROVE  CacheInv'
<1> USE CacheLimits, TtlIsNumber DEF CacheInv, CacheValues
<1>1. clock' = clock + 1 /\ UNCHANGED <<kind, cached, fetching, reply, newest>>
  BY DEF CacheTick
<1>2. AnswersKeepTheirTime'
  BY <1>1 DEF AnswersKeepTheirTime, Ttl
<1>3. ASSUME NEW r \in Readers, fetching[r] # NotFetching
      PROVE  fetching[r].since <= clock' /\ clock' - fetching[r].since <= FetchLimit
  <2>1. fetching[r].since \in Int
    BY DEF Fetch
  <2> QED BY <1>1, <1>3, <2>1 DEF CacheTick
<1>4. /\ cached.at <= clock' /\ newest <= clock'
      /\ \A r \in Readers : fetching[r].before.taken <= clock'
  <2>1. cached.at \in Int
    BY DEF Prices
  <2>2. \A r \in Readers : fetching[r].before.taken \in Int
    BY DEF Fetch, Prices
  <2> QED BY <1>1, <2>1, <2>2
<1> QED BY <1>1, <1>2, <1>3, <1>4

\* Every step keeps the answers recent.
LEMMA CacheInvHolds == CacheSpec => []CacheInv
<1>1. CacheInit => CacheInv
  <2> SUFFICES ASSUME CacheInit
               PROVE  CacheInv
    OBVIOUS
  <2>1. \A r \in Readers : fetching[r] = NotFetching
    BY DEF CacheInit
  <2>2. CacheValues
    BY NothingIsTyped DEF CacheInit, CacheValues
  <2>3. /\ NotFetching.before.taken = -1 /\ NotFetching.before.at = -1
        /\ NoPrices.at = -1
    BY DEF NotFetching, NoPrices
  <2>4. AnswersKeepTheirTime
    BY NothingIsTyped, CacheLimits DEF CacheInit, AnswersKeepTheirTime
  <2> QED BY <2>1, <2>2, <2>3, <2>4, NothingIsTyped, CacheLimits DEF CacheInit, CacheInv
<1>2. CacheInv /\ [CacheNext]_cacheVars => CacheInv'
  <2> SUFFICES ASSUME CacheInv, [CacheNext]_cacheVars
               PROVE  CacheInv'
    OBVIOUS
  <2>1. CASE CacheNext
    BY <2>1, AskKeepsRecent, ComeKeepsRecent, FallbackKeepsRecent, TickKeepsRecent DEF CacheNext
  <2>2. CASE UNCHANGED cacheVars
    BY <2>2 DEF CacheInv, CacheValues, AnswersKeepTheirTime, Ttl, cacheVars
  <2> QED BY <2>1, <2>2
<1> QED BY <1>1, <1>2, PTL DEF CacheSpec

\* However requests overlap, prices from a young entry or from the source were taken less
\* than the time to live and one fetch ago, every answer was taken at most one fetch before
\* the time of its entry, and spot prices go back by at most one fetch; how old a fallback
\* is, nothing bounds (getSpotPrices and getOhlc, price-feed.ts).
THEOREM AnswersAlwaysKeepTheirTime == CacheSpec => []AnswersKeepTheirTime
<1>1. CacheInv => AnswersKeepTheirTime
  BY DEF CacheInv
<1> QED BY <1>1, CacheInvHolds, PTL

-----------------------------------------------------------------------------
(* The limiters.                                                           *)

Limiters == {"guard", "verify"}

Guard(c)    == passed["guard"][c]
Verifier(c) == passed["verify"][c]

\* The clock and the histories; nothing was let through in the future.
HistoryOK ==
    /\ time \in Times /\ lastSweep \in 0 .. time
    /\ passed \in [Limiters -> [Clients -> [Times -> Nat]]]
    /\ \A l \in Limiters : \A c \in Clients : \A u \in Times : u > time => passed[l][c][u] = 0

LEMMA RateNumbers ==
    /\ HitLimit \in Nat /\ HitLimit > 0 /\ VerifyLimit \in Nat /\ VerifyLimit > 0
    /\ Window \in Nat /\ Window > 0 /\ TrackCap \in Nat /\ TrackCap > 0
    /\ FeedCap \in Nat /\ FeedCap > 0 /\ MaxTime \in Nat
BY RateAssumption

\* Times are numbers, and there are finitely many of them.
LEMMA TimesAreFinite ==
    /\ IsFiniteSet(Times)
    /\ \A t \in Times : t \in Nat /\ t <= MaxTime /\ WindowTo(t) \subseteq Times
    /\ \A S \in SUBSET Times : IsFiniteSet(S)
<1>1. MaxTime \in Nat
  BY RateNumbers
<1>2. IsFiniteSet(Times)
  BY <1>1, FS_Interval DEF Times
<1>3. \A S \in SUBSET Times : IsFiniteSet(S)
  BY <1>2, FS_Subset
<1>4. \A t \in Times : t \in Nat /\ t <= MaxTime /\ WindowTo(t) \subseteq Times
  BY <1>1 DEF Times, WindowTo
<1> QED BY <1>2, <1>3, <1>4

\* One more request now adds one to the windows that hold now.
LEMMA OnceAddsOne ==
    ASSUME time \in Times, NEW f \in [Times -> Nat], NEW S \in SUBSET Times
    PROVE  /\ Once(f) \in [Times -> Nat]
           /\ \A u \in Times : Once(f)[u] = IF u = time THEN f[u] + 1 ELSE f[u]
           /\ SumFunctionOnSet(Once(f), S)
                = IF time \in S THEN SumFunctionOnSet(f, S) + 1 ELSE SumFunctionOnSet(f, S)
<1>1. /\ Once(f) \in [Times -> Nat]
      /\ \A u \in Times : Once(f)[u] = IF u = time THEN f[u] + 1 ELSE f[u]
  BY DEF Once
<1>2. IsFiniteSet(S) /\ \A x \in S : f[x] \in Int /\ Once(f)[x] \in Int
  BY <1>1, TimesAreFinite
<1>3. SumFunctionOnSet(f, S) \in Int
  BY <1>2, SumType
<1>4. CASE time \in S
  <2>1. SumFunctionOnSet(Once(f), S) = SumFunctionOnSet(f, S) + Once(f)[time] - f[time]
    BY <1>1, <1>2, <1>4, SumUpdate
  <2>2. Once(f)[time] = f[time] + 1 /\ f[time] \in Int
    BY <1>1
  <2> QED BY <1>1, <1>3, <1>4, <2>1, <2>2
<1>5. CASE time \notin S
  <2>1. \A x \in S : Once(f)[x] = f[x]
    BY <1>1, <1>5
  <2> QED BY <1>1, <1>2, <1>5, <2>1, SumSame
<1> QED BY <1>4, <1>5

\* As time goes by without a request, no window holds more than the last one.
LEMMA WindowsEmpty ==
    ASSUME time \in Times, time + 1 \in Times, NEW f \in [Times -> Nat], f[time + 1] = 0
    PROVE  /\ SumFunctionOnSet(f, WindowTo(time + 1)) <= SumFunctionOnSet(f, WindowTo(time))
           /\ SumFunctionOnSet(f, WindowTo(time)) \in Nat
<1>1. /\ WindowTo(time) \subseteq Times /\ IsFiniteSet(WindowTo(time))
      /\ time \in Nat /\ IsFiniteSet(WindowTo(time) \cup {time + 1})
      /\ WindowTo(time) \cup {time + 1} \subseteq Times
  BY TimesAreFinite
<1>2. time + 1 \notin WindowTo(time) /\ WindowTo(time + 1) \subseteq WindowTo(time) \cup {time + 1}
  BY <1>1, RateNumbers DEF WindowTo
<1>3. \A x \in WindowTo(time) \cup {time + 1} : f[x] \in Nat /\ f[x] \in Int
  <2>1. \A x \in Times : f[x] \in Nat /\ f[x] \in Int
    OBVIOUS
  <2> QED BY <1>1, <2>1
<1>4. SumFunctionOnSet(f, WindowTo(time) \cup {time + 1})
        = f[time + 1] + SumFunctionOnSet(f, WindowTo(time))
  BY <1>1, <1>2, <1>3, SumAdd
<1>5. SumFunctionOnSet(f, WindowTo(time + 1)) <= SumFunctionOnSet(f, WindowTo(time) \cup {time + 1})
  BY <1>1, <1>2, <1>3, SumOfSubset
<1>6. SumFunctionOnSet(f, WindowTo(time)) \in Nat
  BY <1>1, <1>3, SumOfNaturals
<1> QED BY <1>4, <1>5, <1>6

\* What of a count is younger than a window is what a window that ends now holds.
LEMMA YoungerIsTheWindow ==
    ASSUME time \in Times, NEW f \in [Times -> Nat], NEW g \in [Times -> Nat],
           \A u \in Times : u > time => f[u] = 0,
           \A u \in Times : g[u] = IF time - u < Window THEN f[u] ELSE 0
    PROVE  Total(g) = SumFunctionOnSet(f, WindowTo(time))
<1> DEFINE W == WindowTo(time)
           R == Times \ WindowTo(time)
<1>1. W \subseteq Times /\ IsFiniteSet(W) /\ IsFiniteSet(R) /\ W \cap R = {} /\ W \cup R = Times
  BY TimesAreFinite
<1>2. \A u \in Times : g[u] \in Int /\ f[u] \in Int /\ u \in Nat /\ time \in Nat
  BY TimesAreFinite
<1>3. \A u \in W : g[u] = f[u]
  BY <1>1 DEF WindowTo
<1>4. \A u \in R : g[u] = 0
  BY <1>1, <1>2 DEF WindowTo
<1> HIDE DEF W, R
<1>5. SumFunctionOnSet(g, W \cup R) = SumFunctionOnSet(g, W) + SumFunctionOnSet(g, R)
  BY <1>1, <1>2, SumDisjoint
<1>6. SumFunctionOnSet(g, R) = 0
  BY <1>1, <1>4, SumOfZeros
<1>7. SumFunctionOnSet(g, W) = SumFunctionOnSet(f, W)
  BY <1>1, <1>3, SumSame
<1>8. SumFunctionOnSet(f, W) \in Int
  BY <1>1, <1>2, SumType
<1> QED BY <1>1, <1>5, <1>6, <1>7, <1>8 DEF Total, W

\* A request that one limiter lets through is counted there and then, and nowhere else.
LEMMA CountedOnce ==
    ASSUME HistoryOK, NEW c \in Clients, NEW l \in Limiters,
           time' = time, lastSweep' \in 0 .. time,
           passed' = [passed EXCEPT ![l][c] = Once(@)]
    PROVE  /\ HistoryOK'
           /\ passed'[l][c] = Once(passed[l][c])
           /\ \A m \in Limiters : \A d \in Clients :
                 m # l \/ d # c => passed'[m][d] = passed[m][d]
<1>1. time \in Times /\ time \in Nat
  BY TimesAreFinite DEF HistoryOK
<1>2. PICK more : more = Once(passed[l][c])
  OBVIOUS
<1>3. passed[l][c] \in [Times -> Nat]
  BY DEF HistoryOK
<1>4. more \in [Times -> Nat] /\ \A u \in Times : more[u] = IF u = time THEN passed[l][c][u] + 1 ELSE passed[l][c][u]
  BY <1>1, <1>2, <1>3, OnceAddsOne
<1>5. passed' = [passed EXCEPT ![l][c] = more]
  BY <1>2
<1>6. /\ passed' \in [Limiters -> [Clients -> [Times -> Nat]]]
      /\ passed'[l][c] = more
      /\ \A m \in Limiters : \A d \in Clients :
            m # l \/ d # c => passed'[m][d] = passed[m][d]
  BY <1>4, <1>5 DEF HistoryOK
<1>7. \A u \in Times : u > time => more[u] = 0
  <2>1. \A u \in Times : u > time => u # time /\ passed[l][c][u] = 0
    BY <1>1, TimesAreFinite DEF HistoryOK
  <2> QED BY <1>4, <2>1
<1>8. \A m \in Limiters : \A d \in Clients : \A u \in Times : u > time => passed'[m][d][u] = 0
  BY <1>6, <1>7 DEF HistoryOK
<1>9. HistoryOK'
  BY <1>1, <1>6, <1>8 DEF HistoryOK
<1> QED BY <1>2, <1>6, <1>9

\* A table of accepted requests that tells what the sliding limiter let through.
TellsGuard(table) ==
    /\ table \in [DOMAIN table -> [Times -> Nat]] /\ DOMAIN table \subseteq Clients
    /\ \A c \in Clients : \A u \in Times :
          time - u < Window => Guard(c)[u] = IF c \in DOMAIN table THEN table[c][u] ELSE 0

\* What is younger than a window is a count of requests.
LEMMA YoungerIsTyped ==
    ASSUME NEW f \in [Times -> Nat]
    PROVE  /\ Younger(f) \in [Times -> Nat]
           /\ \A u \in Times : Younger(f)[u] = IF time - u < Window THEN f[u] ELSE 0
BY DEF Younger

\* A sweep forgets clients, and nothing that is younger than a window.
LEMMA SweptTells ==
    ASSUME TellsGuard(hits)
    PROVE  TellsGuard(Swept)
<1>1. CASE time - lastSweep < Window
  BY <1>1 DEF Swept
<1>2. CASE ~(time - lastSweep < Window)
  <2> DEFINE kept == {d \in DOMAIN hits : Younger(hits[d]) # Never}
  <2>1. Swept = [c \in kept |-> Younger(hits[c])]
    BY <1>2 DEF Swept
  <2>2. kept \subseteq DOMAIN hits /\ \A c \in DOMAIN hits : c \notin kept => Younger(hits[c]) = Never
    OBVIOUS
  <2> HIDE DEF kept
  <2>3. \A c \in DOMAIN hits : hits[c] \in [Times -> Nat]
    BY DEF TellsGuard
  <2>4. \A c \in DOMAIN hits :
            /\ Younger(hits[c]) \in [Times -> Nat]
            /\ \A u \in Times : Younger(hits[c])[u] = IF time - u < Window THEN hits[c][u] ELSE 0
    BY <2>3, YoungerIsTyped
  <2>5. Swept \in [DOMAIN Swept -> [Times -> Nat]] /\ DOMAIN Swept = kept /\ kept \subseteq Clients
    BY <2>1, <2>2, <2>4 DEF TellsGuard
  <2>6. ASSUME NEW c \in Clients, NEW u \in Times, time - u < Window
        PROVE  Guard(c)[u] = IF c \in kept THEN Swept[c][u] ELSE 0
    <3>1. Guard(c)[u] = IF c \in DOMAIN hits THEN hits[c][u] ELSE 0
      BY <2>6 DEF TellsGuard
    <3>2. CASE c \in kept
      BY <2>1, <2>2, <2>4, <2>6, <3>1, <3>2
    <3>3. CASE c \in DOMAIN hits /\ c \notin kept
      <4>1. Younger(hits[c])[u] = 0
        BY <2>2, <3>3 DEF Never
      <4> QED BY <2>4, <2>6, <3>1, <3>3, <4>1
    <3> QED BY <2>2, <3>1, <3>2, <3>3
  <2> QED BY <2>5, <2>6 DEF TellsGuard
<1> QED BY <1>1, <1>2

\* The sliding limiter lets a request through only while its window holds fewer than
\* the limit.
LEMMA CheckKeepsGuard ==
    ASSUME HistoryOK, TellsGuard(hits), SlidingKept, NEW c \in Clients, CheckRateLimit(c)
    PROVE  /\ HistoryOK' /\ TellsGuard(hits)' /\ SlidingKept'
           /\ \A d \in Clients : Verifier(d)' = Verifier(d)
<1>1. PICK swept : swept = Swept
  OBVIOUS
<1>2. PICK mine : mine = IF c \in DOMAIN swept THEN Younger(swept[c]) ELSE Never
  OBVIOUS
<1>3. TellsGuard(swept)
  BY <1>1, SweptTells
<1>4. time \in Times /\ time \in Nat /\ time' = time
  BY TimesAreFinite DEF HistoryOK, CheckRateLimit
<1>5. Guard(c) \in [Times -> Nat] /\ \A u \in Times : u > time => Guard(c)[u] = 0
  BY DEF HistoryOK, Guard, Limiters
<1>6. /\ mine \in [Times -> Nat]
      /\ \A u \in Times : mine[u] = IF time - u < Window THEN Guard(c)[u] ELSE 0
  <2>1. CASE c \in DOMAIN swept
    <3>1. swept[c] \in [Times -> Nat]
      BY <1>3, <2>1 DEF TellsGuard
    <3>2. mine = Younger(swept[c])
      BY <1>2, <2>1
    <3> QED BY <1>3, <2>1, <3>1, <3>2, YoungerIsTyped DEF TellsGuard
  <2>2. CASE c \notin DOMAIN swept
    <3>1. mine = Never
      BY <1>2, <2>2
    <3> QED BY <1>3, <2>2, <3>1 DEF TellsGuard, Never
  <2> QED BY <2>1, <2>2
<1>7. lastSweep' \in 0 .. time
  BY <1>4 DEF CheckRateLimit, HistoryOK
<1>8. Total(mine) = PassedIn("guard", c, time)
  BY <1>4, <1>5, <1>6, YoungerIsTheWindow DEF PassedIn, Guard
<1>9. CASE Total(mine) >= HitLimit
  <2>1. hits' = Tracked(swept, c, mine) /\ passed' = passed
    BY <1>1, <1>2, <1>9 DEF CheckRateLimit
  <2>2. HistoryOK'
    BY <1>4, <1>7, <2>1 DEF HistoryOK
  <2>3. /\ DOMAIN hits' = DOMAIN swept \cup {c}
        /\ \A d \in DOMAIN hits' : hits'[d] = IF d = c THEN mine ELSE swept[d]
        /\ hits' = [d \in DOMAIN hits' |-> hits'[d]]
    BY <2>1 DEF Tracked
  <2>4. hits' \in [DOMAIN hits' -> [Times -> Nat]] /\ DOMAIN hits' \subseteq Clients
    BY <1>3, <1>6, <2>3 DEF TellsGuard
  <2>5. \A d \in Clients : Guard(d)' = Guard(d) /\ Verifier(d)' = Verifier(d)
    BY <2>1 DEF Guard, Verifier
  <2>6. \A d \in Clients : \A u \in Times :
            time - u < Window => Guard(d)[u] = IF d \in DOMAIN hits' THEN hits'[d][u] ELSE 0
    BY <1>3, <1>6, <2>3 DEF TellsGuard
  <2>7. TellsGuard(hits)'
    BY <1>4, <2>4, <2>5, <2>6 DEF TellsGuard
  <2>8. SlidingKept'
    BY <1>4, <2>1 DEF SlidingKept, PassedIn, WindowTo
  <2> QED BY <2>2, <2>5, <2>7, <2>8
<1>10. CASE ~(Total(mine) >= HitLimit)
  <2>1. PICK more : more = Once(mine)
    OBVIOUS
  <2>2. hits' = Tracked(swept, c, more) /\ passed' = [passed EXCEPT !["guard"][c] = Once(@)]
    BY <1>1, <1>2, <1>10, <2>1 DEF CheckRateLimit
  <2>3. /\ HistoryOK'
        /\ Guard(c)' = Once(Guard(c)) /\ \A d \in Clients \ {c} : Guard(d)' = Guard(d)
        /\ \A d \in Clients : Verifier(d)' = Verifier(d)
    BY <1>4, <1>7, <2>2, CountedOnce DEF Limiters, Guard, Verifier
  <2>4. PICK now : now = Once(Guard(c))
    OBVIOUS
  <2>5. /\ more \in [Times -> Nat]
        /\ \A u \in Times : more[u] = IF u = time THEN mine[u] + 1 ELSE mine[u]
        /\ \A u \in Times : now[u] = IF u = time THEN Guard(c)[u] + 1 ELSE Guard(c)[u]
        /\ \A S \in SUBSET Times :
              SumFunctionOnSet(now, S) = IF time \in S THEN SumFunctionOnSet(Guard(c), S) + 1
                                         ELSE SumFunctionOnSet(Guard(c), S)
    BY <1>4, <1>5, <1>6, <2>1, <2>4, OnceAddsOne
  <2>6. /\ DOMAIN hits' = DOMAIN swept \cup {c}
        /\ \A d \in DOMAIN hits' : hits'[d] = IF d = c THEN more ELSE swept[d]
        /\ hits' = [d \in DOMAIN hits' |-> hits'[d]]
    BY <2>2 DEF Tracked
  <2>7. hits' \in [DOMAIN hits' -> [Times -> Nat]] /\ DOMAIN hits' \subseteq Clients
    BY <1>3, <2>5, <2>6 DEF TellsGuard
  <2>8. ASSUME NEW d \in Clients, NEW u \in Times, time - u < Window
        PROVE  Guard(d)'[u] = IF d \in DOMAIN hits' THEN hits'[d][u] ELSE 0
    <3>1. CASE d = c
      <4>1. now[u] = more[u]
        BY <1>6, <2>5, <2>8
      <4> QED BY <2>3, <2>4, <2>6, <3>1, <4>1
    <3>2. CASE d # c
      BY <1>3, <2>3, <2>6, <2>8, <3>2 DEF TellsGuard
    <3> QED BY <3>1, <3>2
  <2>9. TellsGuard(hits)'
    BY <1>4, <2>7, <2>8 DEF TellsGuard
  <2>10. ASSUME NEW d \in Clients, NEW t \in 0 .. time
         PROVE  SumFunctionOnSet(Guard(d)', WindowTo(t)) <= HitLimit
    <3>1. SumFunctionOnSet(Guard(d), WindowTo(t)) <= HitLimit
      BY DEF SlidingKept, PassedIn, Guard
    <3>2. CASE d = c
      <4>1. t \in Times /\ t \in Nat /\ WindowTo(t) \subseteq Times
        BY <1>4, RateNumbers, TimesAreFinite DEF Times
      <4>2. SumFunctionOnSet(now, WindowTo(t))
              = IF time \in WindowTo(t) THEN SumFunctionOnSet(Guard(c), WindowTo(t)) + 1
                ELSE SumFunctionOnSet(Guard(c), WindowTo(t))
        BY <2>5, <4>1
      <4>3. time \in WindowTo(t) => t = time
        BY <1>4, <4>1 DEF WindowTo
      <4>4. SumFunctionOnSet(Guard(c), WindowTo(t)) \in Nat
        BY <1>5, <4>1, TimesAreFinite, SumOfNaturals
      <4>5. SumFunctionOnSet(Guard(c), WindowTo(time)) = Total(mine)
        BY <1>8 DEF PassedIn, Guard
      <4> QED BY <1>10, <2>3, <2>4, <3>1, <3>2, <4>2, <4>3, <4>4, <4>5, RateNumbers
    <3>3. CASE d # c
      BY <2>3, <3>1, <3>3
    <3> QED BY <3>2, <3>3
  <2>11. SlidingKept'
    BY <1>4, <2>10 DEF SlidingKept, PassedIn, Guard, WindowTo
  <2> QED BY <2>3, <2>9, <2>11
<1> QED BY <1>9, <1>10

-----------------------------------------------------------------------------
(* The verifier's windows.                                                 *)

BucketsOK ==
    /\ buckets \in [DOMAIN buckets -> [count : Nat, since : Nat]]
    /\ DOMAIN buckets \subseteq Clients /\ IsFiniteSet(DOMAIN buckets)
    /\ Cardinality(DOMAIN buckets) <= TrackCap
    /\ \A c \in DOMAIN buckets : /\ buckets[c].count \in 1 .. VerifyLimit
                                 /\ buckets[c].since \in 0 .. time

\* The times before `since` that are less than a window away from it.
Before(since) == {u \in 0 .. since : u # since /\ since - u < Window}

\* A window that lasts counts what was let through since it began, which is at least
\* the request that opened it; shortly before, fewer than the limit were let through.
Counts(f, bucket) ==
    /\ SumFunctionOnSet(f, bucket.since .. time) = bucket.count
    /\ f[bucket.since] >= 1
    /\ SumFunctionOnSet(f, Before(bucket.since)) < VerifyLimit

\* Without one, fewer than the limit were let through in the last window, none now.
Rests(f) ==
    /\ f[time] = 0
    /\ SumFunctionOnSet(f, WindowTo(time)) < VerifyLimit

CountsOf(table, c) ==
    IF InWindow(table, c) THEN Counts(Verifier(c), table[c]) ELSE Rests(Verifier(c))

Doubled == \A c \in Clients : \A t \in 0..time : PassedIn("verify", c, t) < 2 * VerifyLimit

VerifierInv ==
    /\ BucketsOK
    /\ \A c \in Clients : CountsOf(buckets, c)
    /\ Doubled

\* Pruning drops windows that have ended.
LEMMA PrunedKeepsWindows ==
    ASSUME BucketsOK
    PROVE  /\ Pruned \in [DOMAIN Pruned -> [count : Nat, since : Nat]]
           /\ DOMAIN Pruned \subseteq DOMAIN buckets
           /\ \A c \in DOMAIN Pruned : Pruned[c] = buckets[c]
           /\ \A c : InWindow(buckets, c) <=> InWindow(Pruned, c)
BY DEF Pruned, InWindow, BucketsOK

\* So it leaves the table as good as it was.
LEMMA PrunedIsAsGood ==
    ASSUME BucketsOK
    PROVE  /\ IsFiniteSet(DOMAIN Pruned) /\ Cardinality(DOMAIN Pruned) <= TrackCap
           /\ \A c \in DOMAIN Pruned : /\ Pruned[c].count \in 1 .. VerifyLimit
                                       /\ Pruned[c].since \in 0 .. time
           /\ \A c : CountsOf(buckets, c) => CountsOf(Pruned, c)
<1>1. /\ Pruned \in [DOMAIN Pruned -> [count : Nat, since : Nat]]
      /\ DOMAIN Pruned \subseteq DOMAIN buckets
      /\ \A c \in DOMAIN Pruned : Pruned[c] = buckets[c]
      /\ \A c : InWindow(buckets, c) <=> InWindow(Pruned, c)
  BY PrunedKeepsWindows
<1>2. /\ IsFiniteSet(DOMAIN Pruned)
      /\ Cardinality(DOMAIN Pruned) <= Cardinality(DOMAIN buckets)
  BY <1>1, FS_Subset DEF BucketsOK
<1>3. Cardinality(DOMAIN Pruned) \in Nat /\ Cardinality(DOMAIN buckets) \in Nat
  BY <1>2, FS_CardinalityType DEF BucketsOK
<1>4. Cardinality(DOMAIN Pruned) <= TrackCap
  BY <1>2, <1>3, RateNumbers DEF BucketsOK
<1>5. \A c \in DOMAIN Pruned : /\ Pruned[c].count \in 1 .. VerifyLimit
                               /\ Pruned[c].since \in 0 .. time
  BY <1>1 DEF BucketsOK
<1>6. ASSUME NEW c, CountsOf(buckets, c) PROVE CountsOf(Pruned, c)
  <2>1. InWindow(Pruned, c) => Pruned[c] = buckets[c]
    BY <1>1 DEF InWindow
  <2> QED BY <1>1, <1>6, <2>1 DEF CountsOf
<1> QED BY <1>2, <1>4, <1>5, <1>6

\* The window that ends now holds what came since a bucket opened, and what came
\* shortly before.
LEMMA WindowSplits ==
    ASSUME time \in Times, NEW f \in [Times -> Nat], NEW since \in 0 .. time,
           time - since < Window
    PROVE  /\ SumFunctionOnSet(f, WindowTo(time))
                <= SumFunctionOnSet(f, Before(since)) + SumFunctionOnSet(f, since .. time)
           /\ SumFunctionOnSet(f, Before(since)) \in Nat
           /\ SumFunctionOnSet(f, since .. time) \in Nat
           /\ SumFunctionOnSet(f, WindowTo(time)) \in Nat
           /\ Before(since) \subseteq Times /\ since .. time \subseteq Times
<1>1. time \in Nat /\ time <= MaxTime /\ MaxTime \in Nat /\ since \in Nat /\ since <= time
  BY RateNumbers, TimesAreFinite
<1>2. since .. time \subseteq Times
  BY <1>1 DEF Times
<1>3. Before(since) \subseteq Times
  BY <1>1 DEF Before, Times
<1>4. Before(since) \cap (since .. time) = {}
  BY <1>1 DEF Before
<1>5. WindowTo(time) \subseteq Before(since) \cup (since .. time)
  <2> SUFFICES ASSUME NEW u \in 0 .. time, time - u < Window, ~(u \in since .. time)
               PROVE  u \in Before(since)
    BY DEF WindowTo
  <2>1. u \in Nat /\ u < since /\ since - u < Window
    BY <1>1, RateNumbers
  <2> QED BY <1>1, <2>1 DEF Before
<1>6. \A x \in Times : f[x] \in Nat /\ f[x] \in Int
  OBVIOUS
<1> DEFINE A == Before(since)
           B == since .. time
<1>7. /\ IsFiniteSet(A) /\ IsFiniteSet(B) /\ IsFiniteSet(A \cup B)
      /\ A \cup B \subseteq Times /\ WindowTo(time) \subseteq A \cup B /\ A \cap B = {}
  BY <1>2, <1>3, <1>4, <1>5, TimesAreFinite
<1> HIDE DEF A, B
<1>8. SumFunctionOnSet(f, A \cup B) = SumFunctionOnSet(f, A) + SumFunctionOnSet(f, B)
  BY <1>6, <1>7, SumDisjoint
<1>9. SumFunctionOnSet(f, WindowTo(time)) <= SumFunctionOnSet(f, A \cup B)
  BY <1>6, <1>7, SumOfSubset
<1>10. \A S \in SUBSET (A \cup B) : SumFunctionOnSet(f, S) \in Nat
  BY <1>6, <1>7, FS_Subset, SumOfNaturals
<1>11. SumFunctionOnSet(f, A) \in Nat /\ SumFunctionOnSet(f, B) \in Nat
       /\ SumFunctionOnSet(f, WindowTo(time)) \in Nat
  BY <1>7, <1>10
<1> QED BY <1>2, <1>3, <1>8, <1>9, <1>11 DEF A, B

\* A request that the verifier lets through opens a window, or is one of the window
\* that is open.
LEMMA WindowOfRequest ==
    ASSUME HistoryOK, VerifierInv, NEW c \in Clients, AllowRequest(c),
           NEW kept, kept = Pruned, NEW f \in [Times -> Nat], f = Verifier(c),
           NEW more, more = Once(f)
    PROVE  \E new \in [count : Nat, since : Nat] :
              /\ buckets' = Tracked(kept, c, new)
              /\ new.count \in 1 .. VerifyLimit /\ new.since \in 0 .. time
              /\ time - new.since < Window
              /\ Counts(more, new)
<1>1. /\ kept \in [DOMAIN kept -> [count : Nat, since : Nat]]
      /\ \A d \in DOMAIN kept : /\ kept[d].count \in 1 .. VerifyLimit
                                /\ kept[d].since \in 0 .. time
      /\ CountsOf(kept, c)
  BY PrunedKeepsWindows, PrunedIsAsGood DEF VerifierInv
<1>2. time \in Times /\ time \in Nat
  BY TimesAreFinite DEF HistoryOK
<1>3. /\ more \in [Times -> Nat]
      /\ \A u \in Times : more[u] = IF u = time THEN f[u] + 1 ELSE f[u]
      /\ \A S \in SUBSET Times :
            SumFunctionOnSet(more, S) = IF time \in S THEN SumFunctionOnSet(f, S) + 1
                                        ELSE SumFunctionOnSet(f, S)
  BY <1>2, OnceAddsOne
<1>4. CASE InWindow(kept, c)
  <2> DEFINE old == kept[c]
  <2>1. /\ old \in [count : Nat, since : Nat] /\ c \in DOMAIN kept
        /\ old.since \in 0 .. time /\ time - old.since < Window
        /\ old.count < VerifyLimit /\ Counts(f, old)
    BY <1>1, <1>4 DEF InWindow, AllowRequest, CountsOf
  <2>2. buckets' = [kept EXCEPT ![c].count = old.count + 1]
    BY <1>4 DEF AllowRequest
  <2> HIDE DEF old
  <2>3. PICK new : new = [count |-> old.count + 1, since |-> old.since]
    OBVIOUS
  <2>4. /\ new \in [count : Nat, since : Nat]
        /\ new.count = old.count + 1 /\ new.since = old.since
    BY <2>1, <2>3
  <2>5. buckets' = [kept EXCEPT ![c] = new]
    <3>1. [kept[c] EXCEPT !.count = old.count + 1] = new
      BY <2>1, <2>3 DEF old
    <3>2. buckets' = [kept EXCEPT ![c] = [kept[c] EXCEPT !.count = old.count + 1]]
      BY <2>2
    <3> QED BY <3>1, <3>2
  <2>6. buckets' = Tracked(kept, c, new)
    BY <1>1, <2>1, <2>5 , ZenonT(60) DEF Tracked
  <2>7. new.since \in Nat /\ new.since <= time /\ new.count \in 1 .. VerifyLimit
    BY <2>1, <2>4, RateNumbers
  <2>8. /\ Before(new.since) \subseteq Times /\ new.since .. time \subseteq Times
        /\ new.since \in Times
    BY <1>2, <2>1, <2>4, <2>7, WindowSplits DEF Times
  <2>9. time \in new.since .. time /\ time \notin Before(new.since)
    BY <1>2, <2>7 DEF Before
  <2>10. Counts(more, new)
    <3>1. SumFunctionOnSet(more, new.since .. time) = new.count
      <4>1. PICK T \in SUBSET Times : T = new.since .. time
        BY <2>8
      <4>2. SumFunctionOnSet(f, T) = old.count
        BY <2>1, <2>4, <4>1 DEF Counts
      <4> QED BY <1>3, <2>4, <2>9, <4>1, <4>2
    <3>2. SumFunctionOnSet(more, Before(new.since)) < VerifyLimit
      <4>1. PICK T \in SUBSET Times : T = Before(new.since)
        BY <2>8
      <4>2. SumFunctionOnSet(f, T) < VerifyLimit
        BY <2>1, <2>4, <4>1 DEF Counts
      <4> QED BY <1>3, <2>9, <4>1, <4>2
    <3>3. more[new.since] >= 1
      <4>1. f[new.since] >= 1 /\ f[new.since] \in Nat
        BY <2>1, <2>4, <2>8 DEF Counts
      <4> QED BY <1>3, <2>8, <4>1
    <3> QED BY <3>1, <3>2, <3>3 DEF Counts
  <2> QED BY <2>1, <2>4, <2>6, <2>7, <2>10
<1>5. CASE ~InWindow(kept, c)
  <2>1. PICK new : new = [count |-> 1, since |-> time]
    OBVIOUS
  <2>2. new \in [count : Nat, since : Nat] /\ new.count = 1 /\ new.since = time
    BY <1>2, <2>1
  <2>3. buckets' = Tracked(kept, c, new)
    BY <1>5, <2>1 DEF AllowRequest
  <2>4. f[time] = 0 /\ SumFunctionOnSet(f, WindowTo(time)) < VerifyLimit
    BY <1>1, <1>5 DEF CountsOf, Rests
  <2>5. /\ Before(time) \subseteq WindowTo(time) /\ WindowTo(time) \subseteq Times
        /\ time \notin Before(time) /\ time .. time = {time}
    BY <1>2, TimesAreFinite DEF Before, WindowTo
  <2>6. SumFunctionOnSet(more, {time}) = 1
    <3>1. IsFiniteSet({time}) /\ \A x \in {time} : f[x] = 0
      BY <2>4, FS_Singleton
    <3>2. SumFunctionOnSet(f, {time}) = 0
      BY <3>1, SumOfZeros
    <3> QED BY <1>2, <1>3, <3>2
  <2>7. SumFunctionOnSet(more, Before(time)) < VerifyLimit
    <3>1. /\ IsFiniteSet(WindowTo(time)) /\ \A x \in WindowTo(time) : f[x] \in Nat
          /\ \A x \in WindowTo(time) : f[x] \in Int
      BY <2>5, TimesAreFinite
    <3>2. SumFunctionOnSet(f, Before(time)) <= SumFunctionOnSet(f, WindowTo(time))
      BY <2>5, <3>1, SumOfSubset
    <3>3. SumFunctionOnSet(f, Before(time)) \in Int /\ SumFunctionOnSet(f, WindowTo(time)) \in Int
      BY <2>5, <3>1, SumType, FS_Subset
    <3>4. SumFunctionOnSet(more, Before(time)) = SumFunctionOnSet(f, Before(time))
      BY <1>3, <2>5
    <3> QED BY <2>4, <3>2, <3>3, <3>4, RateNumbers
  <2>8. Counts(more, new)
    BY <1>2, <1>3, <2>2, <2>4, <2>5, <2>6, <2>7 DEF Counts
  <2> QED BY <1>2, <2>2, <2>3, <2>8, RateNumbers
<1> QED BY <1>4, <1>5

\* The verifier's windows stay true to what it let through.
LEMMA AllowKeepsVerifier ==
    ASSUME HistoryOK, VerifierInv, NEW c \in Clients, AllowRequest(c),
           UNCHANGED <<time, lastSweep>>
    PROVE  /\ HistoryOK' /\ VerifierInv'
           /\ \A d \in Clients : Guard(d)' = Guard(d)
<1>1. PICK kept : kept = Pruned
  OBVIOUS
<1>2. PICK f : f = Verifier(c)
  OBVIOUS
<1>3. PICK more : more = Once(f)
  OBVIOUS
<1>4. /\ kept \in [DOMAIN kept -> [count : Nat, since : Nat]]
      /\ DOMAIN kept \subseteq Clients
      /\ IsFiniteSet(DOMAIN kept) /\ Cardinality(DOMAIN kept) <= TrackCap
      /\ \A d \in DOMAIN kept : /\ kept[d].count \in 1 .. VerifyLimit
                                /\ kept[d].since \in 0 .. time
      /\ \A d \in Clients : CountsOf(kept, d)
  BY <1>1, PrunedKeepsWindows, PrunedIsAsGood DEF VerifierInv, BucketsOK
<1>5. time \in Times /\ time \in Nat /\ time' = time /\ lastSweep' \in 0 .. time
  BY TimesAreFinite DEF HistoryOK
<1>6. f \in [Times -> Nat]
  BY <1>2 DEF HistoryOK, Verifier, Limiters
<1>7. PICK new \in [count : Nat, since : Nat] :
          /\ buckets' = Tracked(kept, c, new)
          /\ new.count \in 1 .. VerifyLimit /\ new.since \in 0 .. time
          /\ time - new.since < Window
          /\ Counts(more, new)
  BY <1>1, <1>2, <1>3, <1>6, WindowOfRequest
<1>8. /\ HistoryOK' /\ Verifier(c)' = more
      /\ \A d \in Clients : Guard(d)' = Guard(d)
      /\ \A d \in Clients : d # c => Verifier(d)' = Verifier(d)
  <2>1. PICK l \in Limiters : l = "verify"
    BY DEF Limiters
  <2>2. passed' = [passed EXCEPT ![l][c] = Once(@)]
    BY <2>1 DEF AllowRequest
  <2>3. /\ HistoryOK' /\ passed'[l][c] = Once(passed[l][c])
        /\ \A m \in Limiters : \A d \in Clients :
              m # l \/ d # c => passed'[m][d] = passed[m][d]
    BY <1>5, <2>2, CountedOnce
  <2>4. Once(passed[l][c]) = more
    BY <1>2, <1>3, <2>1 DEF Verifier
  <2> QED BY <2>1, <2>3, <2>4 DEF Guard, Verifier, Limiters
<1>9. /\ DOMAIN buckets' = DOMAIN kept \cup {c}
      /\ \A d \in DOMAIN buckets' : buckets'[d] = IF d = c THEN new ELSE kept[d]
      /\ buckets' = [d \in DOMAIN buckets' |-> buckets'[d]]
  BY <1>7 DEF Tracked
<1>10. BucketsOK'
  <2>1. Fits(kept, c)
    BY <1>1 DEF AllowRequest
  <2>2. IsFiniteSet(DOMAIN kept \cup {c}) /\ Cardinality(DOMAIN kept \cup {c}) <= TrackCap
    <3>1. CASE c \in DOMAIN kept
      <4>1. DOMAIN kept \cup {c} = DOMAIN kept
        BY <3>1
      <4> QED BY <1>4, <4>1
    <3>2. CASE c \notin DOMAIN kept
      <4>1. Cardinality(DOMAIN kept \cup {c}) = Cardinality(DOMAIN kept) + 1
            /\ IsFiniteSet(DOMAIN kept \cup {c})
        BY <1>4, <3>2, FS_AddElement
      <4>2. Cardinality(DOMAIN kept) < TrackCap /\ Cardinality(DOMAIN kept) \in Nat
        BY <1>4, <2>1, <3>2, FS_CardinalityType DEF Fits
      <4> QED BY <4>1, <4>2, RateNumbers
    <3> QED BY <3>1, <3>2
  <2>3. buckets' \in [DOMAIN buckets' -> [count : Nat, since : Nat]]
    BY <1>4, <1>7, <1>9
  <2>4. \A d \in DOMAIN buckets' : /\ buckets'[d].count \in 1 .. VerifyLimit
                                   /\ buckets'[d].since \in 0 .. time
    BY <1>4, <1>7, <1>9
  <2> QED BY <1>4, <1>5, <1>9, <2>2, <2>3, <2>4 DEF BucketsOK
<1>11. ASSUME NEW d \in Clients
       PROVE  CountsOf(buckets, d)'
  <2>1. CASE d = c
    <3>1. InWindow(buckets, d)' /\ buckets'[d] = new
      BY <1>5, <1>7, <1>9, <2>1 DEF InWindow
    <3>2. Counts(Verifier(d), buckets[d])'
      BY <1>5, <1>7, <1>8, <2>1, <3>1 DEF Counts
    <3> QED BY <3>1, <3>2 DEF CountsOf
  <2>2. CASE d # c
    <3>1. CountsOf(kept, d) /\ Verifier(d)' = Verifier(d)
      BY <1>4, <1>8, <2>2
    <3>2. InWindow(buckets, d)' <=> InWindow(kept, d)
      BY <1>5, <1>9, <2>2 DEF InWindow
    <3>3. InWindow(kept, d) => buckets'[d] = kept[d]
      BY <1>9, <2>2 DEF InWindow
    <3> QED BY <1>5, <3>1, <3>2, <3>3 DEF CountsOf, Counts, Rests, WindowTo
  <2> QED BY <2>1, <2>2
<1>12. ASSUME NEW d \in Clients, NEW t \in 0 .. time
       PROVE  SumFunctionOnSet(Verifier(d)', WindowTo(t)) < 2 * VerifyLimit
  <2>1. SumFunctionOnSet(Verifier(d), WindowTo(t)) < 2 * VerifyLimit
    BY DEF VerifierInv, Doubled, PassedIn, Verifier
  <2>2. CASE d # c
    BY <1>8, <2>1, <2>2
  <2>3. CASE d = c /\ t # time
    <3>1. time \notin WindowTo(t) /\ t \in Times
      BY <1>5, <2>3, RateNumbers DEF WindowTo, Times
    <3>2. SumFunctionOnSet(more, WindowTo(t)) = SumFunctionOnSet(f, WindowTo(t))
      BY <1>3, <1>5, <1>6, <3>1, TimesAreFinite, OnceAddsOne
    <3> QED BY <1>2, <1>8, <2>1, <2>3, <3>2
  <2>4. CASE d = c /\ t = time
    <3>1. more \in [Times -> Nat]
      BY <1>3, <1>5, <1>6, OnceAddsOne
    <3>2. PICK since : since = new.since
      OBVIOUS
    <3>3. since \in 0 .. time /\ time - since < Window
      BY <1>7, <3>2
    <3>4. /\ SumFunctionOnSet(more, since .. time) <= VerifyLimit
          /\ SumFunctionOnSet(more, Before(since)) < VerifyLimit
      BY <1>7, <3>2, RateNumbers DEF Counts
    <3>5. /\ SumFunctionOnSet(more, WindowTo(time))
                <= SumFunctionOnSet(more, Before(since)) + SumFunctionOnSet(more, since .. time)
          /\ SumFunctionOnSet(more, Before(since)) \in Nat
          /\ SumFunctionOnSet(more, since .. time) \in Nat
          /\ SumFunctionOnSet(more, WindowTo(time)) \in Nat
      BY <1>5, <3>1, <3>3, WindowSplits
    <3>6. SumFunctionOnSet(more, WindowTo(time)) < 2 * VerifyLimit
      BY <3>4, <3>5, RateNumbers
    <3> QED BY <1>8, <2>4, <3>6
  <2> QED BY <2>2, <2>3, <2>4
<1>13. Doubled'
  BY <1>5, <1>12 DEF Doubled, PassedIn, Verifier, WindowTo
<1> QED BY <1>8, <1>10, <1>11, <1>13 DEF VerifierInv

\* A window that ends as time goes by leaves less than the limit behind.
LEMMA WindowEnds ==
    ASSUME time \in Times, time + 1 \in Times, NEW f \in [Times -> Nat], f[time + 1] = 0,
           NEW bucket \in [count : Nat, since : Nat],
           bucket.count \in 1 .. VerifyLimit, bucket.since \in 0 .. time,
           Counts(f, bucket)
    PROVE  /\ SumFunctionOnSet(f, bucket.since .. (time + 1)) = bucket.count
           /\ time + 1 - bucket.since >= Window =>
                 SumFunctionOnSet(f, WindowTo(time + 1)) < VerifyLimit
<1> DEFINE since == bucket.since
           open == since .. time
           all == since .. (time + 1)
<1>1. time \in Nat /\ time + 1 <= MaxTime /\ since \in Nat /\ since <= time /\ MaxTime \in Nat
  BY RateNumbers, TimesAreFinite
<1>2. /\ all \subseteq Times /\ open \cup {time + 1} = all /\ time + 1 \notin open
      /\ since \in all /\ since \in Times
  BY <1>1 DEF Times
<1>3. \A x \in Times : f[x] \in Nat /\ f[x] \in Int
  OBVIOUS
<1>4. SumFunctionOnSet(f, open) = bucket.count /\ f[since] >= 1
  BY DEF Counts
<1>5. time + 1 - since >= Window => WindowTo(time + 1) \subseteq all \ {since}
  BY <1>1, RateNumbers DEF WindowTo
<1> HIDE DEF since, open, all
<1>6. IsFiniteSet(open) /\ IsFiniteSet(all) /\ IsFiniteSet(all \ {since}) /\ open \subseteq all
  BY <1>2, TimesAreFinite, FS_Subset
<1>7. SumFunctionOnSet(f, all) = bucket.count
  <2>1. SumFunctionOnSet(f, open \cup {time + 1}) = f[time + 1] + SumFunctionOnSet(f, open)
    BY <1>2, <1>3, <1>6, SumAdd
  <2> QED BY <1>2, <1>4, <2>1
<1>8. SumFunctionOnSet(f, all) = f[since] + SumFunctionOnSet(f, all \ {since})
  BY <1>2, <1>3, <1>6, SumRemove
<1>9. /\ SumFunctionOnSet(f, all \ {since}) \in Int
      /\ f[since] \in Nat
  BY <1>2, <1>3, <1>6, SumType
<1>10. ASSUME time + 1 - since >= Window
       PROVE  SumFunctionOnSet(f, WindowTo(time + 1)) < VerifyLimit
  <2>1. SumFunctionOnSet(f, WindowTo(time + 1)) <= SumFunctionOnSet(f, all \ {since})
    BY <1>2, <1>3, <1>5, <1>6, <1>10, SumOfSubset
  <2>2. SumFunctionOnSet(f, WindowTo(time + 1)) \in Int
    BY <1>2, <1>3, <1>5, <1>6, <1>10, SumType, FS_Subset
  <2> QED BY <1>4, <1>7, <1>8, <1>9, <2>1, <2>2, RateNumbers
<1> QED BY <1>7, <1>10 DEF since, all

\* Time goes by.
LEMMA TickKeepsLimits ==
    ASSUME HistoryOK, TellsGuard(hits), SlidingKept, VerifierInv, LimitsTick
    PROVE  HistoryOK' /\ TellsGuard(hits)' /\ SlidingKept' /\ VerifierInv'
<1>1. /\ time \in Times /\ time + 1 \in Times /\ time \in Nat /\ time' = time + 1
      /\ UNCHANGED <<hits, lastSweep, buckets, passed>>
  BY TimesAreFinite, RateNumbers DEF HistoryOK, LimitsTick, Times
<1>2. HistoryOK'
  <2>1. lastSweep' \in 0 .. time'
    BY <1>1 DEF HistoryOK
  <2>2. \A u \in Times : u > time' => u > time
    BY <1>1, TimesAreFinite
  <2> QED BY <1>1, <2>1, <2>2 DEF HistoryOK
<1>3. \A c \in Clients : /\ Guard(c)' = Guard(c) /\ Verifier(c)' = Verifier(c)
                         /\ Guard(c) \in [Times -> Nat] /\ Guard(c)[time + 1] = 0
                         /\ Verifier(c) \in [Times -> Nat] /\ Verifier(c)[time + 1] = 0
  <2>1. time + 1 > time
    BY <1>1
  <2> QED BY <1>1, <2>1 DEF Guard, Verifier, HistoryOK, Limiters
<1>4. TellsGuard(hits)'
  <2>1. \A u \in Times : time + 1 - u < Window => time - u < Window
    BY <1>1, TimesAreFinite, RateNumbers
  <2>2. ASSUME NEW c \in Clients, NEW u \in Times, time' - u < Window
        PROVE  Guard(c)'[u] = IF c \in DOMAIN hits' THEN hits'[c][u] ELSE 0
    <3>1. time - u < Window
      BY <1>1, <2>1, <2>2
    <3>2. Guard(c)[u] = IF c \in DOMAIN hits THEN hits[c][u] ELSE 0
      BY <3>1 DEF TellsGuard
    <3> QED BY <1>1, <1>3, <3>2
  <2>3. hits' \in [DOMAIN hits' -> [Times -> Nat]] /\ DOMAIN hits' \subseteq Clients
    BY <1>1 DEF TellsGuard
  <2> QED BY <2>2, <2>3 DEF TellsGuard
<1>5. \A t \in 0 .. (time + 1) : t = time + 1 \/ t \in 0 .. time
  BY <1>1
<1>10. /\ IsFiniteSet(WindowTo(time + 1))
       /\ \A f \in [Times -> Nat] : \A x \in WindowTo(time + 1) : f[x] \in Int
  <2>1. WindowTo(time + 1) \in SUBSET Times
    BY <1>1, TimesAreFinite
  <2> QED BY <2>1, TimesAreFinite
<1>6. SlidingKept'
  <2> SUFFICES ASSUME NEW c \in Clients, NEW t \in 0 .. (time + 1)
               PROVE  SumFunctionOnSet(Guard(c), WindowTo(t)) <= HitLimit
    BY <1>1, <1>3 DEF SlidingKept, PassedIn, Guard, WindowTo
  <2>1. \A u \in 0 .. time : SumFunctionOnSet(Guard(c), WindowTo(u)) <= HitLimit
    BY DEF SlidingKept, PassedIn, Guard
  <2>2. CASE t = time + 1
    <3>1. PICK f \in [Times -> Nat] : f = Guard(c)
      BY <1>3
    <3>2. /\ SumFunctionOnSet(f, WindowTo(time + 1)) <= SumFunctionOnSet(f, WindowTo(time))
          /\ SumFunctionOnSet(f, WindowTo(time)) \in Nat
      BY <1>1, <1>3, <3>1, WindowsEmpty
    <3>3. SumFunctionOnSet(f, WindowTo(time + 1)) \in Int
      BY <1>1, <1>10, SumType
    <3>4. SumFunctionOnSet(f, WindowTo(time)) <= HitLimit
      BY <1>1, <2>1, <3>1
    <3> QED BY <2>2, <3>1, <3>2, <3>3, <3>4, RateNumbers
  <2> QED BY <1>5, <2>1, <2>2
<1>7. Doubled'
  <2> SUFFICES ASSUME NEW c \in Clients, NEW t \in 0 .. (time + 1)
               PROVE  SumFunctionOnSet(Verifier(c), WindowTo(t)) < 2 * VerifyLimit
    BY <1>1, <1>3 DEF Doubled, PassedIn, Verifier, WindowTo
  <2>1. \A u \in 0 .. time : SumFunctionOnSet(Verifier(c), WindowTo(u)) < 2 * VerifyLimit
    BY DEF VerifierInv, Doubled, PassedIn, Verifier
  <2>2. CASE t = time + 1
    <3>1. PICK f \in [Times -> Nat] : f = Verifier(c)
      BY <1>3
    <3>2. /\ SumFunctionOnSet(f, WindowTo(time + 1)) <= SumFunctionOnSet(f, WindowTo(time))
          /\ SumFunctionOnSet(f, WindowTo(time)) \in Nat
      BY <1>1, <1>3, <3>1, WindowsEmpty
    <3>3. SumFunctionOnSet(f, WindowTo(time + 1)) \in Int
      BY <1>1, <1>10, SumType
    <3>4. SumFunctionOnSet(f, WindowTo(time)) < 2 * VerifyLimit
      BY <1>1, <2>1, <3>1
    <3> QED BY <2>2, <3>1, <3>2, <3>3, <3>4, RateNumbers
  <2> QED BY <1>5, <2>1, <2>2
<1>8. BucketsOK'
  BY <1>1 DEF VerifierInv, BucketsOK
<1>9. ASSUME NEW c \in Clients
      PROVE  CountsOf(buckets, c)'
  <2>1. PICK f \in [Times -> Nat] : f = Verifier(c)
    BY <1>3
  <2>2. f[time + 1] = 0 /\ Verifier(c)' = f /\ CountsOf(buckets, c)
    BY <1>3, <2>1 DEF VerifierInv
  <2>3. CASE InWindow(buckets, c)
    <3>1. PICK bucket \in [count : Nat, since : Nat] : bucket = buckets[c]
      BY <2>3 DEF VerifierInv, BucketsOK, InWindow
    <3>2. /\ bucket.count \in 1 .. VerifyLimit /\ bucket.since \in 0 .. time
          /\ Counts(f, bucket) /\ c \in DOMAIN buckets
      BY <2>1, <2>2, <2>3, <3>1 DEF VerifierInv, BucketsOK, InWindow, CountsOf
    <3>3. /\ SumFunctionOnSet(f, bucket.since .. (time + 1)) = bucket.count
          /\ time + 1 - bucket.since >= Window =>
                 SumFunctionOnSet(f, WindowTo(time + 1)) < VerifyLimit
      BY <1>1, <2>2, <3>2, WindowEnds
    <3>4. InWindow(buckets, c)' <=> time + 1 - bucket.since < Window
      BY <1>1, <3>1, <3>2 DEF InWindow
    <3>5. CASE time + 1 - bucket.since < Window
      <4>1. Counts(Verifier(c), buckets[c])'
        BY <1>1, <2>2, <3>1, <3>2, <3>3 DEF Counts
      <4> QED BY <3>4, <3>5, <4>1 DEF CountsOf
    <3>6. CASE time + 1 - bucket.since >= Window
      <4>1. Rests(Verifier(c))'
        BY <1>1, <2>2, <3>3, <3>6 DEF Rests, WindowTo
      <4>2. ~InWindow(buckets, c)'
        BY <1>1, <3>2, <3>4, <3>6, RateNumbers
      <4> QED BY <4>1, <4>2 DEF CountsOf
    <3>7. time + 1 - bucket.since \in Int
      BY <1>1, <3>2
    <3> QED BY <3>5, <3>6, <3>7, RateNumbers
  <2>4. CASE ~InWindow(buckets, c)
    <3>1. ~InWindow(buckets, c)'
      BY <1>1, <2>4, RateNumbers DEF InWindow, VerifierInv, BucketsOK
    <3>2. Rests(f)
      BY <2>1, <2>2, <2>4 DEF CountsOf
    <3>3. /\ SumFunctionOnSet(f, WindowTo(time + 1)) <= SumFunctionOnSet(f, WindowTo(time))
          /\ SumFunctionOnSet(f, WindowTo(time)) \in Nat
      BY <1>1, <2>2, WindowsEmpty
    <3>4. SumFunctionOnSet(f, WindowTo(time + 1)) \in Int
      BY <1>1, <1>10, SumType
    <3>5. SumFunctionOnSet(f, WindowTo(time + 1)) < VerifyLimit
      BY <3>2, <3>3, <3>4, RateNumbers DEF Rests
    <3>6. Rests(Verifier(c))'
      BY <1>1, <2>2, <3>5 DEF Rests, WindowTo
    <3> QED BY <3>1, <3>6 DEF CountsOf
  <2> QED BY <2>3, <2>4
<1> QED BY <1>2, <1>4, <1>6, <1>7, <1>8, <1>9 DEF VerifierInv

\* Steps that let nothing through and leave the clock keep the verifier's windows true.
LEMMA PrunedKeepsVerifier ==
    ASSUME VerifierInv, UNCHANGED time, \A d \in Clients : Verifier(d)' = Verifier(d),
           buckets' = buckets \/ buckets' = Pruned
    PROVE  VerifierInv'
<1>1. BucketsOK'
  <2>1. CASE buckets' = buckets
    BY <2>1 DEF VerifierInv, BucketsOK
  <2>2. CASE buckets' = Pruned
    <3>1. /\ Pruned \in [DOMAIN Pruned -> [count : Nat, since : Nat]]
          /\ DOMAIN Pruned \subseteq Clients
          /\ IsFiniteSet(DOMAIN Pruned) /\ Cardinality(DOMAIN Pruned) <= TrackCap
          /\ \A c \in DOMAIN Pruned : /\ Pruned[c].count \in 1 .. VerifyLimit
                                      /\ Pruned[c].since \in 0 .. time
      BY PrunedKeepsWindows, PrunedIsAsGood DEF VerifierInv, BucketsOK
    <3> QED BY <2>2, <3>1 DEF BucketsOK
  <2> QED BY <2>1, <2>2
<1>2. ASSUME NEW c \in Clients
      PROVE  CountsOf(buckets, c)'
  <2>1. PICK table : table = buckets'
    OBVIOUS
  <2>2. CountsOf(table, c)
    BY <2>1, PrunedIsAsGood DEF VerifierInv
  <2> QED BY <2>1, <2>2 DEF CountsOf, Counts, Rests, InWindow, WindowTo
<1>3. Doubled'
  BY DEF VerifierInv, Doubled, PassedIn, Verifier, WindowTo
<1> QED BY <1>1, <1>2, <1>3 DEF VerifierInv

-----------------------------------------------------------------------------
(* The feed, and the limiters together.                                    *)

\* What is at a place of two sequences put together.
LEMMA PlacesOfJoined ==
    ASSUME NEW a \in Seq(BOOLEAN), NEW b \in Seq(BOOLEAN)
    PROVE  /\ a \o b \in Seq(BOOLEAN) /\ Len(a \o b) = Len(a) + Len(b)
           /\ \A i \in 1 .. Len(a) + Len(b) :
                 (a \o b)[i] = IF i <= Len(a) THEN a[i] ELSE b[i - Len(a)]
OBVIOUS

\* The latest of few are all of them, of many the last ones.
LEMMA LatestIsTail ==
    ASSUME NEW a \in Seq(BOOLEAN)
    PROVE  /\ Latest(a) \in Seq(BOOLEAN)
           /\ Len(a) <= FeedCap => Latest(a) = a
           /\ Len(a) >= FeedCap =>
                 /\ Len(Latest(a)) = FeedCap
                 /\ \A i \in 1 .. FeedCap : Latest(a)[i] = a[Len(a) - FeedCap + i]
<1>1. PICK low : low = IF Len(a) > FeedCap THEN Len(a) - FeedCap + 1 ELSE 1
  OBVIOUS
<1>2. Latest(a) = SubSeq(a, low, Len(a))
  BY <1>1, Zenon DEF Latest
<1>3. Len(a) \in Nat /\ FeedCap \in Nat
  BY RateNumbers
<1>4. CASE Len(a) > FeedCap
  <2>1. low = Len(a) - FeedCap + 1
    BY <1>1, <1>3, <1>4
  <2>2. SubSeq(a, Len(a) - FeedCap + 1, Len(a)) \in Seq(BOOLEAN)
    BY <1>3, <1>4
  <2>3. /\ Len(SubSeq(a, Len(a) - FeedCap + 1, Len(a))) = FeedCap
        /\ \A i \in 1 .. FeedCap :
              SubSeq(a, Len(a) - FeedCap + 1, Len(a))[i] = a[Len(a) - FeedCap + i]
    BY <1>3, <1>4
  <2> QED BY <1>2, <1>3, <1>4, <2>1, <2>2, <2>3
<1>5. CASE Len(a) <= FeedCap
  <2>1. low = 1
    BY <1>1, <1>3, <1>5
  <2>2. SubSeq(a, 1, Len(a)) = a
    OBVIOUS
  <2>3. Latest(a) = a
    BY <1>2, <2>1, <2>2
  <2>4. Len(a) >= FeedCap => Len(a) = FeedCap /\ \A i \in 1 .. FeedCap : Len(a) - FeedCap + i = i
    BY <1>3, <1>5
  <2> QED BY <2>3, <2>4
<1> QED BY <1>3, <1>4, <1>5

\* The latest of the latest and more are the latest of all.
LEMMA LatestOfLatest ==
    ASSUME NEW a \in Seq(BOOLEAN), NEW b \in Seq(BOOLEAN)
    PROVE  Latest(Latest(a) \o b) = Latest(a \o b)
<1>1. CASE Len(a) <= FeedCap
  BY <1>1, LatestIsTail
<1>2. CASE Len(a) > FeedCap
  <2>1. PICK c \in Seq(BOOLEAN) : c = Latest(a)
    BY LatestIsTail
  <2>2. PICK n \in Nat : n = Len(a)
    OBVIOUS
  <2>3. PICK m \in Nat : m = Len(b)
    OBVIOUS
  <2>4. PICK F \in Nat : F = FeedCap
    BY RateNumbers
  <2>5. n > F /\ Len(c) = F /\ \A i \in 1 .. F : c[i] = a[n - F + i]
    BY <1>2, <2>1, <2>2, <2>4, LatestIsTail, SMTT(30)
  <2>6. PICK x \in Seq(BOOLEAN) : x = c \o b
    BY PlacesOfJoined
  <2>7. PICK y \in Seq(BOOLEAN) : y = a \o b
    BY PlacesOfJoined
  <2>8. /\ Len(x) = F + m
        /\ \A i \in 1 .. F + m : x[i] = IF i <= F THEN c[i] ELSE b[i - F]
    BY <2>3, <2>5, <2>6, PlacesOfJoined
  <2>9. /\ Len(y) = n + m
        /\ \A i \in 1 .. n + m : y[i] = IF i <= n THEN a[i] ELSE b[i - n]
    BY <2>2, <2>3, <2>7, PlacesOfJoined
  <2>10. ASSUME NEW i \in 1 .. F
         PROVE  x[m + i] = y[n + m - F + i]
    <3>1. x[m + i] = IF m + i <= F THEN c[m + i] ELSE b[m + i - F]
      BY <2>8
    <3>2. y[n + m - F + i] = IF n + m - F + i <= n THEN a[n + m - F + i] ELSE b[n + m - F + i - n]
      <4>1. n + m - F + i \in 1 .. n + m
        BY <2>5
      <4> QED BY <2>9, <4>1, SMTT(30)
    <3>3. n + m - F + i - n = m + i - F /\ (n + m - F + i <= n <=> m + i <= F)
      OBVIOUS
    <3>4. m + i <= F => c[m + i] = a[n + m - F + i]
      <4>1. n - F + (m + i) = n + m - F + i
        OBVIOUS
      <4>2. m + i <= F => c[m + i] = a[n - F + (m + i)]
        BY <2>5
      <4> QED BY <4>1, <4>2
    <3> QED BY <3>1, <3>2, <3>3, <3>4
  <2>11. /\ Len(Latest(x)) = F /\ Latest(x) \in Seq(BOOLEAN)
         /\ \A i \in 1 .. F : Latest(x)[i] = x[m + i]
    <3>1. Len(x) >= FeedCap /\ \A i \in 1 .. F : Len(x) - FeedCap + i = m + i
      BY <2>4, <2>8
    <3> QED BY <2>4, <3>1, LatestIsTail, ZenonT(60)
  <2>12. /\ Len(Latest(y)) = F /\ Latest(y) \in Seq(BOOLEAN)
         /\ \A i \in 1 .. F : Latest(y)[i] = y[n + m - F + i]
    <3>1. Len(y) >= FeedCap /\ \A i \in 1 .. F : Len(y) - FeedCap + i = n + m - F + i
      BY <2>4, <2>5, <2>9
    <3> QED BY <2>4, <3>1, LatestIsTail, ZenonT(60)
  <2>13. PICK p \in Seq(BOOLEAN) : p = Latest(x)
    BY <2>11
  <2>14. PICK q \in Seq(BOOLEAN) : q = Latest(y)
    BY <2>12
  <2>15. Len(p) = Len(q) /\ \A i \in 1 .. Len(p) : p[i] = q[i]
    BY <2>10, <2>11, <2>12, <2>13, <2>14
  <2>16. p = q
    <3>1. /\ p = [i \in 1 .. Len(p) |-> p[i]]
          /\ q = [i \in 1 .. Len(q) |-> q[i]]
      OBVIOUS
    <3> QED BY <2>15, <3>1, Zenon
  <2> QED BY <2>1, <2>6, <2>7, <2>13, <2>14, <2>16
<1>3. Len(a) \in Nat /\ FeedCap \in Nat
  BY RateNumbers
<1> QED BY <1>1, <1>2, <1>3

FeedOK ==
    /\ events \in Seq(BOOLEAN) /\ verified \in Seq(BOOLEAN)
    /\ FeedIsTheTail

\* The tables of both limiters are true to what was let through, and the feed to what
\* was verified.
LimitsInv ==
    /\ HistoryOK /\ TellsGuard(hits) /\ SlidingKept
    /\ VerifierInv /\ FeedOK

\* No window holds a request at first.
LEMMA LimitsStart ==
    ASSUME LimitsInit
    PROVE  LimitsInv
<1>1. time = 0 /\ 0 \in Times /\ lastSweep = 0 /\ 0 .. time = {0}
  BY RateNumbers DEF LimitsInit, Times
<1>2. Never \in [Times -> Nat] /\ \A u \in Times : Never[u] = 0
  BY DEF Never
<1>3. \A c \in Clients : Guard(c) = Never /\ Verifier(c) = Never
  BY DEF LimitsInit, Guard, Verifier
<1>4. HistoryOK
  BY <1>1, <1>2 DEF LimitsInit, HistoryOK, Limiters
<1>5. DOMAIN hits = {} /\ DOMAIN buckets = {} /\ hits = [c \in {} |-> 0] /\ buckets = [c \in {} |-> 0]
  BY DEF LimitsInit, Nothing
<1>6. TellsGuard(hits)
  BY <1>2, <1>3, <1>5 DEF TellsGuard
<1>7. SumFunctionOnSet(Never, WindowTo(0)) = 0
  BY <1>1, <1>2, TimesAreFinite, SumOfZeros
<1>8. SlidingKept
  BY <1>1, <1>3, <1>7, RateNumbers DEF SlidingKept, PassedIn, Guard
<1>9. Doubled
  BY <1>1, <1>3, <1>7, RateNumbers DEF Doubled, PassedIn, Verifier
<1>10. BucketsOK
  <2>1. IsFiniteSet(DOMAIN buckets) /\ Cardinality(DOMAIN buckets) = 0
    BY <1>5, FS_EmptySet
  <2> QED BY <1>5, <2>1, RateNumbers DEF BucketsOK
<1>11. \A c \in Clients : CountsOf(buckets, c)
  <2>1. \A c \in Clients : ~InWindow(buckets, c)
    BY <1>5 DEF InWindow
  <2>2. \A c \in Clients : Rests(Verifier(c))
    BY <1>1, <1>2, <1>3, <1>7, RateNumbers DEF Rests
  <2> QED BY <2>1, <2>2 DEF CountsOf
<1>12. FeedOK
  <2>1. events = <<>> /\ verified = <<>>
    BY DEF LimitsInit
  <2>2. Latest(<<>>) = <<>>
    BY RateNumbers DEF Latest
  <2> QED BY <2>1, <2>2 DEF FeedOK, FeedIsTheTail
<1> QED BY <1>4, <1>6, <1>8, <1>9, <1>10, <1>11, <1>12 DEF LimitsInv, VerifierInv

\* A request that the verifier lets through.
LEMMA AllowedKeepsLimits ==
    ASSUME LimitsInv, NEW c \in Clients, AllowRequest(c), UNCHANGED <<time, hits, lastSweep>>
    PROVE  HistoryOK' /\ TellsGuard(hits)' /\ SlidingKept' /\ VerifierInv'
<1>1. /\ HistoryOK' /\ VerifierInv'
      /\ \A d \in Clients : Guard(d)' = Guard(d)
  BY AllowKeepsVerifier DEF LimitsInv
<1>2. TellsGuard(hits)'
  BY <1>1 DEF LimitsInv, TellsGuard
<1>3. SlidingKept'
  BY <1>1 DEF LimitsInv, SlidingKept, PassedIn, Guard, WindowTo
<1> QED BY <1>1, <1>2, <1>3

\* Every request, and every step of the clock.
LEMMA RequestsKeepLimits ==
    ASSUME LimitsInv, LimitsNext
    PROVE  LimitsInv'
<1>1. ASSUME NEW c \in Clients, CheckRateLimit(c)
      PROVE  LimitsInv'
  <2>1. /\ HistoryOK' /\ TellsGuard(hits)' /\ SlidingKept'
        /\ \A d \in Clients : Verifier(d)' = Verifier(d)
    BY <1>1, CheckKeepsGuard DEF LimitsInv
  <2>2. UNCHANGED <<time, buckets, events, verified>>
    BY <1>1 DEF CheckRateLimit
  <2>3. VerifierInv'
    BY <2>1, <2>2, PrunedKeepsVerifier DEF LimitsInv
  <2>4. FeedOK'
    BY <2>2 DEF LimitsInv, FeedOK, FeedIsTheTail
  <2> QED BY <2>1, <2>3, <2>4 DEF LimitsInv
<1>2. ASSUME NEW c \in Clients, ReadFeed(c)
      PROVE  LimitsInv'
  <2>1. HistoryOK' /\ TellsGuard(hits)' /\ SlidingKept' /\ VerifierInv'
    BY <1>2, AllowedKeepsLimits DEF ReadFeed
  <2>2. FeedOK'
    BY <1>2 DEF ReadFeed, LimitsInv, FeedOK, FeedIsTheTail
  <2> QED BY <2>1, <2>2 DEF LimitsInv
<1>3. ASSUME NEW c \in Clients, NEW n \in 1 .. MaxProofs, NEW results \in [1 .. n -> BOOLEAN],
             VerifyProofs(c, results)
      PROVE  LimitsInv'
  <2>1. HistoryOK' /\ TellsGuard(hits)' /\ SlidingKept' /\ VerifierInv'
    BY <1>3, AllowedKeepsLimits DEF VerifyProofs
  <2>2. results \in Seq(BOOLEAN)
    BY RateAssumption
  <2>3. events' = Latest(events \o results) /\ verified' = verified \o results
    BY <1>3 DEF VerifyProofs
  <2>4. events = Latest(verified) /\ verified \in Seq(BOOLEAN) /\ events \in Seq(BOOLEAN)
    BY DEF LimitsInv, FeedOK, FeedIsTheTail
  <2>5. verified \o results \in Seq(BOOLEAN)
    BY <2>2, <2>4
  <2>6. events' = Latest(verified') /\ Latest(verified') \in Seq(BOOLEAN)
    BY <2>2, <2>3, <2>4, <2>5, LatestOfLatest, LatestIsTail
  <2>7. FeedOK'
    BY <2>3, <2>5, <2>6 DEF FeedOK, FeedIsTheTail
  <2> QED BY <2>1, <2>7 DEF LimitsInv
<1>4. ASSUME NEW c \in Clients, RefuseRequest(c)
      PROVE  LimitsInv'
  <2>1. buckets' = Pruned /\ UNCHANGED <<time, hits, lastSweep, events, passed, verified>>
    BY <1>4 DEF RefuseRequest
  <2>2. \A d \in Clients : Verifier(d)' = Verifier(d) /\ Guard(d)' = Guard(d)
    BY <2>1 DEF Verifier, Guard
  <2>3. VerifierInv'
    BY <2>1, <2>2, PrunedKeepsVerifier DEF LimitsInv
  <2>4. HistoryOK' /\ FeedOK'
    BY <2>1 DEF LimitsInv, HistoryOK, FeedOK, FeedIsTheTail
  <2>5. TellsGuard(hits)' /\ SlidingKept'
    BY <2>1, <2>2 DEF LimitsInv, TellsGuard, SlidingKept, PassedIn, WindowTo
  <2> QED BY <2>3, <2>4, <2>5 DEF LimitsInv
<1>5. ASSUME LimitsTick
      PROVE  LimitsInv'
  <2>1. HistoryOK' /\ TellsGuard(hits)' /\ SlidingKept' /\ VerifierInv'
    BY <1>5, TickKeepsLimits DEF LimitsInv
  <2>2. FeedOK'
    BY <1>5 DEF LimitsTick, LimitsInv, FeedOK, FeedIsTheTail
  <2> QED BY <2>1, <2>2 DEF LimitsInv
<1> QED BY <1>1, <1>2, <1>3, <1>4, <1>5 DEF LimitsNext, Requests

\* Every step keeps the tables true.
LEMMA LimitsInvHolds == LimitsSpec => []LimitsInv
<1>1. LimitsInv /\ UNCHANGED limitVars => LimitsInv'
  <2> SUFFICES ASSUME LimitsInv, UNCHANGED limitVars
               PROVE  LimitsInv'
    OBVIOUS
  <2>1. UNCHANGED <<time, hits, lastSweep, buckets, events, passed, verified>>
    BY DEF limitVars
  <2>2. \A d \in Clients : Verifier(d)' = Verifier(d) /\ Guard(d)' = Guard(d)
    BY <2>1 DEF Verifier, Guard
  <2>3. VerifierInv'
    BY <2>1, <2>2, PrunedKeepsVerifier DEF LimitsInv
  <2>4. HistoryOK' /\ FeedOK'
    BY <2>1 DEF LimitsInv, HistoryOK, FeedOK, FeedIsTheTail
  <2>5. TellsGuard(hits)' /\ SlidingKept'
    BY <2>1, <2>2 DEF LimitsInv, TellsGuard, SlidingKept, PassedIn, WindowTo
  <2> QED BY <2>3, <2>4, <2>5 DEF LimitsInv
<1> QED BY <1>1, LimitsStart, RequestsKeepLimits, PTL DEF LimitsSpec

\* However requests and sweeps follow each other, a client gets no more than the limit
\* through the exchange's guard in any window, and the feed is the tail of what was
\* verified (checkRateLimit and recordVerification).
THEOREM LimitsAreAlwaysKept == LimitsSpec => []LimitsAreKept
<1>1. LimitsInv => LimitsAreKept
  BY DEF LimitsInv, FeedOK, LimitsAreKept
<1> QED BY <1>1, LimitsInvHolds, PTL

\* However requests, prunings and ends of windows follow each other, a client gets less
\* than twice the limit through the verifier in any window, which is more than its comment
\* promises and all that its code does, and no more clients are tracked than may be
\* (allowRequest).
THEOREM VerifierBudgetAlwaysKept == LimitsSpec => []VerifierBudgetKept
<1>1. LimitsInv => VerifierBudgetKept
  BY DEF LimitsInv, VerifierInv, BucketsOK, Doubled, VerifierBudgetKept
<1> QED BY <1>1, LimitsInvHolds, PTL

=============================================================================
