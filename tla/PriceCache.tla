----------------------------- MODULE PriceCache -----------------------------
(***************************************************************************)
(* The server's cache of prices: spot prices of all assets in one entry,   *)
(* candles in an entry for each asset.  Requests look at the entry, fetch  *)
(* when it is old, and come back to a cache that others have written       *)
(* meanwhile.  The entries share nothing, so one of them is followed,      *)
(* together with the market list that its route read before the fetch.     *)
(*                                                                         *)
(* A price is told by the time it was taken at the source.                 *)
(***************************************************************************)
EXTENDS Integers

CONSTANTS
    Readers,      \* requests under way at once
    SpotTtl,      \* how long the spot prices are served (60 s)
    CandleTtl,    \* how long candles are served (300 s)
    FetchLimit,   \* a fetch is aborted after this time (8 s)
    DaysAsked,    \* values of the days parameter; 0 for none, zero or no number
    LastTime      \* bounds the model only

ASSUME CacheAssumption ==
    /\ {SpotTtl, CandleTtl, FetchLimit} \subseteq Nat \ {0}
    /\ DaysAsked \subseteq Int /\ LastTime \in Nat

VARIABLES
    clock,
    kind,      \* the entry followed, "spot" or "candles"
    cached,    \* the entry: NoPrices or [at, taken, days]
    fetching,  \* of each request: [since, days, before] while it fetches
    reply,     \* the last answer: [prices, at, asked, days, from]
    newest     \* history: the latest `taken` ever answered

cacheVars == <<clock, kind, cached, fetching, reply, newest>>

NoPrices == [at |-> -1, taken |-> -1, days |-> 0]
NotFetching == [since |-> -1, days |-> 0, before |-> NoPrices]
NoReply == [prices |-> NoPrices, at |-> 0, asked |-> 0, days |-> 0, from |-> "nobody"]

CacheInit ==
    /\ clock = 0 /\ newest = -1
    /\ kind \in {"spot", "candles"}
    /\ cached = NoPrices /\ reply = NoReply
    /\ fetching = [r \in Readers |-> NotFetching]

-----------------------------------------------------------------------------

Ttl == IF kind = "spot" THEN SpotTtl ELSE CandleTtl

\* Slip: an entry never gets old.
KeptForever == cached # NoPrices

Fresh == cached # NoPrices /\ clock - cached.at < Ttl

\* The range of candles: seven days unless a number is given, from 1 to 30.
DaysServed(asked) ==
    IF kind = "spot" THEN 0
    ELSE IF asked = 0 THEN 7
    ELSE IF asked < 1 THEN 1 ELSE IF asked > 30 THEN 30 ELSE asked

Replies(prices, asked, days, from) ==
    /\ reply' = [prices |-> prices, at |-> clock, asked |-> asked,
                 days |-> days, from |-> from]
    /\ newest' = IF prices.taken > newest THEN prices.taken ELSE newest

\* The part of getSpotPrices and getOhlc before the await.  Markets are read first,
\* the entry is not keyed by the range of days.
AskPrices(r, asked) ==
    /\ fetching[r] = NotFetching
    /\ IF Fresh
       THEN Replies(cached, clock, DaysServed(asked), "cache") /\ UNCHANGED fetching
       ELSE /\ fetching' = [fetching EXCEPT ![r] =
                               [since |-> clock, days |-> DaysServed(asked), before |-> cached]]
            /\ UNCHANGED <<reply, newest>>
    /\ UNCHANGED <<clock, kind, cached>>

Comes(r, prices, from) ==
    /\ Replies(prices, fetching[r].since, fetching[r].days, from)
    /\ fetching' = [fetching EXCEPT ![r] = NotFetching]
    /\ UNCHANGED <<clock, kind>>

\* The source answered what it knew at some time since the question.
PricesCome(r) ==
    /\ fetching[r] # NotFetching
    /\ \E taken \in fetching[r].since..clock :
          /\ cached' = [at |-> clock, taken |-> taken, days |-> fetching[r].days]
          /\ Comes(r, cached', "source")

\* What is answered without prices from the source: the entry as it is now for spot
\* prices; for candles the entry as it was at the question, and nothing when the
\* source answered an empty list.
Fallback(r, empty) ==
    IF kind = "spot" THEN cached
    ELSE IF empty THEN NoPrices ELSE fetching[r].before

NoPricesCome(r, empty) ==
    /\ fetching[r] # NotFetching
    /\ Comes(r, Fallback(r, empty), "fallback")
    /\ UNCHANGED cached

\* A fetch older than FetchLimit was aborted: NoPricesCome.
CacheTick ==
    /\ clock < LastTime
    /\ \A r \in Readers :
          fetching[r] # NotFetching => clock - fetching[r].since < FetchLimit
    /\ clock' = clock + 1
    /\ UNCHANGED <<kind, cached, fetching, reply, newest>>

CacheNext ==
    \/ CacheTick
    \/ \E r \in Readers :
          \/ \E asked \in DaysAsked : AskPrices(r, asked)
          \/ PricesCome(r)
          \/ \E empty \in BOOLEAN : NoPricesCome(r, empty)

CacheSpec == CacheInit /\ [][CacheNext]_cacheVars

-----------------------------------------------------------------------------

CacheTypeOK ==
    /\ cached.taken <= cached.at /\ cached.at <= clock
    /\ \A r \in Readers : fetching[r].since <= clock

\* However requests and fetches overlap: prices from a young entry or from the source
\* were taken less than the time to live and one fetch ago; the market list beside them
\* is at most one fetch old; whatever is answered, also in place of prices that did not
\* come, was taken at most one fetch before the time of its entry, which spot prices
\* carry (fetchedAt); and from one answer to a later one spot prices go back in time by
\* at most one fetch.
\* How old a fallback is, nothing bounds, and the routes call it live all the same.
\* (Candles carry the time of the answer, and may go back further: a failed fetch
\* answers what was there when it began, an empty answer is passed on, and the range may
\* be that of another request.)
AnswersKeepTheirTime ==
    /\ cached.at - cached.taken <= FetchLimit
    /\ reply.prices.at - reply.prices.taken <= FetchLimit
    /\ reply.at - reply.asked <= FetchLimit
    /\ reply.from \in {"cache", "source"} =>
          reply.at - reply.prices.taken < Ttl + FetchLimit
    /\ kind = "spot" => newest - reply.prices.taken <= FetchLimit

=============================================================================
