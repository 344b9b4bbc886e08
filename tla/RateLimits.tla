----------------------------- MODULE RateLimits -----------------------------
(***************************************************************************)
(* The two request limiters of the web server and the feed of proof        *)
(* verifications.  The exchange routes keep the times of the requests they *)
(* let through (api-guard.ts); the proof verifier counts requests in       *)
(* windows that begin with the first request (zk/verify/route.ts).  Both   *)
(* forget clients: one at every sweep, the other when it tracks many.      *)
(* Of the array of times only the length and the ages matter: it is a      *)
(* count of requests for each time.                                        *)
(*                                                                         *)
(* A request is atomic: no handler awaits between reading and writing its  *)
(* limiter.  A client is the key made of its address (and method).         *)
(***************************************************************************)
EXTENDS Integers, Sequences, FiniteSets, Functions

CONSTANTS
    Clients,
    HitLimit,        \* requests in a window, exchange routes (30 and 120)
    VerifyLimit,     \* requests in a window, proof verifier (60)
    Window,          \* one minute
    PruneAbove,      \* clients tracked before old ones are dropped (128)
    TrackCap,        \* clients tracked at most (10000)
    FeedCap,         \* verifications kept (200)
    MaxProofs,       \* proofs in one request (100)
    MaxTime, MaxHits \* bound the model only

ASSUME RateAssumption ==
    /\ {HitLimit, VerifyLimit, Window, TrackCap, FeedCap, MaxProofs} \subseteq Nat \ {0}
    /\ {PruneAbove, MaxTime, MaxHits} \subseteq Nat

VARIABLES
    time,
    hits,       \* accepted requests of each client that is tracked, by time
    lastSweep,
    buckets,    \* the proof verifier's [count, since] of each client it tracks
    events,     \* the feed: validity of the latest verifications
    passed,     \* history: what each limiter let through, by client and time
    verified    \* history: every verification

limitVars == <<time, hits, lastSweep, buckets, events, passed, verified>>

Nothing == [c \in {} |-> 0]

Times == 0..MaxTime
Never == [t \in Times |-> 0]
Total(counts) == SumFunctionOnSet(counts, Times)
Once(counts) == [counts EXCEPT ![time] = @ + 1]

LimitsInit ==
    /\ time = 0 /\ lastSweep = 0
    /\ hits = Nothing /\ buckets = Nothing
    /\ events = <<>> /\ verified = <<>>
    /\ passed = [l \in {"guard", "verify"} |-> [c \in Clients |-> Never]]

-----------------------------------------------------------------------------

Younger(counts) == [t \in Times |-> IF time - t < Window THEN counts[t] ELSE 0]

\* Slip: a sweep forgets everybody.
SweptAll == IF time - lastSweep < Window THEN hits ELSE Nothing

\* sweep: idle clients are forgotten.
Swept ==
    IF time - lastSweep < Window THEN hits
    ELSE [c \in {d \in DOMAIN hits : Younger(hits[d]) # Never} |-> Younger(hits[c])]

Tracked(table, c, value) ==
    [d \in DOMAIN table \cup {c} |-> IF d = c THEN value ELSE table[d]]

\* checkRateLimit for a client: a refused request is not recorded.
CheckRateLimit(c) ==
    LET swept == Swept
        mine  == IF c \in DOMAIN swept THEN Younger(swept[c]) ELSE Never
    IN  /\ lastSweep' = IF time - lastSweep < Window THEN lastSweep ELSE time
        /\ IF Total(mine) >= HitLimit
           THEN hits' = Tracked(swept, c, mine) /\ UNCHANGED passed
           ELSE /\ hits' = Tracked(swept, c, Once(mine))
                /\ passed' = [passed EXCEPT !["guard"][c] = Once(@)]
        /\ UNCHANGED <<time, buckets, events, verified>>

-----------------------------------------------------------------------------

\* Slip: when many are tracked, windows that last are dropped as well.
PrunedAll == IF Cardinality(DOMAIN buckets) <= PruneAbove THEN buckets ELSE Nothing

\* allowRequest: old clients are dropped when many are tracked, and a new one is
\* refused when as many are tracked as may be.
Pruned ==
    IF Cardinality(DOMAIN buckets) <= PruneAbove THEN buckets
    ELSE [c \in {d \in DOMAIN buckets : time - buckets[d].since < Window} |-> buckets[c]]

Fits(table, c) == c \in DOMAIN table \/ Cardinality(DOMAIN table) < TrackCap

InWindow(table, c) == c \in DOMAIN table /\ time - table[c].since < Window

AllowRequest(c) ==
    LET kept == Pruned IN
    /\ Fits(kept, c)
    /\ InWindow(kept, c) => kept[c].count < VerifyLimit
    /\ buckets' = IF InWindow(kept, c)
                  THEN [kept EXCEPT ![c].count = @ + 1]
                  ELSE Tracked(kept, c, [count |-> 1, since |-> time])
    /\ passed' = [passed EXCEPT !["verify"][c] = Once(@)]

RefuseRequest(c) ==
    /\ \/ ~Fits(Pruned, c)
       \/ InWindow(Pruned, c) /\ Pruned[c].count >= VerifyLimit
    /\ buckets' = Pruned
    /\ UNCHANGED <<time, hits, lastSweep, events, passed, verified>>

\* recordVerification, once per proof of a request.
Latest(results) ==
    SubSeq(results, IF Len(results) > FeedCap THEN Len(results) - FeedCap + 1 ELSE 1,
           Len(results))

\* POST: a proof is valid when it verifies and was made for the note it names.
VerifyProofs(c, results) ==
    /\ AllowRequest(c)
    /\ events' = Latest(events \o results)
    /\ verified' = verified \o results
    /\ UNCHANGED <<time, hits, lastSweep>>

\* GET, or a POST with no proof, too many of them, or no JSON.
ReadFeed(c) ==
    /\ AllowRequest(c)
    /\ UNCHANGED <<time, hits, lastSweep, events, verified>>

LimitsTick ==
    /\ time < MaxTime
    /\ time' = time + 1
    /\ UNCHANGED <<hits, lastSweep, buckets, events, passed, verified>>

Requests(c) ==
    \/ CheckRateLimit(c) \/ ReadFeed(c) \/ RefuseRequest(c)
    \/ \E n \in 1..MaxProofs : \E results \in [1..n -> BOOLEAN] : VerifyProofs(c, results)

LetThrough ==
    SumFunctionOnSet([c \in Clients |-> Total(passed["guard"][c]) + Total(passed["verify"][c])], Clients)

LimitsNext ==
    \/ LimitsTick
    \/ LetThrough < MaxHits /\ \E c \in Clients : Requests(c)

LimitsSpec == LimitsInit /\ [][LimitsNext]_limitVars

-----------------------------------------------------------------------------

LimitsTypeOK ==
    /\ time \in 0..MaxTime /\ lastSweep \in 0..time
    /\ DOMAIN hits \cup DOMAIN buckets \subseteq Clients
    /\ \A c \in DOMAIN buckets : buckets[c].count \in 1..VerifyLimit

\* The requests of c that a limiter let through in the window that ends at t.
WindowTo(t) == {u \in 0..t : t - u < Window}
PassedIn(limiter, c, t) == SumFunctionOnSet(passed[limiter][c], WindowTo(t))

\* "fewer than `limit` hits in the last `windowMs`", whatever was swept meanwhile.
SlidingKept ==
    \A c \in Clients : \A t \in 0..time : PassedIn("guard", c, t) <= HitLimit

\* The verifier's windows do not slide, though its comment says "Sliding one-minute
\* window": they begin with a request, so one less than twice the limit may pass within
\* a minute, at the end of one window and the beginning of the next.  It is never more,
\* whatever was pruned meanwhile, and never more clients are tracked than may be.
VerifierBudgetKept ==
    /\ \A c \in Clients : \A t \in 0..time : PassedIn("verify", c, t) < 2 * VerifyLimit
    /\ Cardinality(DOMAIN buckets) <= TrackCap

\* The feed is the tail of all that was verified, in order ("oldest entries drop
\* off at 200"), so the auditor's counts are about the latest proofs.
FeedIsTheTail == events = Latest(verified)

\* The exchange's limiter and the feed keep to their bounds, over sweeps and clients that
\* were forgotten.
LimitsAreKept == SlidingKept /\ FeedIsTheTail

=============================================================================
