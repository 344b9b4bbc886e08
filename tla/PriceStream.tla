----------------------------- MODULE PriceStream -----------------------------
(***************************************************************************)
(* The live price stream of the exchange page: the primary socket          *)
(* (Binance) that is reopened with a growing delay whenever it closes, the *)
(* fallback socket (Coinbase), the polled prices (CoinGecko), and the      *)
(* status in the throttled snapshots the page is given.                    *)
(*                                                                         *)
(* The stream has one status for all its assets: it is live when a socket  *)
(* has a fresh price of any of them.  So a source counts for its youngest  *)
(* price, whose age is all that is kept of it (SnapshotStatus is the       *)
(* status over the prices of every asset).  The other prices of a snapshot *)
(* may be of any age.                                                      *)
(*                                                                         *)
(* Sockets report through callbacks that run after the call that caused    *)
(* them: stop() closes a socket, and its onclose runs later, perhaps when  *)
(* start() was called again.  One chain is a primary socket and the timer  *)
(* that reopens it.  Each start() begins a chain and nothing but a timer   *)
(* that finds the stream stopped ends one.                                 *)
(*                                                                         *)
(* A unit of time is the interval in which the snapshot is published       *)
(* anyway (2 s); the other durations are whole units.                      *)
(***************************************************************************)
EXTENDS Integers, FiniteSets, FiniteSetsExt

CONSTANTS
    Chains,     \* identities of chains; bounds how often start() is called
    Stale,      \* STALE_MS
    Grace,      \* HEALTH_GRACE_MS
    MaxDelay    \* MAX_RECONNECT_MS

ASSUME StreamAssumption ==
    /\ IsFiniteSet(Chains)
    /\ {Stale, Grace, MaxDelay} \subseteq Nat \ {0}

VARIABLES
    started,    \* started
    chain,      \* chain[c]: the primary socket or reconnect timer of chain c
    current,    \* binanceSocket: the chain whose socket stop() would close
    delay,      \* reconnectDelayMs
    fallback,   \* the fallback socket
    tried,      \* coinbaseStarted
    age,        \* age[s]: units since source s last delivered a price, of any asset
    fetching,   \* a poll is under way
    shown,      \* the status in the snapshot the page was last given
    given,      \* when that was: at the last beat, since then, or longer ago
    reachable,  \* whether the primary source accepts connections
    stops       \* history: stop() was called

primary   == <<chain, current, delay>>
secondary == <<fallback, tried>>
page      == <<shown, given>>
vars == <<started, primary, secondary, age, fetching, page, reachable, stops>>

Sources == {"binance", "coinbase", "coingecko"}
None == "none"

\* Ages are exact up to one unit past the limit; a source that never delivered is Old.
Old == Stale + 2

\* left: units until the grace period ends, or until the socket is reopened.
Chain  == [at : {"unused", "connecting", "open", "closing", "waiting"},
           left : 0 .. (Grace + MaxDelay)]
Unused     == [at |-> "unused", left |-> 0]
Connecting == [at |-> "connecting", left |-> Grace]

-----------------------------------------------------------------------------
(* Snapshots.                                                              *)

Fresh(ages, s) == ages[s] <= Stale

\* pickPrice, of the ages an asset has at the sources: the first fresh one in this
\* order.  An old price, which it falls back to, is handed out and counts for nothing
\* in the status.
Order == <<"binance", "coinbase", "coingecko">>

Picked(ages) ==
    LET fresh == {i \in DOMAIN Order : Fresh(ages, Order[i])}
    IN IF fresh = {} THEN None ELSE Order[Min(fresh)]

\* The status of snapshot(), which looks at the ages of every asset: ages[s][a].
SnapshotStatus(assets, ages, on) ==
    LET picked == {Picked([s \in Sources |-> ages[s][a]]) : a \in assets} IN
    CASE picked \cap {"binance", "coinbase"} # {} -> "live"
      [] picked \cap {"binance", "coinbase"} = {} /\ "coingecko" \in picked -> "degraded"
      [] OTHER -> IF on THEN "connecting" ELSE "down"

\* The same, of the youngest price of every source.
Status(ages, on) ==
    CASE Picked(ages) \in {"binance", "coinbase"} -> "live"
      [] Picked(ages) = "coingecko" -> "degraded"
      [] OTHER -> IF on THEN "connecting" ELSE "down"

\* The throttle drops a snapshot if one was given just before.
Dropped == given # "before" /\ UNCHANGED page

\* emit() after a message.
Emit == (shown' = Status(age', started) /\ given' = "since") \/ Dropped

\* emit() of the publishing timer, which only a message can have preceded closely.
EmitOnBeat ==
    /\ given' = "beat"
    /\ \/ shown' = Status(age', started)
       \/ given = "since" /\ UNCHANGED shown

-----------------------------------------------------------------------------
Init ==
    /\ started = FALSE
    /\ chain = [c \in Chains |-> Unused]
    /\ current = None
    /\ delay = 1
    /\ fallback = None
    /\ tried = FALSE
    /\ age = [s \in Sources |-> Old]
    /\ fetching = FALSE
    /\ shown = "down"
    /\ given = "before"
    /\ reachable \in BOOLEAN
    /\ stops = FALSE

\* openBinance on chain c.
OpenPrimary(c) ==
    /\ chain' = [chain EXCEPT ![c] = Connecting]
    /\ current' = c

\* maybeStartCoinbase, which opens the socket once and for all.
StartFallback ==
    IF tried THEN UNCHANGED secondary ELSE tried' = TRUE /\ fallback' = "connecting"

\* Slip: start() does not notice that the stream runs.
StartAnyway(c) ==
    /\ chain[c] = Unused
    /\ started' = TRUE
    /\ OpenPrimary(c)
    /\ fetching' = TRUE
    /\ shown' = Status(age, TRUE)
    /\ UNCHANGED <<delay, secondary, age, given, reachable, stops>>

\* usePriceStream: start(), with its first poll, then subscribe(), which gives
\* the present snapshot past the throttle.
Start(c) ==
    /\ ~started
    /\ chain[c] = Unused
    /\ started' = TRUE
    /\ OpenPrimary(c)
    /\ fetching' = TRUE
    /\ shown' = Status(age, TRUE)
    /\ UNCHANGED <<delay, secondary, age, given, reachable, stops>>

\* stop(): the sockets are asked to close; their callbacks run later.  Timers
\* that reopen a socket are not cancelled.
Stop ==
    /\ started
    /\ started' = FALSE
    /\ stops' = TRUE
    /\ chain' = [c \in Chains |-> IF c = current THEN [at |-> "closing", left |-> 0] ELSE chain[c]]
    /\ current' = None
    /\ fallback' = IF fallback \in {"connecting", "open"} THEN "closing" ELSE fallback
    /\ UNCHANGED <<delay, tried, age, fetching, page, reachable>>

-----------------------------------------------------------------------------
(* The primary socket.                                                     *)

\* onopen.
Opened(c) ==
    /\ chain[c].at = "connecting"
    /\ reachable
    /\ chain' = [chain EXCEPT ![c] = [at |-> "open", left |-> 0]]
    /\ delay' = 1
    /\ UNCHANGED <<started, current, secondary, age, fetching, page, reachable, stops>>

\* Slip: the delay grows without limit.
DelayUnbounded == 2 * delay

NextDelay == IF 2 * delay < MaxDelay THEN 2 * delay ELSE MaxDelay

\* Slip: only a socket that was open is replaced.
ReopenIfOpen(c) ==
    IF started /\ chain[c].at = "open"
    THEN /\ chain' = [chain EXCEPT ![c] = [at |-> "waiting", left |-> delay]]
         /\ delay' = NextDelay
    ELSE /\ chain' = [chain EXCEPT ![c] = Unused]
         /\ UNCHANGED delay

\* A closed socket is followed by a timer while the stream runs.
ReopenLater(c) ==
    IF started
    THEN /\ chain' = [chain EXCEPT ![c] = [at |-> "waiting", left |-> delay]]
         /\ delay' = NextDelay
    ELSE /\ chain' = [chain EXCEPT ![c] = Unused]
         /\ UNCHANGED delay

\* onclose, whoever closed: it forgets the present socket, also if that is the
\* one of another chain.
Closed(c) ==
    /\ \/ chain[c].at \in {"open", "closing"}
       \/ chain[c].at = "connecting" /\ ~reachable
    /\ current' = None
    /\ StartFallback
    /\ ReopenLater(c)
    /\ UNCHANGED <<started, age, fetching, page, reachable, stops>>

\* The reconnect timer: openBinance does nothing on a stopped stream.
Reopen(c) ==
    /\ chain[c] = [at |-> "waiting", left |-> 0]
    /\ IF started THEN OpenPrimary(c)
                  ELSE chain' = [chain EXCEPT ![c] = Unused] /\ UNCHANGED current
    /\ UNCHANGED <<started, delay, secondary, age, fetching, page, reachable, stops>>

-----------------------------------------------------------------------------
(* The fallback socket, prices and time.                                   *)

FallbackMoves ==
    /\ \/ fallback = "connecting" /\ fallback' \in {"open", "closed"}
       \/ fallback \in {"open", "closing"} /\ fallback' = "closed"
    /\ UNCHANGED <<started, primary, tried, age, fetching, page, reachable, stops>>

\* onmessage of either socket, with a price of some asset.
Ticker(s) ==
    /\ \/ s = "binance" /\ \E c \in Chains : chain[c].at = "open"
       \/ s = "coinbase" /\ fallback = "open"
    /\ age' = [age EXCEPT ![s] = 0]
    /\ Emit
    /\ UNCHANGED <<started, primary, secondary, fetching, reachable, stops>>

\* The polling timer; a poll that is under way answers also after stop().
Poll ==
    /\ started
    /\ fetching' = TRUE
    /\ UNCHANGED <<started, primary, secondary, age, page, reachable, stops>>

\* A failed poll keeps the last values and publishes nothing; one that brought no price
\* publishes them.
Polled ==
    /\ fetching
    /\ fetching' = FALSE
    /\ \/ age' \in {age, [age EXCEPT !["coingecko"] = 0]} /\ Emit
       \/ UNCHANGED <<age, page>>
    /\ UNCHANGED <<started, primary, secondary, reachable, stops>>

Older(n) == IF n < Old THEN n + 1 ELSE Old

\* Slip: nothing is published between two messages.
SilentBeat == given' = "beat" /\ UNCHANGED shown

\* The publishing timer of a running stream.
Beat == IF started THEN EmitOnBeat ELSE given' = "before" /\ UNCHANGED shown

\* The grace period of a socket that has not opened is over.
GraceEnds ==
    IF started /\ \E c \in Chains : chain[c] = [at |-> "connecting", left |-> 1]
    THEN StartFallback ELSE UNCHANGED secondary

\* A unit of time.  A timer that is due runs before the next unit.
Pass ==
    /\ \A c \in Chains : chain[c] # [at |-> "waiting", left |-> 0]
    /\ chain' = [c \in Chains |-> [chain[c] EXCEPT !.left = IF @ > 0 THEN @ - 1 ELSE 0]]
    /\ age' = [s \in Sources |-> Older(age[s])]
    /\ GraceEnds
    /\ Beat
    /\ UNCHANGED <<started, current, delay, fetching, reachable, stops>>

\* The network lets the primary source through, or no longer.
NetworkChanges ==
    /\ reachable' = ~reachable
    /\ UNCHANGED <<started, primary, secondary, age, fetching, page, stops>>

Next ==
    \/ \E c \in Chains : Start(c) \/ Opened(c) \/ Closed(c) \/ Reopen(c)
    \/ \E s \in Sources : Ticker(s)
    \/ Stop \/ FallbackMoves \/ Poll \/ Polled \/ Pass \/ NetworkChanges

\* Time passes, timers run, and an attempt to connect ends one way or the other.
Fairness ==
    /\ WF_vars(Pass)
    /\ \A c \in Chains :
        /\ WF_vars(Reopen(c))
        /\ WF_vars(Opened(c))
        /\ WF_vars(chain[c].at # "open" /\ Closed(c))

Spec == Init /\ [][Next]_vars /\ Fairness

-----------------------------------------------------------------------------
(* Properties.                                                             *)

\* Values of the fields of PriceStream; the delay stays within its limit and
\* only an initialized chain has a socket (price-stream.ts:57-71).
PriceTypeOK ==
    /\ started \in BOOLEAN /\ tried \in BOOLEAN /\ fetching \in BOOLEAN
    /\ reachable \in BOOLEAN /\ stops \in BOOLEAN
    /\ chain \in [Chains -> Chain]
    /\ current \in Chains \cup {None}
    /\ delay \in 1 .. MaxDelay
    /\ fallback \in {None, "connecting", "open", "closing", "closed"}
    /\ age \in [Sources -> 0 .. Old]
    /\ shown \in {"live", "degraded", "connecting", "down"}
    /\ given \in {"before", "beat", "since"}

\* Live means that a socket delivers: while the stream runs, a page that shows the
\* status live was given it within the staleness limit and the interval of one
\* publication since a socket's last price, although the throttle drops snapshots
\* (price-stream.ts:188-223).  It is the status of the stream, not of a price: one asset
\* that ticks keeps it live while prices of others stand still, and the exchange page
\* marks every price it has as LIVE (exchange/page.tsx:635), so "never a silently-stuck
\* live number" (design document, line 108) is more than the code keeps.
LiveMeansDelivering ==
    started /\ shown = "live" =>
        \E s \in {"binance", "coinbase"} : age[s] <= Stale + 1

\* While the primary source has neither an open socket nor the grace period of an
\* attempt, the fallback was started (price-stream.ts:130-144).
FallbackWhilePrimaryAway ==
    started /\ ~tried =>
        \E c \in Chains : \/ chain[c].at = "open"
                          \/ chain[c].at = "connecting" /\ chain[c].left > 0

\* A stream that was never stopped has one primary socket or one timer to
\* reopen it, never two, and loses it never (start, onclose, the timer).
OnePrimary ==
    ~stops => Cardinality({c \in Chains : chain[c] # Unused}) = IF started THEN 1 ELSE 0

\* The two of them: whenever the primary source is given up the fallback has been
\* opened, and there is one primary source.  Neither says that a price comes: an open
\* socket that is silent is never given up, and a fallback that closed is never opened
\* again, as nothing resets coinbaseStarted, whatever line 165 says (price-stream.ts:149-166).
SourcesAreOpened == FallbackWhilePrimaryAway /\ OnePrimary

\* If from some time on the stream runs and the primary source can be reached,
\* its socket is open again and again, however often it closes
\* (price-stream.ts:130-138).
ReturnsToPrimary ==
    <>[](started /\ reachable) => []<>(\E c \in Chains : chain[c].at = "open")
=============================================================================
