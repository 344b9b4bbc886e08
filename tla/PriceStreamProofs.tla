--------------------------- MODULE PriceStreamProofs ---------------------------
(***************************************************************************)
(* Proofs about the live price stream, for any number of calls of start()  *)
(* and any limits: a stream that is shown as live delivers, the fallback   *)
(* was opened when the primary source was given up, and a stream that was  *)
(* never stopped feeds from one primary socket.  That the stream returns   *)
(* to the primary source is a liveness property, which only TLC checks.    *)
(***************************************************************************)
EXTENDS PriceStream, FiniteSetTheorems, TLAPS

\* A socket's last price is at most one publication past the staleness limit while
\* the status is shown as live, and within the limit if a message brought that since
\* the last beat: only then may the next beat drop its snapshot.
LiveInv ==
    started /\ shown = "live" =>
        \E s \in {"binance", "coinbase"} :
            /\ age[s] <= Stale + 1
            /\ given = "since" => age[s] <= Stale

\* No socket is being closed before the first stop(), and there is one chain
\* exactly while the stream runs.
ChainInv ==
    /\ \A c \in Chains : chain[c].at = "unused" => chain[c] = Unused
    /\ ~stops =>
          /\ \A c \in Chains : chain[c].at # "closing"
          /\ started => \E c \in Chains : chain[c] # Unused
          /\ ~started => \A c \in Chains : chain[c] = Unused
          /\ \A c, d \in Chains : chain[c] # Unused /\ chain[d] # Unused => c = d

StreamInv == PriceTypeOK /\ LiveInv /\ ChainInv /\ FallbackWhilePrimaryAway

-----------------------------------------------------------------------------
(* Snapshots.                                                              *)

\* The limits are positive numbers, and an age is at most one past them.
LEMMA LimitsAreNumbers ==
    /\ Stale \in Nat /\ Stale > 0
    /\ Grace \in Nat /\ Grace > 0
    /\ MaxDelay \in Nat /\ MaxDelay > 0
    /\ Old = Stale + 2
BY StreamAssumption DEF Old

\* pickPrice finds a fresh source if there is one, and one of the sockets before the
\* polled prices.
LEMMA PickedIsFirst ==
    ASSUME NEW ages
    PROVE  /\ Picked(ages) \in {"binance", "coinbase"}
                <=> Fresh(ages, "binance") \/ Fresh(ages, "coinbase")
           /\ Picked(ages) = "coingecko"
                <=> ~Fresh(ages, "binance") /\ ~Fresh(ages, "coinbase") /\ Fresh(ages, "coingecko")
<1> DEFINE fresh == {i \in DOMAIN Order : Fresh(ages, Order[i])}
<1>1. /\ fresh \subseteq {1, 2, 3}
      /\ 1 \in fresh <=> Fresh(ages, "binance")
      /\ 2 \in fresh <=> Fresh(ages, "coinbase")
      /\ 3 \in fresh <=> Fresh(ages, "coingecko")
      /\ Order[1] = "binance" /\ Order[2] = "coinbase" /\ Order[3] = "coingecko"
  BY DEF Order
<1>2. Picked(ages) = IF fresh = {} THEN None ELSE Order[Min(fresh)]
  BY DEF Picked
<1> HIDE DEF fresh
<1>7. ASSUME NEW m \in fresh, \A j \in fresh : m <= j
      PROVE  Min(fresh) = m
  <2>1. Min(fresh) \in fresh /\ \A j \in fresh : Min(fresh) <= j
    <3>1. \E i \in fresh : \A j \in fresh : i <= j
      BY <1>7
    <3> QED BY <3>1, Zenon DEF Min
  <2>2. PICK x : x = Min(fresh)
    OBVIOUS
  <2>3. x \in {1, 2, 3} /\ m \in {1, 2, 3} /\ x <= m /\ m <= x
    BY <1>1, <1>7, <2>1, <2>2
  <2> QED BY <2>2, <2>3
<1>3. CASE 1 \in fresh
  <2>1. Min(fresh) = 1
    BY <1>1, <1>3, <1>7
  <2> QED BY <1>1, <1>2, <1>3, <2>1
<1>4. CASE 1 \notin fresh /\ 2 \in fresh
  <2>1. Min(fresh) = 2
    BY <1>1, <1>4, <1>7
  <2> QED BY <1>1, <1>2, <1>4, <2>1
<1>5. CASE fresh = {3}
  <2>1. Min(fresh) = 3
    BY <1>5 DEF Min
  <2> QED BY <1>1, <1>2, <1>5, <2>1
<1>6. CASE fresh = {}
  BY <1>1, <1>2, <1>6 DEF None
<1> QED BY <1>1, <1>3, <1>4, <1>5, <1>6

\* The status of the stream is decided by the youngest price of every source, however
\* many assets there are and however old their other prices.  It is why the model
\* keeps one age for each source.
THEOREM StatusIsOfTheYoungest ==
    ASSUME NEW assets, NEW ages, NEW youngest, NEW on \in BOOLEAN,
           \A s \in Sources : /\ youngest[s] \in Nat
                              /\ \A a \in assets : ages[s][a] \in Nat /\ youngest[s] <= ages[s][a]
                              /\ \E a \in assets : ages[s][a] = youngest[s]
    PROVE  SnapshotStatus(assets, ages, on) = Status(youngest, on)
<1> DEFINE of(a) == [s \in Sources |-> ages[s][a]]
           picked == {Picked(of(a)) : a \in assets}
<1>1. ASSUME NEW s \in Sources
      PROVE  Fresh(youngest, s) <=> \E a \in assets : Fresh(of(a), s)
  <2>1. \A a \in assets : of(a)[s] = ages[s][a]
    OBVIOUS
  <2>2. \A a \in assets : Fresh(of(a), s) <=> ages[s][a] <= Stale
    BY <2>1 DEF Fresh
  <2> QED BY <2>2, LimitsAreNumbers DEF Fresh
<1>2. "binance" \in Sources /\ "coinbase" \in Sources /\ "coingecko" \in Sources
  BY DEF Sources
<1>3. picked \cap {"binance", "coinbase"} # {}
        <=> Fresh(youngest, "binance") \/ Fresh(youngest, "coinbase")
  <2>1. picked \cap {"binance", "coinbase"} # {}
          <=> \E a \in assets : Picked(of(a)) \in {"binance", "coinbase"}
    BY Zenon
  <2> HIDE DEF picked, of
  <2>2. \A a \in assets : Picked(of(a)) \in {"binance", "coinbase"}
                            <=> Fresh(of(a), "binance") \/ Fresh(of(a), "coinbase")
    BY PickedIsFirst, Zenon
  <2> QED BY <1>1, <1>2, <2>1, <2>2, Zenon
<1>4. "coingecko" \in picked <=> \E a \in assets : Picked(of(a)) = "coingecko"
  BY Zenon
<1>5. SnapshotStatus(assets, ages, on)
        = CASE picked \cap {"binance", "coinbase"} # {} -> "live"
            [] picked \cap {"binance", "coinbase"} = {} /\ "coingecko" \in picked -> "degraded"
            [] OTHER -> IF on THEN "connecting" ELSE "down"
  BY Zenon DEF SnapshotStatus
<1> HIDE DEF picked, of
<1>6. CASE Fresh(youngest, "binance") \/ Fresh(youngest, "coinbase")
  <2>1. Picked(youngest) \in {"binance", "coinbase"}
    BY <1>6, PickedIsFirst, Zenon
  <2>2. Status(youngest, on) = "live"
    BY <2>1 DEF Status
  <2>3. SnapshotStatus(assets, ages, on) = "live"
    BY <1>3, <1>5, <1>6
  <2> QED BY <2>2, <2>3
<1>7. CASE ~(Fresh(youngest, "binance") \/ Fresh(youngest, "coinbase"))
  <2>1. Picked(youngest) \notin {"binance", "coinbase"}
    BY <1>7, PickedIsFirst, Zenon
  <2>2. "coingecko" \in picked <=> Picked(youngest) = "coingecko"
    <3>1. \A a \in assets : ~Fresh(of(a), "binance") /\ ~Fresh(of(a), "coinbase")
      BY <1>1, <1>2, <1>7, Zenon
    <3>2. \A a \in assets : Picked(of(a)) = "coingecko" <=> Fresh(of(a), "coingecko")
      BY <3>1, PickedIsFirst, Zenon
    <3>3. Picked(youngest) = "coingecko" <=> Fresh(youngest, "coingecko")
      BY <1>7, PickedIsFirst, Zenon
    <3> QED BY <1>1, <1>2, <1>4, <3>2, <3>3, Zenon
  <2>3. picked \cap {"binance", "coinbase"} = {}
    BY <1>3, <1>7
  <2>4. CASE "coingecko" \in picked
    BY <1>5, <2>1, <2>2, <2>3, <2>4 DEF Status
  <2>5. CASE "coingecko" \notin picked
    BY <1>5, <2>1, <2>2, <2>3, <2>5 DEF Status
  <2> QED BY <2>4, <2>5
<1> QED BY <1>6, <1>7

\* A live status comes from a fresh price of a socket.
LEMMA LiveIsFresh ==
    ASSUME NEW ages, NEW on, Status(ages, on) = "live"
    PROVE  \E s \in {"binance", "coinbase"} : ages[s] <= Stale
<1> DEFINE fresh == {i \in DOMAIN Order : Fresh(ages, Order[i])}
<1>1. Picked(ages) \in {"binance", "coinbase"}
  BY DEF Status
<1>2. fresh # {} /\ Picked(ages) = Order[Min(fresh)]
  BY <1>1 DEF Picked, None
<1>3. fresh \subseteq {1, 2, 3}
  BY DEF Order
<1>4. \E i \in fresh : \A j \in fresh : i <= j
  <2> HIDE DEF fresh
  <2>1. CASE 1 \in fresh
    BY <1>3, <2>1
  <2>2. CASE 1 \notin fresh /\ 2 \in fresh
    BY <1>3, <2>2
  <2>3. CASE 1 \notin fresh /\ 2 \notin fresh
    <3>1. fresh # {}
      BY <1>2
    <3>2. fresh = {3}
      BY <1>3, <2>3, <3>1
    <3> QED BY <3>2
  <2> QED BY <2>1, <2>2, <2>3
<1>5. Min(fresh) \in fresh
  <2> HIDE DEF fresh
  <2> QED BY <1>4 DEF Min
<1>6. Fresh(ages, Picked(ages))
  BY <1>2, <1>5
<1> QED BY <1>1, <1>6 DEF Fresh

\* A snapshot has one of the four statuses.
LEMMA StatusIsTyped ==
    ASSUME NEW ages, NEW on \in BOOLEAN
    PROVE  Status(ages, on) \in {"live", "degraded", "connecting", "down"}
BY DEF Status

-----------------------------------------------------------------------------
(* Types.                                                                  *)

\* Every step leaves the fields values of their types.
LEMMA TypesStay ==
    ASSUME PriceTypeOK, Next
    PROVE  PriceTypeOK'
<1> USE LimitsAreNumbers DEF PriceTypeOK, primary, secondary, page
<1>1. Unused \in Chain /\ Connecting \in Chain
  BY DEF Unused, Connecting, Chain
<1>2. [at |-> "open", left |-> 0] \in Chain /\ [at |-> "closing", left |-> 0] \in Chain
  BY DEF Chain
<1>3. [at |-> "waiting", left |-> delay] \in Chain /\ NextDelay \in 1 .. MaxDelay
  BY DEF Chain, NextDelay
<1>4. ASSUME NEW c \in Chains, Start(c)
      PROVE  PriceTypeOK'
  BY <1>1, <1>4, StatusIsTyped DEF Start, OpenPrimary
<1>5. ASSUME NEW c \in Chains, Opened(c)
      PROVE  PriceTypeOK'
  BY <1>2, <1>5 DEF Opened
<1>6. ASSUME NEW c \in Chains, Closed(c)
      PROVE  PriceTypeOK'
  BY <1>1, <1>3, <1>6 DEF Closed, StartFallback, ReopenLater
<1>7. ASSUME NEW c \in Chains, Reopen(c)
      PROVE  PriceTypeOK'
  BY <1>1, <1>7 DEF Reopen, OpenPrimary
<1>8. ASSUME NEW s \in Sources, Ticker(s)
      PROVE  PriceTypeOK'
  <2>1. shown' \in {"live", "degraded", "connecting", "down"} /\ given' \in {"before", "beat", "since"}
    BY <1>8, StatusIsTyped DEF Ticker, Emit, Dropped
  <2>2. age' \in [Sources -> 0 .. Old]
    BY <1>8 DEF Ticker
  <2> QED BY <1>8, <2>1, <2>2 DEF Ticker
<1>9. ASSUME Stop
      PROVE  PriceTypeOK'
  BY <1>2, <1>9 DEF Stop
<1>10. ASSUME FallbackMoves
       PROVE  PriceTypeOK'
  BY <1>10 DEF FallbackMoves
<1>11. ASSUME Poll
       PROVE  PriceTypeOK'
  BY <1>11 DEF Poll
<1>12. ASSUME Polled
       PROVE  PriceTypeOK'
  <2>1. shown' \in {"live", "degraded", "connecting", "down"} /\ given' \in {"before", "beat", "since"}
    BY <1>12, StatusIsTyped DEF Polled, Emit, Dropped
  <2>2. age' \in [Sources -> 0 .. Old]
    BY <1>12 DEF Polled
  <2> QED BY <1>12, <2>1, <2>2 DEF Polled
<1>13. ASSUME Pass
       PROVE  PriceTypeOK'
  <2>1. \A c \in Chains : [chain[c] EXCEPT !.left = IF @ > 0 THEN @ - 1 ELSE 0] \in Chain
    BY DEF Chain
  <2>2. \A s \in Sources : Older(age[s]) \in 0 .. Old
    BY DEF Older
  <2>3. shown' \in {"live", "degraded", "connecting", "down"} /\ given' \in {"before", "beat", "since"}
    BY <1>13, StatusIsTyped DEF Pass, Beat, EmitOnBeat
  <2>4. tried' \in BOOLEAN /\ fallback' \in {None, "connecting", "open", "closing", "closed"}
    BY <1>13 DEF Pass, GraceEnds, StartFallback
  <2>5. chain' \in [Chains -> Chain] /\ age' \in [Sources -> 0 .. Old]
    BY <1>13, <2>1, <2>2 DEF Pass
  <2> QED BY <1>13, <2>3, <2>4, <2>5 DEF Pass
<1>14. ASSUME NetworkChanges
       PROVE  PriceTypeOK'
  BY <1>14 DEF NetworkChanges
<1> HIDE DEF PriceTypeOK
<1> QED BY <1>4, <1>5, <1>6, <1>7, <1>8, <1>9, <1>10, <1>11, <1>12, <1>13, <1>14 DEF Next

-----------------------------------------------------------------------------
(* Freshness.                                                              *)

\* Prices grow older one unit at a time, and a beat publishes unless a message
\* just did.
LEMMA LiveStaysFresh ==
    ASSUME PriceTypeOK, LiveInv, Next
    PROVE  LiveInv'
<1> USE LimitsAreNumbers DEF LiveInv, page
<1>1. ASSUME NEW c \in Chains, Start(c)
      PROVE  LiveInv'
  <2>1. ASSUME shown' = "live"
        PROVE  \E s \in {"binance", "coinbase"} : age[s] <= Stale
    BY <1>1, <2>1, LiveIsFresh DEF Start
  <2>2. \A s \in {"binance", "coinbase"} : age[s] \in Int
    BY DEF PriceTypeOK, Sources
  <2>3. age' = age
    BY <1>1 DEF Start
  <2>4. ASSUME shown' = "live"
        PROVE  \E s \in {"binance", "coinbase"} : age'[s] <= Stale + 1 /\ age'[s] <= Stale
    BY <2>1, <2>2, <2>3, <2>4
  <2> QED BY <2>4
<1>2. ASSUME Stop
      PROVE  LiveInv'
  BY <1>2 DEF Stop
<1>3. ASSUME NEW s \in Sources, age' = [age EXCEPT ![s] = 0], Emit, started' = started
      PROVE  LiveInv'
  <2>1. \A t \in {"binance", "coinbase"} : age[t] \in 0 .. Old /\ age'[t] \in 0 .. Old /\ age'[t] <= age[t]
    BY <1>3 DEF PriceTypeOK, Sources
  <2>2. CASE shown' = Status(age', started)
    <3>1. ASSUME shown' = "live"
          PROVE  \E t \in {"binance", "coinbase"} : age'[t] <= Stale
      BY <2>2, <3>1, LiveIsFresh
    <3> QED BY <2>1, <3>1
  <2>3. CASE Dropped
    BY <1>3, <2>1, <2>3 DEF Dropped
  <2> QED BY <1>3, <2>2, <2>3 DEF Emit
<1>4. ASSUME Pass
      PROVE  LiveInv'
  <2>1. \A t \in {"binance", "coinbase"} :
            age[t] \in 0 .. Old /\ age'[t] \in 0 .. Old /\ age'[t] <= age[t] + 1
    BY <1>4 DEF Pass, Older, PriceTypeOK, Sources
  <2>2. CASE ~started
    BY <1>4, <2>2 DEF Pass
  <2>3. CASE started
    <3>1. given' = "beat" /\ started' = started
      BY <1>4, <2>3 DEF Pass, Beat, EmitOnBeat
    <3>2. CASE shown' = Status(age', started)
      <4>1. ASSUME shown' = "live"
            PROVE  \E t \in {"binance", "coinbase"} : age'[t] <= Stale
        BY <3>2, <4>1, LiveIsFresh
      <4> QED BY <2>1, <3>1, <4>1
    <3>3. CASE given = "since" /\ UNCHANGED shown
      BY <2>1, <2>3, <3>1, <3>3
    <3> QED BY <1>4, <2>3, <3>2, <3>3 DEF Pass, Beat, EmitOnBeat
  <2> QED BY <2>2, <2>3
<1>5. ASSUME UNCHANGED <<started, age, page>>
      PROVE  LiveInv'
  BY <1>5
<1>6. ASSUME NEW s \in Sources, Ticker(s)
      PROVE  LiveInv'
  BY <1>3, <1>6 DEF Ticker
<1>7. ASSUME Polled
      PROVE  LiveInv'
  <2>1. CASE age' = [age EXCEPT !["coingecko"] = 0] /\ Emit
    BY <1>3, <1>7, <2>1 DEF Polled, Sources
  <2>2. CASE UNCHANGED age /\ Emit
    <3>1. age' = [age EXCEPT !["coingecko"] = age["coingecko"]] /\ started' = started
      BY <1>7, <2>2 DEF Polled, PriceTypeOK
    <3>2. CASE shown' = Status(age', started)
      <4>1. ASSUME shown' = "live"
            PROVE  \E t \in {"binance", "coinbase"} : age'[t] <= Stale
        BY <3>2, <4>1, LiveIsFresh
      <4>2. \A t \in {"binance", "coinbase"} : age'[t] \in 0 .. Old
        BY <2>2 DEF PriceTypeOK, Sources
      <4> QED BY <4>1, <4>2
    <3>3. CASE Dropped
      BY <1>5, <3>1, <3>3, <2>2 DEF Dropped
    <3> QED BY <2>2, <3>2, <3>3 DEF Emit
  <2>3. CASE UNCHANGED <<age, page>>
    BY <1>5, <1>7, <2>3 DEF Polled
  <2> QED BY <1>7, <2>1, <2>2, <2>3 DEF Polled
<1> HIDE DEF LiveInv
<1>8. ASSUME NEW c \in Chains, Opened(c) \/ Closed(c) \/ Reopen(c)
      PROVE  LiveInv'
  BY <1>5, <1>8 DEF Opened, Closed, Reopen
<1>9. ASSUME FallbackMoves \/ Poll \/ NetworkChanges
      PROVE  LiveInv'
  BY <1>5, <1>9 DEF FallbackMoves, Poll, NetworkChanges
<1> QED BY <1>1, <1>2, <1>4, <1>6, <1>7, <1>8, <1>9 DEF Next

-----------------------------------------------------------------------------
(* Sockets.                                                                *)

\* A chain ends only on a stopped stream, and only start() begins one.
LEMMA ChainsStayApart ==
    ASSUME PriceTypeOK, ChainInv, Next
    PROVE  ChainInv'
<1> USE DEF ChainInv, PriceTypeOK, primary
<1>1. Connecting # Unused /\ Connecting.at = "connecting"
  BY DEF Connecting, Unused
<1>2. ASSUME NEW c \in Chains, Start(c)
      PROVE  ChainInv'
  BY <1>1, <1>2 DEF Start, OpenPrimary
<1>3. ASSUME NEW c \in Chains, Opened(c)
      PROVE  ChainInv'
  BY <1>3 DEF Opened, Unused
<1>4. ASSUME NEW c \in Chains, Closed(c)
      PROVE  ChainInv'
  BY <1>4 DEF Closed, ReopenLater, Unused
<1>5. ASSUME NEW c \in Chains, Reopen(c)
      PROVE  ChainInv'
  BY <1>1, <1>5 DEF Reopen, OpenPrimary, Unused
<1>6. ASSUME Stop
      PROVE  ChainInv'
  BY <1>6 DEF Stop, Unused
<1>7. ASSUME Pass
      PROVE  ChainInv'
  <2>1. \A c \in Chains : /\ chain'[c].at = chain[c].at
                          /\ (chain'[c] = Unused) <=> (chain[c] = Unused)
    BY <1>7 DEF Pass, Unused, Chain
  <2>2. UNCHANGED <<started, stops>>
    BY <1>7 DEF Pass
  <2> QED BY <2>1, <2>2
<1>8. ASSUME UNCHANGED <<started, chain, stops>>
      PROVE  ChainInv'
  BY <1>8
<1> HIDE DEF ChainInv, PriceTypeOK
<1>9. ASSUME NEW s \in Sources, Ticker(s)
      PROVE  ChainInv'
  BY <1>8, <1>9 DEF Ticker
<1>10. ASSUME FallbackMoves \/ Poll \/ Polled \/ NetworkChanges
       PROVE  ChainInv'
  BY <1>8, <1>10 DEF FallbackMoves, Poll, Polled, NetworkChanges
<1> QED BY <1>2, <1>3, <1>4, <1>5, <1>6, <1>7, <1>9, <1>10 DEF Next

\* The primary source is given up only with the fallback started.
LEMMA FallbackStays ==
    ASSUME PriceTypeOK, FallbackWhilePrimaryAway, Next
    PROVE  FallbackWhilePrimaryAway'
<1> USE LimitsAreNumbers DEF FallbackWhilePrimaryAway, PriceTypeOK, primary, secondary
<1>1. Connecting.at = "connecting" /\ Connecting.left > 0
  BY DEF Connecting
<1>2. ASSUME NEW c \in Chains, Start(c)
      PROVE  FallbackWhilePrimaryAway'
  BY <1>1, <1>2 DEF Start, OpenPrimary
<1>3. ASSUME NEW c \in Chains, Opened(c)
      PROVE  FallbackWhilePrimaryAway'
  BY <1>3 DEF Opened
<1>4. ASSUME NEW c \in Chains, Closed(c)
      PROVE  FallbackWhilePrimaryAway'
  BY <1>4 DEF Closed, StartFallback
<1>5. ASSUME NEW c \in Chains, Reopen(c)
      PROVE  FallbackWhilePrimaryAway'
  BY <1>1, <1>5 DEF Reopen, OpenPrimary
<1>6. ASSUME Stop
      PROVE  FallbackWhilePrimaryAway'
  BY <1>6 DEF Stop
<1>7. ASSUME Pass
      PROVE  FallbackWhilePrimaryAway'
  <2> SUFFICES ASSUME started, ~tried, ~tried'
               PROVE  \E c \in Chains : \/ chain'[c].at = "open"
                                        \/ chain'[c].at = "connecting" /\ chain'[c].left > 0
    BY <1>7 DEF Pass, GraceEnds, StartFallback
  <2>1. PICK c \in Chains : \/ chain[c].at = "open"
                            \/ chain[c].at = "connecting" /\ chain[c].left > 0
    OBVIOUS
  <2>2. chain[c] # [at |-> "connecting", left |-> 1]
    BY <1>7 DEF Pass, GraceEnds, StartFallback
  <2>3. chain[c] \in Chain /\ chain'[c] = [chain[c] EXCEPT !.left = IF @ > 0 THEN @ - 1 ELSE 0]
    BY <1>7 DEF Pass
  <2> QED BY <2>1, <2>2, <2>3 DEF Chain
<1>8. ASSUME UNCHANGED <<started, tried, chain>>
      PROVE  FallbackWhilePrimaryAway'
  BY <1>8
<1> HIDE DEF FallbackWhilePrimaryAway, PriceTypeOK
<1>9. ASSUME NEW s \in Sources, Ticker(s)
      PROVE  FallbackWhilePrimaryAway'
  BY <1>8, <1>9 DEF Ticker
<1>10. ASSUME FallbackMoves \/ Poll \/ Polled \/ NetworkChanges
       PROVE  FallbackWhilePrimaryAway'
  BY <1>8, <1>10 DEF FallbackMoves, Poll, Polled, NetworkChanges
<1> QED BY <1>2, <1>3, <1>4, <1>5, <1>6, <1>7, <1>9, <1>10 DEF Next

-----------------------------------------------------------------------------
(* The invariant and what follows from it.                                 *)

\* The parts of the invariant hold at first and after every step.
LEMMA StreamInvHolds == Spec => []StreamInv
<1>1. Init => StreamInv
  <2> SUFFICES ASSUME Init
               PROVE  StreamInv
    OBVIOUS
  <2>1. PriceTypeOK
    <3>1. Unused \in Chain /\ Old \in 0 .. Old /\ 1 \in 1 .. MaxDelay
      BY LimitsAreNumbers DEF Chain, Unused
    <3>2. chain \in [Chains -> Chain] /\ age \in [Sources -> 0 .. Old] /\ delay \in 1 .. MaxDelay
      BY <3>1 DEF Init
    <3> QED BY <3>2 DEF Init, PriceTypeOK
  <2>2. LiveInv /\ FallbackWhilePrimaryAway
    BY DEF Init, LiveInv, FallbackWhilePrimaryAway
  <2>3. ChainInv
    BY DEF Init, ChainInv, Unused
  <2> QED BY <2>1, <2>2, <2>3 DEF StreamInv
<1>2. StreamInv /\ [Next]_vars => StreamInv'
  <2> SUFFICES ASSUME StreamInv, [Next]_vars
               PROVE  StreamInv'
    OBVIOUS
  <2>1. CASE Next
    BY <2>1, TypesStay, LiveStaysFresh, ChainsStayApart, FallbackStays DEF StreamInv
  <2>2. CASE UNCHANGED vars
    BY <2>2 DEF StreamInv, PriceTypeOK, LiveInv, ChainInv, FallbackWhilePrimaryAway,
                vars, primary, secondary, page
  <2> QED BY <2>1, <2>2
<1> QED BY <1>1, <1>2, PTL DEF Spec

\* The fields of the stream keep values of their types; the delay before a socket is
\* reopened stays within its limit (price-stream.ts:57-71).
THEOREM StreamIsTyped == Spec => []PriceTypeOK
<1>1. StreamInv => PriceTypeOK
  BY DEF StreamInv
<1> QED BY <1>1, StreamInvHolds, PTL

\* A page never shows a stream as live that delivers nothing: a socket brought a price of
\* some asset within the staleness limit and one publication, whatever the throttle
\* dropped (price-stream.ts:188-223).  Of the other assets' prices it says nothing.
THEOREM LiveStreamsDeliver == Spec => []LiveMeansDelivering
<1>1. StreamInv => LiveMeansDelivering
  BY DEF StreamInv, LiveInv, LiveMeansDelivering
<1> QED BY <1>1, StreamInvHolds, PTL

\* The fallback was opened, once, by the time the primary source is given up, and a
\* stream that was never stopped has one chain to the primary source, which it never
\* loses (price-stream.ts:73-178).
THEOREM SourcesAreAlwaysOpened == Spec => []SourcesAreOpened
<1>1. StreamInv => OnePrimary
  <2> SUFFICES ASSUME ChainInv, ~stops, PriceTypeOK
               PROVE  Cardinality({c \in Chains : chain[c] # Unused}) = IF started THEN 1 ELSE 0
    BY DEF StreamInv, OnePrimary
  <2> DEFINE used == {c \in Chains : chain[c] # Unused}
  <2>1. CASE started
    <3>1. PICK c \in Chains : chain[c] # Unused
      BY <2>1 DEF ChainInv
    <3>2. used = {c}
      BY <3>1 DEF ChainInv
    <3>3. Cardinality(used) = 1
      BY <3>2, FS_Singleton
    <3> QED BY <2>1, <3>3
  <2>2. CASE ~started
    <3>1. used = {}
      BY <2>2 DEF ChainInv
    <3>2. Cardinality(used) = 0
      BY <3>1, FS_EmptySet
    <3> QED BY <2>2, <3>2
  <2> QED BY <2>1, <2>2
<1>2. StreamInv => SourcesAreOpened
  BY <1>1 DEF StreamInv, SourcesAreOpened
<1> QED BY <1>2, StreamInvHolds, PTL

=============================================================================
