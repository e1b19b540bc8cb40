------------------------------ MODULE TickFanout ------------------------------
(***************************************************************************)
(* The way of a tick from the broker's web socket into Redis: the listener *)
(* and its bounded queue (ingestion/tick_listener.py), the ZeroMQ bus      *)
(* (zmq_pub.py, zmq_sub.py), and its two consumers that store prices, the  *)
(* option-chain cache (database/chain_cache.py, main.py) and the greeks    *)
(* engine (workers/greeks_engine.py).  One option per token series; a tick *)
(* is its number in the exchange's order and the series it belongs to.     *)
(* What enriches a tick, and its volume and open interest, are left out.   *)
(* The chain is that of one underlying; the other has its own.             *)
(***************************************************************************)
EXTENDS Naturals, Sequences

CONSTANTS
  Series,     \* what TRADE_TOKENS can be set to
  MaxTicks,   \* bound: ticks the exchange sends
  QueueSize,  \* _PUBLISH_QUEUE_SIZE
  HighWater,  \* messages a subscriber's socket holds
  MaxFaults   \* bound: crashes, failed calls, timeouts, underlyings passed over

ASSUME FanoutAssumption ==
  /\ 0 \notin Series
  /\ MaxTicks \in Nat /\ MaxFaults \in Nat
  /\ QueueSize \in Nat \ {0} /\ HighWater \in Nat \ {0}

VARIABLES
  tokens,      \* the series the running cluster was started with
  fed,         \* ticks the exchange has sent
  queue,       \* TickListener._queue
  running,     \* TickListener._running
  feedUp,      \* the broker's web socket calls back
  pub,         \* the publisher thread runs
  bound,       \* the PUB socket is bound, which the first publish does
  linked,      \* linked[c]: the bus reaches consumer c
  sub,         \* sub[c]: messages in c's SUB socket
  hand,        \* hand[c]: the tick c is storing
  tickKey,     \* tickKey[s]: number of the tick in tick:{token}, 0 if none
  chain,       \* option_chain:{symbol}
  mirror,      \* ChainCache._chains of the cache process
  cache,       \* where the cache process is
  faults,
  lostNewest,  \* history: a consumer never gets to store the newest tick
  clearedAt,   \* history: fed when the listener was told to stop
  unseeded,    \* history: the cache process went live without a fresh chain
  skipped      \* history: because the bootstrap passed its underlying over

listener == <<tokens, fed, queue, running, feedUp, pub, bound>>
bus      == <<linked, sub>>
store    == <<tickKey, chain>>
memory   == <<hand, mirror, cache>>
history  == <<lostNewest, clearedAt, unseeded, skipped>>

Consumers == {"cache", "greeks"}
NoTick  == [n |-> 0, s |-> 0]
NoChain == [s |-> 0, ltp |-> 0]
Skeleton(s) == [s |-> s, ltp |-> 0]

Booting == {"load", "boot", "replay", "replay_tick", "replay_chain", "reload"}
CacheStates == Booting \cup {"off", "live", "patch", "dead"}

Fault == faults < MaxFaults /\ faults' = faults + 1
Lost(n) == /\ lostNewest' = (lostNewest \/ n = fed)
           /\ UNCHANGED <<clearedAt, unseeded, skipped>>

-----------------------------------------------------------------------------
\* Mutant: the queue takes one tick more than it holds.
FeedOverfills ==
  /\ feedUp
  /\ fed < MaxTicks
  /\ Len(queue) <= QueueSize
  /\ fed' = fed + 1
  /\ queue' = Append(queue, [n |-> fed + 1, s |-> tokens])
  /\ lostNewest' = FALSE
  /\ UNCHANGED <<tokens, running, feedUp, pub, bound, bus, store, memory, faults,
                 clearedAt, unseeded, skipped>>

\* on_ticks: hand the tick to the publisher, or drop it.
Feed ==
  /\ feedUp
  /\ fed < MaxTicks
  /\ fed' = fed + 1
  /\ \/ /\ Len(queue) < QueueSize
        /\ queue' = Append(queue, [n |-> fed + 1, s |-> tokens])
        /\ lostNewest' = FALSE
     \/ /\ Len(queue) = QueueSize
        /\ lostNewest' = TRUE
        /\ UNCHANGED queue
  /\ UNCHANGED <<tokens, running, feedUp, pub, bound, bus, store, memory, faults,
                 clearedAt, unseeded, skipped>>

\* The consumers a publish reaches: linked, and with room in their socket.
Reached == {c \in Consumers : linked[c] /\ Len(sub[c]) < HighWater}

Deliver(t) ==
  /\ sub' = [c \in Consumers |-> IF c \in Reached THEN Append(sub[c], t) ELSE sub[c]]
  /\ bound' = TRUE
  /\ IF Reached = Consumers THEN UNCHANGED history ELSE Lost(t.n)
  /\ UNCHANGED <<linked, faults>>

\* Mutant: what could not be published is queued again.
PublishRequeues ==
  /\ pub
  /\ queue # <<>>
  /\ \/ Deliver(Head(queue)) /\ queue' = Tail(queue)
     \/ /\ Fault
        /\ queue' = Append(Tail(queue), Head(queue))
        /\ UNCHANGED <<bound, bus, history>>
  /\ UNCHANGED <<tokens, fed, running, feedUp, pub, store, memory>>

\* One round of _publisher_loop; a failed publish is logged.
Publish ==
  /\ pub
  /\ queue # <<>>
  /\ queue' = Tail(queue)
  /\ \/ Deliver(Head(queue))
     \/ Fault /\ Lost(Head(queue).n) /\ UNCHANGED <<bound, bus>>
  /\ UNCHANGED <<tokens, fed, running, feedUp, pub, store, memory>>

\* Mutant: the loop does not wait for the queue to empty.
PublisherEndsAtOnce ==
  /\ pub /\ ~running
  /\ pub' = FALSE
  /\ UNCHANGED <<tokens, fed, queue, running, feedUp, bound, bus, store, memory,
                 faults, history>>

PublisherEnds ==
  /\ pub /\ ~running /\ queue = <<>>
  /\ pub' = FALSE
  /\ UNCHANGED <<tokens, fed, queue, running, feedUp, bound, bus, store, memory,
                 faults, history>>

\* A subscriber's connection to the bound socket is established.
Link(c) ==
  /\ bound /\ ~linked[c]
  /\ c = "cache" => cache \in {"live", "patch"}
  /\ linked' = [linked EXCEPT ![c] = TRUE]
  /\ UNCHANGED <<listener, sub, store, memory, faults, history>>

\* iter_ticks yields the next message.
Take(c) ==
  /\ sub[c] # <<>>
  /\ hand[c] = NoTick
  /\ c = "cache" => cache = "live"
  /\ hand' = [hand EXCEPT ![c] = Head(sub[c])]
  /\ sub' = [sub EXCEPT ![c] = Tail(@)]
  /\ UNCHANGED <<listener, linked, store, mirror, cache, faults, history>>

-----------------------------------------------------------------------------
\* The greeks engine stores the enriched tick; a failure is logged.
GreeksStore ==
  /\ hand["greeks"] # NoTick
  /\ hand' = [hand EXCEPT !["greeks"] = NoTick]
  /\ LET t == hand["greeks"] IN
     \/ tickKey' = [tickKey EXCEPT ![t.s] = t.n] /\ UNCHANGED <<faults, history>>
     \/ Fault /\ Lost(t.n) /\ UNCHANGED tickKey
  /\ UNCHANGED <<listener, bus, chain, mirror, cache>>

\* ChainCache.on_tick stores the tick first,
StoreTick(from, to) ==
  /\ cache = from
  /\ hand["cache"] # NoTick
  /\ tickKey' = [tickKey EXCEPT ![hand["cache"].s] = hand["cache"].n]
  /\ cache' = to
  /\ UNCHANGED <<listener, bus, chain, hand, mirror, faults, history>>

CacheStore  == StoreTick("live", "patch")
ReplayStore == StoreTick("replay_tick", "replay_chain")

\* then patches its chain, if the token is in it, and stores that whole.
CachePatch ==
  /\ cache = "patch"
  /\ LET t == hand["cache"]
         patched == [mirror EXCEPT !.ltp = t.n]
     IN IF mirror.s = t.s THEN mirror' = patched /\ chain' = patched
                          ELSE UNCHANGED <<mirror, chain>>
  /\ hand' = [hand EXCEPT !["cache"] = NoTick]
  /\ cache' = "live"
  /\ UNCHANGED <<listener, bus, tickKey, faults, history>>

-----------------------------------------------------------------------------
\* run_redis_cache_manager begins: the cache loads what Redis holds.
CacheLoad ==
  /\ cache = "load"
  /\ mirror' = chain
  /\ cache' = "boot"
  /\ unseeded' = FALSE /\ skipped' = FALSE
  /\ UNCHANGED <<listener, bus, store, hand, faults, lostNewest, clearedAt>>

\* Mutant: a chain that is already there is kept.
BootstrapKeeps ==
  /\ cache = "boot"
  /\ chain' = IF chain = NoChain THEN Skeleton(tokens) ELSE chain
  /\ cache' = "replay"
  /\ UNCHANGED <<listener, bus, tickKey, hand, mirror, faults, history>>

\* bootstrap_option_chains stores an empty chain of today's tokens, if it
\* finds expiry and strikes of the underlying among them,
Bootstrap ==
  /\ cache = "boot"
  /\ chain' = Skeleton(tokens)
  /\ cache' = "replay"
  /\ UNCHANGED <<listener, bus, tickKey, hand, mirror, faults, history>>

\* or passes the underlying over (bounded as a fault is): the chain Redis has
\* stays, with its own token's latest tick if the other underlying is replayed,
BootstrapSkips ==
  /\ cache = "boot"
  /\ Fault
  /\ \/ UNCHANGED chain
     \/ /\ chain.s \in Series /\ tickKey[chain.s] # 0
        /\ chain' = [chain EXCEPT !.ltp = tickKey[chain.s]]
  /\ cache' = "reload"
  /\ unseeded' = TRUE /\ skipped' = TRUE
  /\ UNCHANGED <<listener, bus, tickKey, hand, mirror, lostNewest, clearedAt>>

\* reads each token's latest tick back,
ReplayRead ==
  /\ cache = "replay"
  /\ \/ /\ tickKey[tokens] = 0
        /\ cache' = "reload"
        /\ UNCHANGED hand
     \/ /\ tickKey[tokens] # 0
        /\ hand' = [hand EXCEPT !["cache"] = [n |-> tickKey[tokens], s |-> tokens]]
        /\ cache' = "replay_tick"
  /\ UNCHANGED <<listener, bus, store, mirror, faults, history>>

\* and applies it, on_tick again (ReplayStore and this),
ReplayPatch ==
  /\ cache = "replay_chain"
  /\ chain' = [s |-> tokens, ltp |-> hand["cache"].n]
  /\ hand' = [hand EXCEPT !["cache"] = NoTick]
  /\ cache' = "reload"
  /\ UNCHANGED <<listener, bus, tickKey, mirror, faults, history>>

\* Mutant: the cache loaded before the bootstrap is kept.
ReloadSkipped ==
  /\ cache = "reload"
  /\ cache' = "live"
  /\ UNCHANGED <<listener, bus, store, hand, mirror, faults, history>>

\* and the cache is loaded anew.
Reload ==
  /\ cache = "reload"
  /\ mirror' = chain
  /\ cache' = "live"
  /\ UNCHANGED <<listener, bus, store, hand, faults, history>>

\* The bootstrap raises (no master file, no token in it, Redis): logged, and
\* the cache goes on with what it had loaded.
BootstrapRaises ==
  /\ cache \in Booting \ {"load"}
  /\ hand' = [hand EXCEPT !["cache"] = NoTick]
  /\ cache' = "live"
  /\ unseeded' = TRUE
  /\ UNCHANGED <<listener, bus, store, mirror, lostNewest, clearedAt, skipped>>

BootstrapFails == Fault /\ BootstrapRaises

CacheStep == \/ CacheLoad \/ Bootstrap \/ BootstrapSkips \/ ReplayRead \/ ReplayStore
             \/ ReplayPatch \/ Reload \/ CacheStore \/ CachePatch

FanoutStep ==
  \/ Feed \/ Publish \/ PublisherEnds
  \/ \E c \in Consumers : Link(c) \/ Take(c)
  \/ GreeksStore \/ CacheStep \/ BootstrapFails
=============================================================================
