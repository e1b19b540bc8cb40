------------------------------ MODULE FeedCluster ------------------------------
(***************************************************************************)
(* The processes around TickFanout: tick_worker (workers/tick_worker.py,   *)
(* main.py), which starts its children in order and stops all of them when *)
(* one dies; PM2, which starts tick_worker again (ecosystem.config.js);    *)
(* and the two jobs that prepare a trading day while yesterday's cluster   *)
(* may still run (launch_trading_day.sh, cron_premarket.sh).               *)
(***************************************************************************)
EXTENDS TickFanout

CONSTANT MaxJobs  \* bound: launches and premarket jobs

ASSUME ClusterAssumption == MaxJobs \in Nat

VARIABLES
  stream,    \* the websocket-streamer process
  others,    \* the children that store no price (zmq-worker, db-writer), as one
  stopEvent,
  sup,       \* tick_worker's main()
  wanted,    \* TRADE_TOKENS as PM2 has it; 0 before the first launch
  job,       \* the running job and its step
  jobs

cluster  == <<stream, others, stopEvent, sup>>
deploy   == <<wanted, job, jobs>>
fan      == <<listener, bus, store, memory, faults, history>>
vars     == <<fan, cluster, deploy>>

Children == {"others", "redis-cache", "websocket-streamer"}

Status(c) ==
  CASE c = "redis-cache"        -> IF cache \in {"off", "dead"} THEN cache ELSE "up"
    [] c = "websocket-streamer" -> IF stream \in {"off", "dead"} THEN stream ELSE "up"
    [] c = "others"             -> others

Alive(c) == Status(c) = "up"

NoJob == [kind |-> "none", step |-> "none"]

Init ==
  /\ tokens = 0 /\ fed = 0 /\ queue = <<>>
  /\ running = FALSE /\ feedUp = FALSE /\ pub = FALSE /\ bound = FALSE
  /\ linked = [c \in Consumers |-> FALSE]
  /\ sub = [c \in Consumers |-> <<>>]
  /\ hand = [c \in Consumers |-> NoTick]
  /\ tickKey = [s \in Series |-> 0]
  /\ chain = NoChain /\ mirror = NoChain
  /\ cache = "off"
  /\ faults = 0 /\ lostNewest = FALSE /\ clearedAt = 0
  /\ unseeded = FALSE /\ skipped = FALSE
  /\ stream = "off"
  /\ others = "dead"
  /\ stopEvent = FALSE /\ sup = "down"
  /\ wanted = 0 /\ job = NoJob /\ jobs = 0

-----------------------------------------------------------------------------
\* What a process takes with it when it dies.
CacheDies ==
  /\ cache' = "dead"
  /\ hand' = [hand EXCEPT !["cache"] = NoTick]
  /\ sub' = [sub EXCEPT !["cache"] = <<>>]
  /\ mirror' = NoChain

StreamDies ==
  /\ stream' = "dead"
  /\ queue' = <<>>
  /\ running' = FALSE /\ feedUp' = FALSE /\ pub' = FALSE /\ bound' = FALSE

\* Child c is dead after this step, of whatever cause.
Dies(c) ==
  /\ Alive(c)
  /\ \/ /\ c = "redis-cache"
        /\ CacheDies
        /\ linked' = [linked EXCEPT !["cache"] = FALSE]
        /\ lostNewest' = TRUE /\ unseeded' = FALSE /\ skipped' = FALSE
        /\ UNCHANGED <<stream, others, listener, clearedAt>>
     \/ /\ c = "websocket-streamer"
        /\ StreamDies
        /\ linked' = [k \in Consumers |-> FALSE]
        /\ lostNewest' = TRUE /\ clearedAt' = 0
        /\ UNCHANGED <<others, tokens, fed, sub, memory, unseeded, skipped>>
     \/ /\ c = "others"
        /\ others' = "dead"
        /\ UNCHANGED <<stream, listener, bus, memory, history>>
  /\ UNCHANGED store

\* A child crashes: an exception it does not catch, among them a Redis call
\* of the cache that fails, or the system kills it.
Crash(c) ==
  /\ Fault
  /\ Dies(c)
  /\ UNCHANGED <<stopEvent, sup, deploy>>

\* PM2 runs the greeks engine on its own and restarts it.
GreeksRestarts ==
  /\ linked' = [linked EXCEPT !["greeks"] = FALSE]
  /\ sub' = [sub EXCEPT !["greeks"] = <<>>]
  /\ hand' = [hand EXCEPT !["greeks"] = NoTick]
  /\ Lost(fed)

GreeksCrash ==
  /\ Fault
  /\ GreeksRestarts
  /\ UNCHANGED <<listener, store, mirror, cache, cluster, deploy>>

-----------------------------------------------------------------------------
\* tick_worker, once the clock gate has let it through: PM2 starts it with
\* the tokens it was given last.
StartTickWorker ==
  /\ sup = "down"
  /\ wanted # 0
  /\ sup' = "start"
  /\ tokens' = wanted
  /\ others' = "up"
  /\ cache' = "off" /\ stream' = "off"
  /\ UNCHANGED <<fed, queue, running, feedUp, pub, bound, bus, store, hand, mirror,
                 faults, history, stopEvent, deploy>>

\* The cache, and last the streamer, are started, whatever became of the
\* children before them.
StartCache ==
  /\ sup = "start"
  /\ cache = "off"
  /\ cache' = "load"
  /\ UNCHANGED <<listener, bus, store, hand, mirror, faults, history, cluster, deploy>>

\* TickListener.start(): the publisher thread, then the broker's web socket
\* with its callbacks.
StartStream ==
  /\ sup = "start"
  /\ cache # "off" /\ stream = "off"
  /\ stream' = "up"
  /\ running' = TRUE /\ feedUp' = TRUE /\ pub' = TRUE
  /\ UNCHANGED <<tokens, fed, queue, bound, bus, store, memory, faults, history,
                 others, stopEvent, sup, deploy>>

StartChild == StartCache \/ StartStream

AllStarted ==
  /\ sup = "start"
  /\ \A c \in Children : Status(c) # "off"
  /\ sup' = "watch"
  /\ UNCHANGED <<fan, stream, others, stopEvent, deploy>>

\* Mutant: only when none is left.
NoticeAllDead ==
  /\ sup = "watch"
  /\ stopEvent \/ \A c \in Children : ~Alive(c)
  /\ stopEvent' = TRUE
  /\ others' = "dead"
  /\ sup' = "stop"
  /\ UNCHANGED <<fan, stream, deploy>>

\* The watch loop: a child has died, or a signal has set the event.  The
\* other children stop on their own (DbWriter has the writer's drain).
NoticeDeath ==
  /\ sup = "watch"
  /\ stopEvent \/ \E c \in Children : ~Alive(c)
  /\ stopEvent' = TRUE
  /\ others' = "dead"
  /\ sup' = "stop"
  /\ UNCHANGED <<fan, stream, deploy>>

\* The cache sees the event between two ticks (what its socket holds is
\* lost), not while it boots.
CacheStops ==
  /\ stopEvent
  /\ cache = "live" /\ hand["cache"] = NoTick
  /\ Dies("redis-cache")
  /\ UNCHANGED <<faults, stopEvent, sup, deploy>>

\* TickListener.stop() begins,
StreamStops ==
  /\ stopEvent /\ stream = "up"
  /\ stream' = "clear"
  /\ running' = FALSE
  /\ clearedAt' = fed
  /\ UNCHANGED <<tokens, fed, queue, feedUp, pub, bound, bus, store, memory, faults,
                 lostNewest, unseeded, skipped, others, stopEvent, sup, deploy>>

\* closes the feed,
CloseFeed ==
  /\ stream = "clear"
  /\ stream' = "closed"
  /\ feedUp' = FALSE
  /\ UNCHANGED <<tokens, fed, queue, running, pub, bound, bus, store, memory, faults,
                 history, others, stopEvent, sup, deploy>>

\* and has joined the publisher, or waited for five seconds.
StreamJoined ==
  /\ stream = "closed"
  /\ IF pub THEN Fault ELSE UNCHANGED faults
  /\ Dies("websocket-streamer")
  /\ UNCHANGED <<stopEvent, sup, deploy>>

\* join(8 s) of a child that hangs, then terminate().
Terminate(c) ==
  /\ sup = "stop"
  /\ Fault
  /\ Dies(c)
  /\ UNCHANGED <<stopEvent, sup, deploy>>

AllStopped ==
  /\ sup = "stop"
  /\ \A c \in Children : ~Alive(c)
  /\ sup' = "down"
  /\ stopEvent' = FALSE
  /\ UNCHANGED <<fan, stream, others, deploy>>

-----------------------------------------------------------------------------
\* The two jobs, their steps in order; each step but a flush may end the job.
Steps(kind) ==
  CASE kind = "launch" ->
         <<"prepare", "flush_ticks", "flush_chain", "reload">>
    [] kind = "premarket" ->
         <<"prepare", "flush_ticks", "flush_chain", "restart">>

NextStep ==
  LET s == Steps(job.kind)
      i == CHOOSE k \in DOMAIN s : s[k] = job.step
  IN job' = IF i = Len(s) THEN NoJob ELSE [job EXCEPT !.step = s[i + 1]]

JobStarts ==
  /\ job = NoJob
  /\ jobs < MaxJobs
  /\ jobs' = jobs + 1
  /\ \E kind \in {"launch", "premarket"} :
       job' = [kind |-> kind, step |-> Head(Steps(kind))]
  /\ UNCHANGED <<fan, cluster, wanted>>

\* The five pillars (launch only) and the master files: the next step, or the
\* job dies.
Prepare ==
  /\ job.step = "prepare"
  /\ \/ NextStep
     \/ job' = NoJob
  /\ UNCHANGED <<fan, cluster, wanted, jobs>>

FlushTicks ==
  /\ job.step = "flush_ticks"
  /\ NextStep
  /\ tickKey' = [s \in Series |-> 0]
  /\ Lost(fed)
  /\ UNCHANGED <<listener, bus, chain, memory, faults, cluster, wanted, jobs>>

\* A cache that is booting may lose its fresh chain to the flush.
FlushChain ==
  /\ job.step = "flush_chain"
  /\ NextStep
  /\ chain' = NoChain
  /\ lostNewest' = TRUE
  /\ unseeded' = (unseeded \/ cache \in Booting)
  /\ UNCHANGED <<listener, bus, tickKey, memory, faults, clearedAt, skipped, cluster,
                 wanted, jobs>>

\* pm2 reload, or start: a running tick_worker gets a signal, the greeks
\* engine is restarted, and both come back with the new tokens.  Without
\* TRADE_TOKENS or PM2 the job dies here, the caches flushed.
ReloadCluster ==
  /\ job.step = "reload"
  /\ \/ /\ NextStep
        /\ wanted' \in Series \cap {wanted, wanted + 1}
        /\ stopEvent' = IF sup = "down" THEN stopEvent ELSE TRUE
        /\ GreeksRestarts
     \/ /\ job' = NoJob
        /\ UNCHANGED <<wanted, stopEvent, linked, sub, hand, history>>
  /\ UNCHANGED <<listener, store, mirror, cache, faults, stream, others, sup, jobs>>

\* The clock is checked, then docker compose restarts Redis: a cache that
\* loads or stores meanwhile dies of it, a bootstrap is given up, a greeks
\* engine logs what it cannot store.
DockerRestart ==
  /\ job.step = "restart"
  /\ NextStep
  /\ \/ UNCHANGED <<fan, stream, others>>
     \/ cache \in {"load", "patch"} /\ Dies("redis-cache") /\ UNCHANGED faults
     \/ BootstrapRaises /\ UNCHANGED <<faults, stream, others>>
  /\ UNCHANGED <<stopEvent, sup, wanted, jobs>>

JobStep == Prepare \/ FlushTicks \/ FlushChain \/ ReloadCluster \/ DockerRestart

-----------------------------------------------------------------------------
\* What runs by itself once the cluster is wanted.
Supervise ==
  \/ StartTickWorker \/ StartChild \/ AllStarted \/ NoticeDeath \/ AllStopped
  \/ CacheStops \/ StreamStops \/ CloseFeed \/ StreamJoined

Next ==
  \/ FanoutStep /\ UNCHANGED <<cluster, deploy>>
  \/ Supervise \/ GreeksCrash
  \/ \E c \in Children : Crash(c) \/ Terminate(c)
  \/ JobStarts \/ JobStep

Spec == Init /\ [][Next]_vars

\* The operating system schedules the supervisor, the publisher and the
\* cache; PM2 restarts what exits; no fairness for ticks, jobs or faults.
FairSpec ==
  /\ Spec
  /\ WF_vars(Supervise)
  /\ WF_vars((Publish \/ PublisherEnds) /\ UNCHANGED <<cluster, deploy>>)
  /\ WF_vars(CacheStep /\ UNCHANGED <<cluster, deploy>>)

-----------------------------------------------------------------------------
Ticks == [n : 0 .. MaxTicks, s : Series \cup {0}]
Chains == [s : Series \cup {0}, ltp : 0 .. MaxTicks]

ListenerTypeOK ==
  /\ tokens \in Series \cup {0}
  /\ fed \in 0 .. MaxTicks
  /\ queue \in Seq(Ticks) /\ Len(queue) <= QueueSize
  /\ running \in BOOLEAN /\ feedUp \in BOOLEAN /\ pub \in BOOLEAN /\ bound \in BOOLEAN

BusTypeOK ==
  /\ linked \in [Consumers -> BOOLEAN]
  /\ sub \in [Consumers -> Seq(Ticks)]
  /\ \A c \in Consumers : Len(sub[c]) <= HighWater
  /\ hand \in [Consumers -> Ticks]

StoreTypeOK ==
  /\ tickKey \in [Series -> 0 .. MaxTicks]
  /\ chain \in Chains /\ mirror \in Chains
  /\ cache \in CacheStates

ClusterTypeOK ==
  /\ stream \in {"off", "up", "clear", "closed", "dead"}
  /\ others \in {"up", "dead"}
  /\ sup \in {"down", "start", "watch", "stop"}
  /\ stopEvent \in BOOLEAN
  /\ wanted \in Series \cup {0}

HistoryTypeOK ==
  /\ lostNewest \in BOOLEAN /\ unseeded \in BOOLEAN /\ skipped \in BOOLEAN
  /\ clearedAt \in 0 .. MaxTicks
  /\ faults \in 0 .. MaxFaults /\ jobs \in 0 .. MaxJobs

TypeOK ==
  ListenerTypeOK /\ BusTypeOK /\ StoreTypeOK /\ ClusterTypeOK /\ HistoryTypeOK

\* Nothing is on its way to Redis.
Quiet ==
  /\ cache = "live" /\ queue = <<>>
  /\ \A c \in Consumers : sub[c] = <<>> /\ hand[c] = NoTick

\* Two processes store the tick key and one the chain, each at its own pace,
\* while jobs flush both and processes come and go: when all is quiet, both
\* show the newest tick, unless that tick itself was dropped, lost on the
\* bus, flushed, or overtaken by a crash, or the cache has no chain of today
\* because its bootstrap failed, was flushed or passed the underlying over
\* (database/chain_cache.py:145).
LosslessIsCurrent ==
  Quiet /\ fed > 0 /\ ~lostNewest /\ ~unseeded =>
    chain = [s |-> tokens, ltp |-> fed] /\ tickKey[tokens] = fed

\* A cache that has bootstrapped an underlying serves today's strikes of it and
\* never those of an earlier day, although the cluster of that day still writes
\* its own chain back after the launch has flushed it (main.py:107).  An
\* underlying the bootstrap passed over is not covered: what is written back of
\* it is served (services/chain_bootstrap.py:177).
ChainIsTodays ==
  cache \in {"live", "patch"} /\ ~unseeded => chain \in {NoChain} \cup [s : {tokens}, ltp : 0 .. MaxTicks]

\* A publisher that has ended leaves nothing in the queue but what the feed
\* called back with after stop() had begun (ingestion/tick_listener.py:208).
StopDrainsQueue ==
  stream \in {"clear", "closed"} /\ ~pub =>
    \A i \in DOMAIN queue : queue[i].n > clearedAt

\* The chain's price only moves forward between resets: bus, cache, replay
\* and restarts never bring an older tick back over a newer one.  A chain the
\* bootstrap passed over is not shown: the replay may take it back to what a
\* late greeks engine has left in its tick key.
Shown == IF skipped THEN 0 ELSE chain.ltp
Register == INSTANCE HotRegister WITH newest <- fed, shown <- Shown
ChainImplementsRegister == Register!Spec

\* One dead child takes the whole of tick_worker down, and PM2 brings all of
\* it back (main.py:313, ecosystem.config.js:27).
DeathRestartsAll ==
  (sup = "watch" /\ \E c \in Children : ~Alive(c))
    ~> (sup = "watch" /\ ~stopEvent /\ \A c \in Children : Alive(c))
=============================================================================
