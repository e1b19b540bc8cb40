-------------------------- MODULE FeedCluster_proofs --------------------------
(***************************************************************************)
(* Proofs about FeedCluster, for any series, queue size, high-water mark   *)
(* and number of ticks, faults and jobs.  First the parts of the inductive *)
(* invariant IInv; then lemmas that sort the steps by what they do to the  *)
(* queue, to a consumer's pipeline, to the chain and to the tick key; from *)
(* these each part is preserved.                                           *)
(***************************************************************************)
EXTENDS FeedCluster, TLAPS

\* Which of the listener's parts are there while the streamer runs.
StreamShape ==
  /\ stream \in {"off", "dead"} => queue = <<>> /\ ~pub /\ ~feedUp /\ ~bound
  /\ stream = "up" => pub /\ running
  /\ clearedAt <= fed

\* A cache that does not run, or still boots, has nothing on the bus.
CacheShape ==
  /\ tokens = 0 => sup = "down"
  /\ sup = "down" => stream \in {"off", "dead"} /\ cache \in {"off", "dead"}
  /\ cache \notin {"live", "patch"} => ~linked["cache"] /\ sub["cache"] = <<>>
  /\ cache \in {"off", "dead", "load", "boot", "replay", "reload"} => hand["cache"] = NoTick
  /\ cache \in {"patch", "replay_tick", "replay_chain"} => hand["cache"] # NoTick

\* Every tick on its way to the chain is of the series the cluster runs.
PipelineIsTodays ==
  /\ \A i \in DOMAIN queue : queue[i].s = tokens
  /\ \A i \in DOMAIN sub["cache"] : sub["cache"][i].s = tokens
  /\ hand["cache"] # NoTick => hand["cache"].s = tokens

\* Unless its bootstrap failed, was flushed or passed the underlying over, what
\* the cache serves is of that series from the bootstrap on.
SeededIsTodays ==
  ~unseeded =>
    /\ cache \in {"replay", "replay_tick", "replay_chain", "reload"} => chain.s = tokens
    /\ cache \in {"live", "patch"} => mirror.s = tokens

\* The number of the newest tick that has left the queue.
Published == IF queue = <<>> THEN fed ELSE Head(queue).n - 1

InOrder(q) == \A i, j \in DOMAIN q : i < j => q[i].n < q[j].n

\* The queue holds ticks the exchange has sent, in their order.
QueueOrder ==
  /\ InOrder(queue)
  /\ \A i \in DOMAIN queue : 0 < queue[i].n /\ queue[i].n <= fed

\* Whatever has left the queue is older than what is in it.
BusOrder ==
  /\ \A c \in Consumers : \A i \in DOMAIN sub[c] :
       0 < sub[c][i].n /\ sub[c][i].n <= Published
  /\ \A c \in Consumers : hand[c].n <= Published
  /\ \A c \in Consumers : hand[c].n = 0 => hand[c] = NoTick
  /\ \A s \in Series : tickKey[s] <= Published
  /\ chain.ltp <= Published

\* What the cache has yet to store is in order, and newer than the chain.
CacheOrder ==
  /\ InOrder(sub["cache"])
  /\ \A i \in DOMAIN sub["cache"] :
       hand["cache"].n < sub["cache"][i].n /\ chain.ltp < sub["cache"][i].n
  /\ cache \in {"live", "patch"} /\ hand["cache"] # NoTick => chain.ltp < hand["cache"].n
  /\ cache \in {"replay", "replay_tick", "replay_chain"} => chain.ltp = 0

Newest == [n |-> fed, s |-> tokens]

\* c has yet to store something, and the newest tick last.
PendsNewest(c) ==
  IF sub[c] # <<>> THEN sub[c][Len(sub[c])] = Newest ELSE hand[c] = Newest

Done(c) == sub[c] = <<>> /\ hand[c] = NoTick

\* Unless it was lost, the newest tick is the last of the queue; once it has
\* left the queue it is the last thing each consumer stores, or stored by all.
NewestOnItsWay ==
  ~lostNewest /\ fed > 0 =>
    /\ stream \notin {"off", "dead"}
    /\ queue # <<>> => queue[Len(queue)] = Newest
    /\ queue = <<>> =>
         /\ cache \in {"live", "patch"}
         /\ \A c \in Consumers : PendsNewest(c) \/ Done(c)
         /\ Done("cache") /\ ~unseeded => chain = [s |-> tokens, ltp |-> fed]
         /\ Done("greeks") /\ (Done("cache") \/ (sub["cache"] = <<>> /\ cache = "patch"))
              => tickKey[tokens] = fed

\* The inductive invariant.
IInv ==
  /\ TypeOK /\ StreamShape /\ CacheShape /\ StopDrainsQueue
  /\ PipelineIsTodays /\ SeededIsTodays /\ ChainIsTodays
  /\ QueueOrder /\ BusOrder /\ CacheOrder
  /\ NewestOnItsWay
-----------------------------------------------------------------------------
USE FanoutAssumption, ClusterAssumption

\* The part of TypeOK about the listener: its queue stays within its size.
LEMMA ListenerStep == ASSUME TypeOK, [Next]_vars PROVE ListenerTypeOK'
<1> USE DEF TypeOK, ListenerTypeOK
<1>1. CASE Feed
  <2>1. [n |-> fed + 1, s |-> tokens] \in Ticks
    BY <1>1 DEF Feed, Ticks
  <2>2. queue' \in Seq(Ticks) /\ Len(queue') <= QueueSize
    BY SMTT(30), <1>1, <2>1 DEF Feed
  <2> QED BY <1>1, <2>2 DEF Feed
<1>2. CASE Publish
  <2>1. queue' = Tail(queue) /\ queue # <<>> /\ bound' \in {bound, TRUE}
    BY <1>2 DEF Publish, Deliver
  <2>2. queue' \in Seq(Ticks) /\ Len(queue') <= QueueSize
    BY <2>1
  <2> QED BY <1>2, <2>1, <2>2 DEF Publish
<1>3. CASE PublisherEnds \/ StartTickWorker \/ StartStream \/ StreamStops \/ CloseFeed
  BY <1>3 DEF PublisherEnds, StartTickWorker, StartStream, StreamStops, CloseFeed, ClusterTypeOK
<1>4. ASSUME NEW c \in Children, Dies(c) PROVE ListenerTypeOK'
  <2>1. CASE UNCHANGED listener
    BY <2>1 DEF listener
  <2>2. CASE StreamDies /\ UNCHANGED <<tokens, fed>>
    <3>1. queue' \in Seq(Ticks) /\ Len(queue') <= QueueSize
      BY <2>2 DEF StreamDies
    <3> QED BY <2>2, <3>1 DEF StreamDies
  <2> QED BY <1>4, <2>1, <2>2 DEF Dies
<1>5. CASE CacheStops \/ StreamJoined \/ DockerRestart \/ \E c \in Children : Crash(c) \/ Terminate(c)
  <2>1. CASE UNCHANGED fan
    BY <2>1 DEF fan, listener
  <2>2. CASE \E c \in Children : Dies(c)
    BY <2>2, <1>4
  <2>3. CASE BootstrapRaises /\ UNCHANGED <<faults, stream, others>>
    BY <2>3 DEF BootstrapRaises, listener
  <2> QED BY <1>5, <2>1, <2>2, <2>3 DEF CacheStops, StreamJoined, DockerRestart, Crash, Terminate, Children
<1>6. CASE \/ \E c \in Consumers : Link(c) \/ Take(c)
           \/ GreeksStore \/ CacheStep \/ BootstrapFails
           \/ StartCache \/ AllStarted \/ NoticeDeath \/ AllStopped
           \/ GreeksCrash \/ JobStarts \/ Prepare \/ FlushTicks \/ FlushChain \/ ReloadCluster
           \/ UNCHANGED vars
  <2>1. UNCHANGED listener
    BY <1>6 DEF Link, Take, GreeksStore, CacheStep, CacheLoad, Bootstrap, BootstrapSkips, ReplayRead, ReplayStore,
       CacheStore, StoreTick, ReplayPatch, Reload, CachePatch, BootstrapFails, BootstrapRaises, StartCache,
       AllStarted, NoticeDeath, AllStopped, GreeksCrash, JobStarts, Prepare, FlushTicks,
       FlushChain, ReloadCluster, vars, fan
  <2> QED BY <2>1 DEF listener
<1> QED
  BY <1>1, <1>2, <1>3, <1>5, <1>6 DEF Next, FanoutStep, CacheStep, Supervise, StartChild, JobStep

\* No tick is a tick, numbered 0.
LEMMA NoTickTyped == NoTick \in Ticks /\ \A t \in Ticks : t = [n |-> t.n, s |-> t.s]
BY DEF NoTick, Ticks

\* What a replay reads back is a tick.
LEMMA ReplayTyped == ASSUME TypeOK, CacheShape, cache = "replay" PROVE [n |-> tickKey[tokens], s |-> tokens] \in Ticks
BY DEF TypeOK, ListenerTypeOK, StoreTypeOK, CacheShape, Ticks

\* The part of TypeOK about the bus: a socket stays within its high-water mark.
LEMMA BusStep == ASSUME TypeOK, CacheShape, [Next]_vars PROVE BusTypeOK'
<1> USE DEF TypeOK, BusTypeOK
<1>1. ASSUME NEW c \in Consumers, hand' = [hand EXCEPT ![c] = NoTick], UNCHANGED <<linked, sub>>
      PROVE  BusTypeOK'
  BY <1>1, NoTickTyped
<1>e. ASSUME NEW c \in Consumers, linked' = [linked EXCEPT ![c] = FALSE],
             sub' = [sub EXCEPT ![c] = <<>>], hand' = [hand EXCEPT ![c] = NoTick]
      PROVE  BusTypeOK'
  <2>1. <<>> \in Seq(Ticks) /\ Len(<<>>) <= HighWater
    OBVIOUS
  <2>2. sub' \in [Consumers -> Seq(Ticks)] /\ \A k \in Consumers : Len(sub'[k]) <= HighWater
    BY <2>1, <1>e
  <2> QED BY <1>e, <2>2, NoTickTyped
<1>c. "cache" \in Consumers /\ "greeks" \in Consumers
  BY DEF Consumers
<1>2. CASE Publish
  <2>1. CASE UNCHANGED <<linked, sub, hand>>
    BY <2>1
  <2>2. CASE Deliver(Head(queue)) /\ UNCHANGED memory
    <3>1. Head(queue) \in Ticks
      BY <1>2 DEF Publish, ListenerTypeOK
    <3>2. \A c \in Consumers : sub'[c] \in Seq(Ticks) /\ Len(sub'[c]) <= HighWater
      BY <2>2, <3>1 DEF Deliver, Reached
    <3>3. sub' \in [Consumers -> Seq(Ticks)]
      BY <2>2, <3>1 DEF Deliver
    <3> QED BY <2>2, <3>2, <3>3 DEF Deliver, memory
  <2> QED BY <1>2, <2>1, <2>2 DEF Publish, bus, memory
<1>3. ASSUME NEW c \in Consumers, Link(c) PROVE BusTypeOK'
  BY <1>3 DEF Link, memory
<1>4. ASSUME NEW c \in Consumers, Take(c) PROVE BusTypeOK'
  <2>1. Head(sub[c]) \in Ticks /\ Tail(sub[c]) \in Seq(Ticks) /\ Len(Tail(sub[c])) <= HighWater
    BY <1>4 DEF Take
  <2> QED BY <1>4, <2>1 DEF Take
<1>5. CASE GreeksStore \/ CachePatch \/ ReplayPatch \/ BootstrapFails
  BY <1>5, <1>1 DEF GreeksStore, CachePatch, ReplayPatch, BootstrapFails, BootstrapRaises, bus, Consumers
<1>6. CASE ReplayRead
  BY <1>6, ReplayTyped DEF ReplayRead, bus
<1>7. ASSUME NEW c \in Children, Dies(c) PROVE BusTypeOK'
  <2>1. CASE CacheDies /\ linked' = [linked EXCEPT !["cache"] = FALSE]
    BY <2>1, <1>c, <1>e DEF CacheDies
  <2>2. CASE linked' = [k \in Consumers |-> FALSE] /\ UNCHANGED <<sub, hand>>
    BY <2>2
  <2>3. CASE UNCHANGED <<linked, sub, hand>>
    BY <2>3
  <2> QED BY <1>7, <2>1, <2>2, <2>3 DEF Dies, bus, memory
<1>8. CASE GreeksRestarts
  BY <1>8, <1>c, <1>e DEF GreeksRestarts
<1>9. CASE UNCHANGED <<bus, hand>>
  BY <1>9 DEF bus
<1>10. CASE CacheStops \/ StreamJoined \/ DockerRestart \/ \E c \in Children : Crash(c) \/ Terminate(c)
  <2>1. CASE UNCHANGED fan
    BY <2>1, <1>9 DEF fan, memory
  <2>2. CASE \E c \in Children : Dies(c)
    BY <2>2, <1>7
  <2>3. CASE BootstrapRaises /\ UNCHANGED <<faults, stream, others>>
    BY <2>3, <1>1, <1>c DEF BootstrapRaises, bus
  <2> QED BY <1>10, <2>1, <2>2, <2>3 DEF CacheStops, StreamJoined, DockerRestart, Crash, Terminate, Children
<1>11. CASE GreeksCrash \/ ReloadCluster
  BY <1>11, <1>8, <1>9 DEF GreeksCrash, ReloadCluster, bus
<1>12. CASE \/ Feed \/ PublisherEnds \/ CacheLoad \/ Bootstrap \/ BootstrapSkips \/ ReplayStore \/ CacheStore \/ Reload
            \/ StartTickWorker \/ StartCache \/ StartStream \/ AllStarted \/ NoticeDeath
            \/ AllStopped \/ StreamStops \/ CloseFeed
            \/ JobStarts \/ Prepare \/ FlushTicks \/ FlushChain \/ UNCHANGED vars
  <2>1. UNCHANGED <<bus, hand>>
    BY <1>12 DEF Feed, PublisherEnds, CacheLoad, Bootstrap, BootstrapSkips, ReplayStore, CacheStore, StoreTick,
       Reload, StartTickWorker, StartCache, StartStream, AllStarted, NoticeDeath, AllStopped,
       StreamStops, CloseFeed, JobStarts, Prepare, FlushTicks, FlushChain, vars, fan, memory
  <2> QED BY <2>1, <1>9
<1> QED
  BY <1>2, <1>3, <1>4, <1>5, <1>6, <1>10, <1>11, <1>12
     DEF Next, FanoutStep, CacheStep, Supervise, StartChild, JobStep

\* The part of TypeOK about Redis and the cache's memory.
LEMMA StoreStep == ASSUME TypeOK, [Next]_vars PROVE StoreTypeOK'
<1> USE DEF TypeOK, StoreTypeOK
<1>1. CASE UNCHANGED <<tickKey, chain, mirror>> /\ cache' \in CacheStates
  BY <1>1
<1>2. ASSUME NEW t \in Ticks, tickKey' = [tickKey EXCEPT ![t.s] = t.n],
             UNCHANGED <<chain, mirror>>, cache' \in CacheStates
      PROVE  StoreTypeOK'
  BY <1>2 DEF Ticks
<1>c. Booting \subseteq CacheStates /\ {"off", "live", "patch", "dead"} \subseteq CacheStates
  BY DEF CacheStates
<1>h. hand["cache"] \in Ticks /\ hand["greeks"] \in Ticks
  BY DEF BusTypeOK, Consumers
<1>3. CASE GreeksStore
  <2>1. cache' = cache /\ UNCHANGED <<chain, mirror>>
    BY <1>3 DEF GreeksStore
  <2>2. CASE UNCHANGED tickKey
    BY <2>1, <2>2, <1>1
  <2>3. CASE tickKey' = [tickKey EXCEPT ![hand["greeks"].s] = hand["greeks"].n]
    BY <2>1, <2>3, <1>2, <1>h
  <2> QED BY <1>3, <2>2, <2>3 DEF GreeksStore
<1>4. CASE CacheStore \/ ReplayStore
  <2>1. cache' \in {"patch", "replay_chain"}
    BY <1>4 DEF CacheStore, ReplayStore, StoreTick
  <2>2. cache' \in CacheStates
    BY <2>1, <1>c DEF Booting
  <2>3. UNCHANGED <<chain, mirror>>
    BY <1>4 DEF CacheStore, ReplayStore, StoreTick
  <2>4. tickKey' = [tickKey EXCEPT ![hand["cache"].s] = hand["cache"].n]
    BY <1>4 DEF CacheStore, ReplayStore, StoreTick
  <2> QED BY <2>2, <2>3, <2>4, <1>2, <1>h
<1>5. CASE CachePatch
  <2>1. [mirror EXCEPT !.ltp = hand["cache"].n] \in Chains
    BY <1>h DEF Ticks, Chains
  <2>2. chain' \in Chains /\ mirror' \in Chains
    BY <1>5, <2>1 DEF CachePatch
  <2> QED BY <1>5, <2>2, <1>c DEF CachePatch
<1>6. CASE CacheLoad \/ Reload \/ ReplayRead \/ BootstrapFails
  BY <1>6, <1>c DEF CacheLoad, Reload, ReplayRead, BootstrapFails, BootstrapRaises, store, Booting
<1>7. CASE Bootstrap \/ ReplayPatch
  <2>1. chain' \in Chains
    BY <1>7, <1>h DEF Bootstrap, Skeleton, ReplayPatch, Chains, Ticks, ListenerTypeOK
  <2> QED BY <1>7, <2>1, <1>c DEF Bootstrap, ReplayPatch, Booting
<1>s. CASE BootstrapSkips
  <2>1. ASSUME NEW s \in Series PROVE [chain EXCEPT !.ltp = tickKey[s]] \in Chains
    BY DEF Chains
  <2>2. chain' \in Chains
    BY <1>s, <2>1 DEF BootstrapSkips
  <2>3. cache' \in CacheStates /\ UNCHANGED <<tickKey, mirror>>
    BY <1>s, <1>c DEF BootstrapSkips, Booting
  <2> QED BY <2>2, <2>3
<1>n. NoChain \in Chains
  BY DEF NoChain, Chains
<1>8. ASSUME NEW c \in Children, Dies(c) PROVE StoreTypeOK'
  <2>1. CASE CacheDies
    BY <1>8, <2>1, <1>n, <1>c DEF Dies, CacheDies, store
  <2>2. CASE UNCHANGED <<store, mirror, cache>>
    BY <2>2, <1>1 DEF store
  <2> QED BY <1>8, <2>1, <2>2 DEF Dies, memory
<1>9. CASE CacheStops \/ StreamJoined \/ DockerRestart \/ \E c \in Children : Crash(c) \/ Terminate(c)
  <2>1. CASE UNCHANGED fan
    BY <2>1, <1>1 DEF fan, store, memory
  <2>2. CASE \E c \in Children : Dies(c)
    BY <2>2, <1>8
  <2>3. CASE BootstrapRaises /\ UNCHANGED <<faults, stream, others>>
    BY <2>3, <1>c DEF BootstrapRaises, store
  <2> QED BY <1>9, <2>1, <2>2, <2>3 DEF CacheStops, StreamJoined, DockerRestart, Crash, Terminate, Children
<1>10. CASE StartTickWorker \/ StartCache
  BY <1>10, <1>1, <1>c DEF StartTickWorker, StartCache, store, Booting
<1>11. CASE FlushTicks
  BY <1>11 DEF FlushTicks, memory
<1>12. CASE FlushChain
  BY <1>12, <1>n DEF FlushChain, memory
<1>13. CASE \/ Feed \/ Publish \/ PublisherEnds \/ \E c \in Consumers : Link(c) \/ Take(c)
            \/ StartStream \/ AllStarted \/ NoticeDeath \/ AllStopped \/ StreamStops \/ CloseFeed
            \/ GreeksCrash \/ JobStarts \/ Prepare \/ ReloadCluster \/ UNCHANGED vars
  <2>1. UNCHANGED <<store, mirror, cache>>
    BY <1>13 DEF Feed, Publish, PublisherEnds, Link, Take, StartStream, AllStarted, NoticeDeath,
       AllStopped, StreamStops, CloseFeed, GreeksCrash, JobStarts, Prepare, ReloadCluster, vars,
       fan, memory
  <2> QED BY <2>1, <1>1 DEF store
<1> QED
  BY <1>3, <1>4, <1>5, <1>6, <1>7, <1>s, <1>9, <1>10, <1>11, <1>12, <1>13
     DEF Next, FanoutStep, CacheStep, Supervise, StartChild, JobStep

\* The part of TypeOK about the processes.
LEMMA ClusterStep == ASSUME TypeOK, [Next]_vars PROVE ClusterTypeOK'
<1> USE DEF TypeOK, ClusterTypeOK
<1>1. CASE UNCHANGED <<cluster, wanted>>
  BY <1>1 DEF cluster
<1>2. CASE StartTickWorker \/ StartCache \/ StartStream \/ AllStarted \/ NoticeDeath \/ AllStopped
  BY <1>2 DEF StartTickWorker, StartCache, StartStream, AllStarted, NoticeDeath, AllStopped,
     cluster, deploy
<1>3. CASE StreamStops \/ CloseFeed
  BY <1>3 DEF StreamStops, CloseFeed, deploy
<1>4. ASSUME NEW c \in Children, Dies(c), UNCHANGED <<stopEvent, sup, wanted>>
      PROVE  ClusterTypeOK'
  BY <1>4 DEF Dies, StreamDies
<1>5. CASE CacheStops \/ StreamJoined \/ DockerRestart \/ \E c \in Children : Crash(c) \/ Terminate(c)
  <2>1. UNCHANGED <<stopEvent, sup, wanted>>
    BY <1>5 DEF CacheStops, StreamJoined, DockerRestart, Crash, Terminate, deploy
  <2>2. CASE UNCHANGED <<stream, others>>
    BY <2>1, <2>2
  <2>3. CASE \E c \in Children : Dies(c)
    BY <2>1, <2>3, <1>4
  <2> QED BY <1>5, <2>2, <2>3 DEF CacheStops, StreamJoined, DockerRestart, Crash, Terminate, Children
<1>6. CASE ReloadCluster
  BY <1>6 DEF ReloadCluster
<1>7. CASE \/ FanoutStep /\ UNCHANGED <<cluster, deploy>>
           \/ GreeksCrash \/ JobStarts \/ Prepare \/ FlushTicks \/ FlushChain \/ UNCHANGED vars
  BY <1>7, <1>1 DEF GreeksCrash, JobStarts, Prepare, FlushTicks, FlushChain, vars, deploy
<1> QED
  BY <1>2, <1>3, <1>5, <1>6, <1>7 DEF Next, Supervise, StartChild, JobStep

\* The part of TypeOK about histories and bounds.
LEMMA HistoryStep == ASSUME TypeOK, [Next]_vars PROVE HistoryTypeOK'
<1> USE DEF TypeOK, HistoryTypeOK
<1>1. CASE UNCHANGED <<history, faults, jobs>>
  BY <1>1 DEF history
<1>2. ASSUME lostNewest' \in BOOLEAN, unseeded' \in BOOLEAN, skipped' \in BOOLEAN,
             clearedAt' \in {clearedAt, fed, 0},
             faults' = faults \/ Fault, jobs' = jobs
      PROVE  HistoryTypeOK'
  BY <1>2 DEF Fault, ListenerTypeOK
<1>3. ASSUME NEW n, Lost(n), faults' = faults \/ Fault, jobs' = jobs PROVE HistoryTypeOK'
  BY <1>2, <1>3 DEF Lost
<1>4. CASE Feed /\ UNCHANGED <<cluster, deploy>>
  BY <1>2, <1>4 DEF Feed, deploy
<1>5. CASE Publish /\ UNCHANGED <<cluster, deploy>>
  BY <1>1, <1>2, <1>3, <1>5 DEF Publish, Deliver, deploy, history
<1>6. CASE GreeksStore /\ UNCHANGED <<cluster, deploy>>
  BY <1>1, <1>3, <1>6 DEF GreeksStore, deploy
<1>7. CASE (CacheLoad \/ BootstrapSkips \/ BootstrapFails) /\ UNCHANGED <<cluster, deploy>>
  BY <1>2, <1>7 DEF CacheLoad, BootstrapSkips, BootstrapFails, BootstrapRaises, deploy
<1>8. ASSUME NEW c \in Children, Dies(c), faults' = faults \/ Fault, jobs' = jobs PROVE HistoryTypeOK'
  BY <1>2, <1>8 DEF Dies, history
<1>9. CASE CacheStops \/ StreamJoined \/ DockerRestart \/ \E c \in Children : Crash(c) \/ Terminate(c)
  <2>1. (faults' = faults \/ Fault) /\ jobs' = jobs
    BY <1>9 DEF CacheStops, StreamJoined, DockerRestart, Crash, Terminate, deploy, fan
  <2>2. CASE UNCHANGED fan
    BY <2>1, <2>2, <1>1 DEF fan
  <2>3. CASE \E c \in Children : Dies(c)
    BY <2>1, <2>3, <1>8
  <2>4. CASE BootstrapRaises /\ UNCHANGED <<faults, stream, others>>
    BY <2>4, <2>1, <1>2 DEF BootstrapRaises
  <2> QED BY <1>9, <2>2, <2>3, <2>4 DEF CacheStops, StreamJoined, DockerRestart, Crash, Terminate, Children
<1>10. CASE GreeksCrash
  BY <1>10, <1>3 DEF GreeksCrash, GreeksRestarts, deploy
<1>11. CASE FlushTicks
  BY <1>11, <1>3 DEF FlushTicks
<1>12. CASE FlushChain
  BY <1>12, <1>2 DEF FlushChain
<1>13. CASE ReloadCluster
  BY <1>13, <1>1, <1>3 DEF ReloadCluster, GreeksRestarts
<1>14. CASE JobStarts
  BY <1>14 DEF JobStarts, fan, history
<1>15. CASE StreamStops
  BY <1>15, <1>2 DEF StreamStops, deploy
<1>16. CASE \/ /\ PublisherEnds \/ \E c \in Consumers : Link(c) \/ Take(c)
               /\ UNCHANGED <<cluster, deploy>>
            \/ /\ \/ Bootstrap \/ ReplayRead \/ ReplayStore \/ ReplayPatch \/ Reload
                  \/ CacheStore \/ CachePatch
               /\ UNCHANGED <<cluster, deploy>>
            \/ StartTickWorker \/ StartCache \/ StartStream \/ AllStarted \/ NoticeDeath
            \/ AllStopped \/ CloseFeed \/ Prepare \/ UNCHANGED vars
  <2>1. UNCHANGED <<history, faults, jobs>>
    BY <1>16 DEF PublisherEnds, Link, Take, Bootstrap, ReplayRead, ReplayStore, ReplayPatch, Reload,
       CacheStore, CachePatch, StoreTick, StartTickWorker, StartCache, StartStream, AllStarted,
       NoticeDeath, AllStopped, CloseFeed, Prepare, vars, fan, deploy
  <2> QED BY <2>1, <1>1
<1> QED
  BY <1>4, <1>5, <1>6, <1>7, <1>9, <1>10, <1>11, <1>12, <1>13, <1>14, <1>15, <1>16
     DEF Next, FanoutStep, CacheStep, Supervise, StartChild, JobStep

\* A step keeps the types.
LEMMA TypeStep == ASSUME TypeOK, CacheShape, [Next]_vars PROVE TypeOK'
BY ListenerStep, BusStep, StoreStep, ClusterStep, HistoryStep DEF TypeOK

\* A step keeps CacheShape: a cache is linked only while it reads the bus.
LEMMA CacheShapeStep == ASSUME TypeOK, CacheShape, [Next]_vars PROVE CacheShape'
<1> USE DEF CacheShape
<1>c. "cache" \in Consumers /\ "greeks" \in Consumers
  BY DEF Consumers
<1>t. /\ linked \in [Consumers -> BOOLEAN] /\ sub \in [Consumers -> Seq(Ticks)]
      /\ hand \in [Consumers -> Ticks] /\ cache \in CacheStates
  BY DEF TypeOK, BusTypeOK, StoreTypeOK
<1>1. ASSUME UNCHANGED <<tokens, sup, stream, cache>>,
             linked'["cache"] = linked["cache"], sub'["cache"] = sub["cache"],
             hand'["cache"] = hand["cache"]
      PROVE  CacheShape'
  BY <1>1
<1>2. CASE Publish /\ UNCHANGED cluster
  <2>1. CASE Deliver(Head(queue))
    BY <1>2, <2>1, <1>c DEF Publish, Deliver, Reached, memory, cluster
  <2>2. CASE UNCHANGED bus
    BY <1>2, <2>2, <1>1 DEF Publish, memory, bus, cluster
  <2> QED BY <1>2, <2>1, <2>2 DEF Publish
<1>3. ASSUME NEW c \in Consumers, Link(c) \/ Take(c), UNCHANGED cluster PROVE CacheShape'
  <2>1. UNCHANGED <<tokens, sup, stream, cache>>
    BY <1>3 DEF Link, Take, listener, memory, cluster
  <2>2. CASE c = "cache"
    BY <1>3, <2>1, <2>2, <1>t, <1>c DEF Link, Take, memory
  <2>3. CASE c # "cache"
    BY <1>3, <2>1, <2>3, <1>1, <1>t, <1>c DEF Link, Take, memory
  <2> QED BY <2>2, <2>3
<1>4. CASE (GreeksStore \/ GreeksRestarts) /\ UNCHANGED <<tokens, cache, sup, stream>>
  BY <1>4, <1>1, <1>t, <1>c DEF GreeksStore, GreeksRestarts, bus, listener
<1>5. CASE /\ CacheStep \/ BootstrapFails
           /\ UNCHANGED cluster
  <2>1. UNCHANGED <<tokens, linked, sub>>
    BY <1>5 DEF CacheStep, CacheStore, ReplayStore, StoreTick, CacheLoad, Bootstrap, BootstrapSkips, ReplayRead, ReplayPatch,
       Reload, CachePatch, BootstrapFails, BootstrapRaises, bus, listener
  <2>2. cache \notin {"off", "dead"}
    BY <1>5 DEF CacheStep, CacheStore, ReplayStore, StoreTick, CacheLoad, Bootstrap, BootstrapSkips, ReplayRead, ReplayPatch,
       Reload, CachePatch, BootstrapFails, BootstrapRaises, Booting
  <2>3. sup # "down"
    BY <2>2
  <2>4. cache \in {"load", "boot", "replay", "reload"} => hand["cache"] = NoTick
    OBVIOUS
  <2>5. \/ cache = "load" /\ cache' = "boot" /\ UNCHANGED hand
        \/ cache = "boot" /\ cache' = "replay" /\ UNCHANGED hand
        \/ cache \in {"boot", "replay"} /\ cache' = "reload" /\ UNCHANGED hand
        \/ cache = "replay" /\ cache' = "replay_tick" /\ hand'["cache"] # NoTick
        \/ cache = "replay_tick" /\ cache' = "replay_chain" /\ UNCHANGED hand
        \/ cache \in Booting /\ cache' \in {"reload", "live"} /\ hand'["cache"] = NoTick
        \/ cache = "reload" /\ cache' = "live"
        \/ cache = "live" /\ cache' = "patch" /\ UNCHANGED hand /\ hand["cache"] # NoTick
        \/ cache = "patch" /\ cache' = "live"
    <3>1. CASE CacheStore \/ ReplayStore
      BY <3>1, <1>5 DEF CacheStore, ReplayStore, StoreTick
    <3>2. CASE CacheLoad \/ Bootstrap \/ BootstrapSkips \/ Reload
      BY <3>2, <1>5 DEF CacheLoad, Bootstrap, BootstrapSkips, Reload, memory
    <3>3. CASE ReplayRead
      BY <3>3, <1>5, <1>t, <1>c DEF ReplayRead, NoTick
    <3>4. CASE ReplayPatch \/ CachePatch \/ BootstrapFails
      BY <3>4, <1>5, <1>t, <1>c DEF ReplayPatch, CachePatch, BootstrapFails, BootstrapRaises, Booting
    <3> QED BY <1>5, <3>1, <3>2, <3>3, <3>4 DEF CacheStep
  <2> QED BY <1>5, <2>1, <2>2, <2>3, <2>5 DEF Booting, cluster
<1>r. ASSUME BootstrapRaises, UNCHANGED <<sup, stream>> PROVE CacheShape'
  BY <1>r, <1>t, <1>c DEF BootstrapRaises, Booting, listener, bus
<1>6. ASSUME NEW c \in Children, Dies(c), UNCHANGED sup PROVE CacheShape'
  <2>1. cache \notin {"off", "dead"} \/ stream \notin {"off", "dead"} \/ others = "up"
    BY <1>6 DEF Dies, Alive, Status, Children
  <2>2. CASE CacheDies /\ linked' = [linked EXCEPT !["cache"] = FALSE] /\ UNCHANGED <<stream, listener>>
    BY <1>6, <2>2, <1>t, <1>c DEF CacheDies, listener
  <2>3. CASE StreamDies /\ UNCHANGED <<tokens, sub, hand, cache>> /\ linked' = [k \in Consumers |-> FALSE]
    BY <1>6, <2>3, <1>t, <1>c DEF StreamDies
  <2>4. CASE UNCHANGED <<stream, listener, bus, memory>>
    BY <1>6, <2>4, <1>1 DEF listener, bus, memory
  <2> QED BY <1>6, <2>2, <2>3, <2>4 DEF Dies, memory
<1>7. CASE CacheStops \/ StreamJoined \/ DockerRestart \/ \E c \in Children : Crash(c) \/ Terminate(c)
  <2>1. UNCHANGED sup
    BY <1>7 DEF CacheStops, StreamJoined, DockerRestart, Crash, Terminate
  <2>2. CASE UNCHANGED <<fan, stream>>
    BY <2>1, <2>2, <1>1 DEF fan, listener, bus, memory
  <2>3. CASE \E c \in Children : Dies(c)
    BY <2>1, <2>3, <1>6
  <2>4. CASE BootstrapRaises /\ UNCHANGED <<faults, stream, others>>
    BY <2>4, <2>1, <1>r DEF BootstrapRaises
  <2> QED BY <1>7, <2>2, <2>3, <2>4 DEF CacheStops, StreamJoined, DockerRestart, Crash, Terminate, Children
<1>8. CASE StartTickWorker \/ StartCache
  BY <1>8, <1>t DEF StartTickWorker, StartCache, bus, listener, cluster
<1>9. CASE StartStream
  BY <1>9 DEF StartStream, bus, memory
<1>10. CASE AllStopped
  BY <1>10 DEF AllStopped, fan, listener, bus, memory, Alive, Status, Children
<1>11. CASE AllStarted \/ NoticeDeath
  BY <1>11 DEF AllStarted, NoticeDeath, fan, listener, bus, memory
<1>12. CASE StreamStops \/ CloseFeed
  BY <1>12 DEF StreamStops, CloseFeed, bus, memory
<1>13. CASE GreeksCrash \/ ReloadCluster
  BY <1>13, <1>1, <1>4 DEF GreeksCrash, ReloadCluster, listener, cluster
<1>14. CASE \/ (Feed \/ PublisherEnds) /\ UNCHANGED cluster
            \/ JobStarts \/ Prepare \/ FlushTicks \/ FlushChain \/ UNCHANGED vars
  <2>1. UNCHANGED <<tokens, sup, stream, linked, sub, hand, cache>>
    BY <1>14 DEF Feed, PublisherEnds, JobStarts, Prepare, FlushTicks, FlushChain, vars, fan,
       listener, bus, memory, cluster
  <2> QED BY <2>1, <1>1
<1>15. CASE FanoutStep /\ UNCHANGED cluster
  <2>1. CASE GreeksStore
    BY <1>15, <2>1, <1>4 DEF GreeksStore, listener, cluster
  <2> QED BY <1>15, <2>1, <1>2, <1>3, <1>5, <1>14 DEF FanoutStep
<1> QED
  BY <1>7, <1>8, <1>9, <1>10, <1>11, <1>12, <1>13, <1>14, <1>15
     DEF Next, Supervise, StartChild, JobStep

\* What a step does to the queue and to the count of ticks.
LEMMA ListenerMoves ==
  ASSUME TypeOK, CacheShape, StreamShape, [Next]_vars
  PROVE  \/ /\ queue' = Append(queue, [n |-> fed + 1, s |-> tokens]) /\ fed' = fed + 1
            /\ Feed /\ UNCHANGED <<cluster, deploy>>
         \/ /\ queue' = queue /\ queue # <<>> /\ fed' = fed + 1
            /\ Feed /\ UNCHANGED <<cluster, deploy>>
         \/ /\ queue # <<>> /\ queue' = Tail(queue) /\ fed' = fed
            /\ Publish /\ UNCHANGED <<cluster, deploy>>
         \/ /\ queue' = <<>> /\ UNCHANGED <<fed, tokens>>
            /\ Dies("websocket-streamer") /\ StreamDies
         \/ /\ UNCHANGED <<queue, fed>>
            /\ tokens' = tokens \/ (StartTickWorker /\ queue = <<>>)
<1>u. CASE UNCHANGED listener
  BY <1>u DEF listener
<1>1. CASE Feed /\ UNCHANGED <<cluster, deploy>>
  <2>1. queue \in Seq(Ticks) /\ (Len(queue) = QueueSize => queue # <<>>)
    BY DEF TypeOK, ListenerTypeOK
  <2> QED BY <1>1, <2>1 DEF Feed
<1>2. CASE Publish /\ UNCHANGED <<cluster, deploy>>
  BY <1>2 DEF Publish
<1>3. CASE StartTickWorker
  BY <1>3 DEF StartTickWorker, CacheShape, StreamShape
<1>4. ASSUME NEW c \in Children, Dies(c)
      PROVE  \/ Dies("websocket-streamer") /\ StreamDies /\ queue' = <<>> /\ UNCHANGED <<fed, tokens>>
             \/ UNCHANGED <<queue, fed, tokens>>
  BY <1>4 DEF Dies, StreamDies, listener
<1>5. CASE CacheStops \/ StreamJoined \/ DockerRestart \/ \E c \in Children : Crash(c) \/ Terminate(c)
  <2>1. CASE UNCHANGED fan
    BY <2>1, <1>u DEF fan
  <2>2. CASE \E c \in Children : Dies(c)
    BY <2>2, <1>4
  <2>3. CASE BootstrapRaises /\ UNCHANGED <<faults, stream, others>>
    BY <2>3 DEF BootstrapRaises, listener
  <2> QED BY <1>5, <2>1, <2>2, <2>3 DEF CacheStops, StreamJoined, DockerRestart, Crash, Terminate, Children
<1>6. CASE \/ PublisherEnds \/ \E c \in Consumers : Link(c) \/ Take(c)
           \/ GreeksStore \/ CacheStep \/ BootstrapFails
           \/ StartCache \/ StartStream \/ AllStarted \/ NoticeDeath \/ AllStopped
           \/ StreamStops \/ CloseFeed
           \/ GreeksCrash \/ JobStarts \/ Prepare \/ FlushTicks \/ FlushChain \/ ReloadCluster
           \/ UNCHANGED vars
  <2>1. UNCHANGED <<queue, fed, tokens>>
    BY <1>6 DEF PublisherEnds, Link, Take, GreeksStore, CacheStep, CacheLoad, Bootstrap, BootstrapSkips, ReplayRead,
     ReplayStore, CacheStore, StoreTick, ReplayPatch, Reload, CachePatch, BootstrapFails, BootstrapRaises,
     StartCache, StartStream, AllStarted, NoticeDeath, AllStopped, StreamStops, CloseFeed,
     GreeksCrash, JobStarts, Prepare, FlushTicks, FlushChain, ReloadCluster, vars, fan, listener
  <2> QED BY <2>1
<1> QED
  BY <1>1, <1>2, <1>3, <1>5, <1>6 DEF Next, FanoutStep, Supervise, StartChild, JobStep

\* A step keeps the listener's shape, and a publisher ends with an empty queue.
LEMMA StreamShapeStep ==
  ASSUME TypeOK, CacheShape, StreamShape, StopDrainsQueue, [Next]_vars
  PROVE  StreamShape' /\ StopDrainsQueue'
<1> USE DEF StreamShape, StopDrainsQueue
<1>t. fed \in Nat /\ clearedAt \in Nat /\ queue \in Seq(Ticks)
  BY DEF TypeOK, ListenerTypeOK, HistoryTypeOK
<1>1. CASE UNCHANGED <<stream, queue, pub, feedUp, bound, running, clearedAt, fed>>
  BY <1>1
<1>2. CASE Feed /\ UNCHANGED cluster
  <2>1. /\ UNCHANGED <<stream, pub, feedUp, bound, running, clearedAt>>
        /\ feedUp /\ fed' = fed + 1
        /\ queue' = queue \/ queue' = Append(queue, [n |-> fed + 1, s |-> tokens])
    BY <1>2 DEF Feed, cluster
  <2>2. ASSUME stream \in {"clear", "closed"}, ~pub, NEW i \in DOMAIN queue'
        PROVE  queue'[i].n > clearedAt
    BY <2>1, <2>2, <1>t
  <2> QED BY <2>1, <2>2, <1>t
<1>3. CASE Publish /\ UNCHANGED cluster
  BY <1>3 DEF Publish, Deliver, history, Lost, cluster
<1>4. CASE PublisherEnds /\ UNCHANGED cluster
  BY <1>4 DEF PublisherEnds, history, cluster
<1>5. CASE StartTickWorker \/ StartStream
  BY <1>5 DEF StartTickWorker, StartStream, CacheShape, history
<1>6. CASE StreamStops
  BY <1>6, <1>t DEF StreamStops
<1>7. CASE CloseFeed
  BY <1>7 DEF CloseFeed, history
<1>8. ASSUME NEW c \in Children, Dies(c) PROVE StreamShape' /\ StopDrainsQueue'
  <2>1. CASE StreamDies /\ clearedAt' = 0 /\ fed' = fed
    BY <2>1, <1>t DEF StreamDies
  <2>2. CASE UNCHANGED <<listener, stream, clearedAt>>
    BY <2>2, <1>1 DEF listener
  <2> QED BY <1>8, <2>1, <2>2 DEF Dies, history
<1>9. CASE CacheStops \/ StreamJoined \/ DockerRestart \/ \E c \in Children : Crash(c) \/ Terminate(c)
  <2>1. CASE UNCHANGED <<fan, stream>>
    BY <2>1, <1>1 DEF fan, listener, history
  <2>2. CASE \E c \in Children : Dies(c)
    BY <2>2, <1>8
  <2>3. CASE BootstrapRaises /\ UNCHANGED <<faults, stream, others>>
    BY <2>3, <1>1 DEF BootstrapRaises, listener
  <2> QED BY <1>9, <2>1, <2>2, <2>3 DEF CacheStops, StreamJoined, DockerRestart, Crash, Terminate, Children
<1>10. CASE \/ /\ \E c \in Consumers : Link(c) \/ Take(c)
               /\ UNCHANGED cluster
            \/ (GreeksStore \/ CacheStep \/ BootstrapFails) /\ UNCHANGED cluster
            \/ StartCache \/ AllStarted \/ NoticeDeath \/ AllStopped
            \/ GreeksCrash \/ JobStarts \/ Prepare \/ FlushTicks \/ FlushChain \/ ReloadCluster
            \/ UNCHANGED vars
  <2>1. UNCHANGED <<listener, stream, clearedAt>>
    BY <1>10 DEF Link, Take, GreeksStore, CacheStep, CacheLoad, Bootstrap, BootstrapSkips, ReplayRead,
     ReplayStore, CacheStore, StoreTick, ReplayPatch, Reload, CachePatch, BootstrapFails, BootstrapRaises,
     StartCache, AllStarted, NoticeDeath, AllStopped, GreeksCrash, GreeksRestarts, JobStarts,
     Prepare, FlushTicks, FlushChain, ReloadCluster, vars, fan, listener, history, cluster, Lost
  <2> QED BY <2>1, <1>1 DEF listener
<1>11. CASE FanoutStep /\ UNCHANGED cluster
  BY <1>11, <1>2, <1>3, <1>4, <1>10 DEF FanoutStep
<1> QED
  BY <1>5, <1>6, <1>7, <1>9, <1>10, <1>11 DEF Next, Supervise, StartChild, JobStep

\* The queue stays in order, and what is published only grows.
LEMMA QueueOrderStep ==
  ASSUME TypeOK, CacheShape, StreamShape, QueueOrder, [Next]_vars
  PROVE  /\ QueueOrder'
         /\ Published \in Nat /\ Published' \in Nat
         /\ Published <= fed /\ Published <= Published' /\ Published' <= fed'
         /\ queue # <<>> /\ queue' = Tail(queue) => Head(queue).n <= Published'
<1> USE DEF QueueOrder, InOrder, Published
<1>t. fed \in Nat /\ queue \in Seq(Ticks) /\ \A t \in Ticks : t.n \in Nat
  BY DEF TypeOK, ListenerTypeOK, Ticks
<1>h. queue # <<>> => Head(queue) = queue[1] /\ 1 \in DOMAIN queue
  BY <1>t
<1>1. CASE queue' = Append(queue, [n |-> fed + 1, s |-> tokens]) /\ fed' = fed + 1
  <2>1. \A i \in DOMAIN queue' : queue'[i] = IF i \in DOMAIN queue THEN queue[i] ELSE [n |-> fed + 1, s |-> tokens]
    BY <1>1, <1>t
  <2>2. \A i \in DOMAIN queue' : i \in DOMAIN queue \/ i = Len(queue) + 1
    BY <1>1, <1>t
  <2>3. QueueOrder'
    BY <1>1, <1>t, <2>1, <2>2
  <2>4. queue' # <<>> /\ Head(queue') = queue'[1]
    BY <1>1, <1>t
  <2>5. Head(queue').n = IF queue = <<>> THEN fed + 1 ELSE Head(queue).n
    BY <1>1, <1>t, <1>h, <2>1, <2>4
  <2> QED BY SMTT(60), <1>1, <1>t, <1>h, <2>3, <2>4, <2>5
<1>2. CASE queue' = queue /\ queue # <<>> /\ fed' = fed + 1
  BY SMTT(30), <1>2, <1>t, <1>h
<1>3. CASE queue # <<>> /\ queue' = Tail(queue) /\ fed' = fed
  <2>1. \A i \in DOMAIN queue' : i + 1 \in DOMAIN queue /\ queue'[i] = queue[i + 1]
    BY <1>3, <1>t
  <2>2. QueueOrder'
    BY SMTT(60), <1>3, <1>t, <2>1
  <2>3. queue' # <<>> => Head(queue') = queue[2] /\ 2 \in DOMAIN queue /\ 1 \in DOMAIN queue
    BY <1>3, <1>t
  <2>4. queue[1].n - 1 = Published /\ 0 < queue[1].n /\ queue[1].n <= fed
    BY <1>3, <1>h
  <2>5. CASE queue' = <<>>
    BY <1>3, <1>t, <1>h, <2>2, <2>4, <2>5
  <2>6. CASE queue' # <<>>
    <3>1. queue[1].n < queue[2].n /\ queue[2].n <= fed
      BY <2>3, <2>6
    <3>2. Published' = queue[2].n - 1
      BY <2>3, <2>6
    <3>3. queue[1].n \in Nat /\ queue[2].n \in Nat
      BY <2>3, <2>6, <1>t
    <3>4. Head(queue) = queue[1]
      BY <1>3, <1>h
    <3> HIDE DEF Published, QueueOrder, InOrder
    <3> QED BY SMTT(60), <1>3, <1>t, <2>2, <2>4, <3>1, <3>2, <3>3, <3>4
  <2> QED BY <2>5, <2>6
<1>4. CASE queue' = <<>> /\ fed' = fed
  BY <1>4, <1>t, <1>h
<1>5. CASE UNCHANGED <<queue, fed>>
  <2>1. UNCHANGED Published
    BY <1>5
  <2> QED BY <1>5, <2>1, <1>t, <1>h
<1> QED
  BY <1>1, <1>2, <1>3, <1>4, <1>5, ListenerMoves

\* What a step does to what consumer c has yet to store.
LEMMA PipeMoves ==
  ASSUME TypeOK, CacheShape, [Next]_vars, NEW c \in Consumers
  PROVE  \/ UNCHANGED <<sub[c], hand[c]>>
         \/ /\ Publish /\ queue # <<>> /\ linked[c] /\ UNCHANGED <<tokens, cache>>
            /\ sub'[c] = Append(sub[c], Head(queue)) /\ hand'[c] = hand[c]
         \/ /\ Take(c) /\ sub[c] # <<>> /\ hand[c] = NoTick
            /\ hand'[c] = Head(sub[c]) /\ sub'[c] = Tail(sub[c])
         \/ /\ c = "cache" /\ ReplayRead /\ tickKey[tokens] # 0
            /\ hand'[c] = [n |-> tickKey[tokens], s |-> tokens] /\ sub'[c] = sub[c]
         \/ sub'[c] \in {sub[c], <<>>} /\ hand'[c] = NoTick
<1>t. sub \in [Consumers -> Seq(Ticks)] /\ hand \in [Consumers -> Ticks]
  BY DEF TypeOK, BusTypeOK
<1>c. c = "cache" \/ c = "greeks"
  BY DEF Consumers
<1>u. CASE UNCHANGED <<sub, hand>>
  BY <1>u
<1>1. CASE Publish
  <2>1. CASE Deliver(Head(queue))
    BY <1>1, <2>1, <1>t DEF Publish, Deliver, Reached, listener, memory
  <2>2. CASE UNCHANGED bus
    BY <1>1, <2>2, <1>u DEF Publish, memory, bus
  <2> QED BY <1>1, <2>1, <2>2 DEF Publish
<1>2. ASSUME NEW d \in Consumers, Take(d)
      PROVE  \/ UNCHANGED <<sub[c], hand[c]>>
             \/ /\ Take(c) /\ sub[c] # <<>> /\ hand[c] = NoTick
                /\ hand'[c] = Head(sub[c]) /\ sub'[c] = Tail(sub[c])
  BY <1>2, <1>t DEF Take
<1>3. CASE \E d \in Consumers : Link(d)
  BY <1>3, <1>u DEF Link, memory
<1>4. CASE GreeksStore \/ CachePatch \/ ReplayPatch \/ BootstrapFails
  <2>1. sub' = sub /\ \E d \in Consumers : hand' = [hand EXCEPT ![d] = NoTick]
    BY <1>4 DEF GreeksStore, CachePatch, ReplayPatch, BootstrapFails, BootstrapRaises, bus, Consumers
  <2> QED BY <2>1, <1>t
<1>5. CASE ReplayRead
  BY <1>5, <1>t, <1>c DEF ReplayRead, bus
<1>6. ASSUME NEW k \in Children, Dies(k)
      PROVE  UNCHANGED <<sub[c], hand[c]>> \/ (sub'[c] \in {sub[c], <<>>} /\ hand'[c] = NoTick)
  BY <1>6, <1>t, <1>c DEF Dies, CacheDies, bus, memory
<1>7. CASE CacheStops \/ StreamJoined \/ DockerRestart \/ \E k \in Children : Crash(k) \/ Terminate(k)
  <2>1. CASE UNCHANGED fan
    BY <2>1, <1>u DEF fan, bus, memory
  <2>2. CASE \E k \in Children : Dies(k)
    BY <2>2, <1>6
  <2>3. CASE BootstrapRaises /\ UNCHANGED <<faults, stream, others>>
    BY <2>3, <1>t, <1>c DEF BootstrapRaises, bus
  <2> QED BY <1>7, <2>1, <2>2, <2>3 DEF CacheStops, StreamJoined, DockerRestart, Crash, Terminate, Children
<1>8. CASE GreeksRestarts
  BY <1>8, <1>t, <1>c DEF GreeksRestarts
<1>9. CASE GreeksCrash \/ ReloadCluster
  BY <1>9, <1>8, <1>u DEF GreeksCrash, ReloadCluster
<1>10. CASE \/ Feed \/ PublisherEnds \/ CacheLoad \/ Bootstrap \/ BootstrapSkips \/ ReplayStore \/ CacheStore \/ Reload
            \/ StartTickWorker \/ StartCache \/ StartStream \/ AllStarted \/ NoticeDeath
            \/ AllStopped \/ StreamStops \/ CloseFeed
            \/ JobStarts \/ Prepare \/ FlushTicks \/ FlushChain \/ UNCHANGED vars
  <2>1. UNCHANGED <<sub, hand>>
    BY <1>10 DEF Feed, PublisherEnds, CacheLoad, Bootstrap, BootstrapSkips, ReplayStore, CacheStore, StoreTick,
       Reload, StartTickWorker, StartCache, StartStream, AllStarted, NoticeDeath, AllStopped,
       StreamStops, CloseFeed, JobStarts, Prepare, FlushTicks, FlushChain, vars, fan, bus, memory
  <2> QED BY <2>1, <1>u
<1>11. CASE \E d \in Consumers : Take(d)
  BY <1>11, <1>2
<1> QED
  BY <1>1, <1>3, <1>4, <1>5, <1>7, <1>9, <1>10, <1>11
     DEF Next, FanoutStep, CacheStep, Supervise, StartChild, JobStep

\* Nothing of another series enters the way to the chain.
LEMMA PipelineStep ==
  ASSUME TypeOK, CacheShape, StreamShape, PipelineIsTodays, [Next]_vars
  PROVE  PipelineIsTodays'
<1> USE DEF PipelineIsTodays
<1>t. queue \in Seq(Ticks) /\ sub["cache"] \in Seq(Ticks) /\ "cache" \in Consumers
  BY DEF TypeOK, ListenerTypeOK, BusTypeOK, Consumers
<1>1. CASE StartTickWorker
  BY <1>1 DEF StartTickWorker, bus, CacheShape, StreamShape
<1>2. CASE ~StartTickWorker
  <2>1. tokens' = tokens
    BY <1>2, ListenerMoves DEF Feed, Publish
  <2>2. \A i \in DOMAIN queue' : queue'[i].s = tokens
    BY SMTT(30), <1>t, <2>1, ListenerMoves
  <2>3. queue # <<>> => Head(queue).s = tokens
    BY <1>t
  <2>4. \A i \in DOMAIN sub'["cache"] : sub'["cache"][i].s = tokens
    <3>1. CASE sub'["cache"] \in {sub["cache"], <<>>}
      BY <3>1
    <3>2. CASE queue # <<>> /\ sub'["cache"] = Append(sub["cache"], Head(queue))
      BY <3>2, <1>t, <2>3
    <3>3. CASE sub["cache"] # <<>> /\ sub'["cache"] = Tail(sub["cache"])
      BY <3>3, <1>t
    <3> QED BY <1>t, <3>1, <3>2, <3>3, PipeMoves
  <2>5. hand'["cache"] # NoTick => hand'["cache"].s = tokens
    BY <1>t, PipeMoves
  <2> QED BY <2>1, <2>2, <2>4, <2>5
<1> QED BY <1>1, <1>2

\* What a step does to the chain, in Redis and in the cache's memory.
LEMMA ChainMoves ==
  ASSUME TypeOK, CacheShape, [Next]_vars
  PROVE  \/ UNCHANGED <<tokens, chain, mirror, cache, unseeded>>
         \/ CacheStep
         \/ BootstrapRaises
         \/ cache' \in {"off", "load", "dead"} /\ chain' = chain
         \/ FlushChain
<1>1. CASE UNCHANGED <<tokens, chain, mirror, cache, unseeded>>
  BY <1>1
<1>2. CASE Publish \/ Feed \/ PublisherEnds
  <2>1. CASE Publish
    BY <1>1, <2>1 DEF Publish, Deliver, Lost, history, store, memory
  <2>2. CASE Feed \/ PublisherEnds
    BY <1>1, <2>2 DEF Feed, PublisherEnds, history, store, memory
  <2> QED BY <1>2, <2>1, <2>2
<1>3. CASE GreeksStore \/ \E c \in Consumers : Link(c) \/ Take(c)
  BY <1>1, <1>3 DEF Link, Take, GreeksStore, Lost, listener, store, memory, history
<1>4. CASE StartTickWorker \/ StartCache
  BY <1>4 DEF StartTickWorker, StartCache, store
<1>5. ASSUME NEW c \in Children, Dies(c)
      PROVE  UNCHANGED <<tokens, chain, mirror, cache, unseeded>> \/ (cache' = "dead" /\ chain' = chain)
  BY <1>5 DEF Dies, CacheDies, StreamDies, listener, store, memory, history
<1>6. CASE CacheStops \/ StreamJoined \/ DockerRestart \/ \E k \in Children : Crash(k) \/ Terminate(k)
  <2>1. CASE UNCHANGED fan
    BY <2>1, <1>1 DEF fan, listener, store, memory, history
  <2>2. CASE \E k \in Children : Dies(k)
    BY <2>2, <1>5
  <2>3. CASE BootstrapRaises /\ UNCHANGED <<faults, stream, others>>
    BY <2>3
  <2> QED BY <1>6, <2>1, <2>2, <2>3 DEF CacheStops, StreamJoined, DockerRestart, Crash, Terminate, Children
<1>7. CASE \/ StartStream \/ AllStarted \/ NoticeDeath \/ AllStopped \/ StreamStops \/ CloseFeed
           \/ GreeksCrash \/ JobStarts \/ Prepare \/ FlushTicks \/ ReloadCluster \/ UNCHANGED vars
  <2>1. UNCHANGED <<tokens, chain, mirror, cache, unseeded>>
    BY <1>7 DEF StartStream, AllStarted, NoticeDeath, AllStopped, StreamStops, CloseFeed,
       GreeksCrash, GreeksRestarts, Lost, JobStarts, Prepare, FlushTicks, ReloadCluster, vars,
       fan, listener, store, memory, history
  <2> QED BY <2>1, <1>1
<1> QED
  BY <1>2, <1>3, <1>4, <1>6, <1>7 DEF Next, FanoutStep, BootstrapFails, Supervise, StartChild, JobStep

\* A step keeps a seeded cache on today's series.
LEMMA SeededStep ==
  ASSUME TypeOK, CacheShape, SeededIsTodays, ChainIsTodays, [Next]_vars
  PROVE  SeededIsTodays' /\ ChainIsTodays'
<1> USE DEF SeededIsTodays, ChainIsTodays
<1>t. chain \in Chains /\ mirror \in Chains /\ hand["cache"].n \in 0 .. MaxTicks
  BY DEF TypeOK, StoreTypeOK, BusTypeOK, Ticks, Consumers
<1>1. CASE UNCHANGED <<tokens, chain, mirror, cache, unseeded>>
  BY <1>1
<1>2. CASE CacheLoad \/ Bootstrap \/ BootstrapSkips \/ ReplayRead \/ ReplayStore \/ BootstrapRaises
  BY <1>2 DEF CacheLoad, Bootstrap, BootstrapSkips, Skeleton, ReplayRead, ReplayStore, StoreTick, BootstrapRaises,
     listener, store, history
<1>3. CASE CacheStore
  BY <1>3 DEF CacheStore, StoreTick, listener, history
<1>4. CASE ReplayPatch
  BY <1>4 DEF ReplayPatch, listener, history
<1>5. CASE Reload
  BY <1>5, <1>t DEF Reload, listener, store, history, Chains
<1>6. CASE CachePatch
  BY <1>6, <1>t DEF CachePatch, listener, history, Chains
<1>7. CASE cache' \in {"off", "load", "dead"}
  BY <1>7
<1>8. CASE FlushChain
  BY <1>8 DEF FlushChain, listener, memory, Booting
<1> QED
  BY <1>1, <1>2, <1>3, <1>4, <1>5, <1>6, <1>7, <1>8, ChainMoves DEF CacheStep

\* What a step does to the tick keys.
LEMMA KeyMoves ==
  ASSUME TypeOK, CacheShape, [Next]_vars
  PROVE  \/ UNCHANGED tickKey
         \/ GreeksStore /\ tickKey' = [tickKey EXCEPT ![hand["greeks"].s] = hand["greeks"].n]
         \/ (ReplayStore \/ CacheStore) /\ tickKey' = [tickKey EXCEPT ![hand["cache"].s] = hand["cache"].n]
         \/ FlushTicks /\ tickKey' = [s \in Series |-> 0]
<1>1. CASE UNCHANGED store
  BY <1>1 DEF store
<1>2. CASE GreeksStore
  BY <1>2 DEF GreeksStore
<1>3. CASE ReplayStore \/ CacheStore
  BY <1>3 DEF ReplayStore, CacheStore, StoreTick
<1>4. CASE FlushTicks
  BY <1>4 DEF FlushTicks
<1>5. CASE \/ Feed \/ Publish \/ PublisherEnds \/ \E c \in Consumers : Link(c) \/ Take(c)
           \/ CacheLoad \/ Bootstrap \/ BootstrapSkips \/ ReplayRead \/ ReplayPatch \/ Reload
           \/ CachePatch
           \/ BootstrapFails
  BY <1>5 DEF Feed, Publish, PublisherEnds, Link, Take, CacheLoad, Bootstrap, BootstrapSkips, ReplayRead,
     ReplayPatch, Reload, CachePatch, BootstrapFails, BootstrapRaises, store
<1>6. CASE CacheStops \/ StreamJoined \/ DockerRestart \/ \E k \in Children : Crash(k) \/ Terminate(k)
  BY <1>6, <1>1 DEF CacheStops, StreamJoined, DockerRestart, Crash, Terminate, Dies, fan, Children,
     BootstrapRaises, store
<1>7. CASE \/ StartTickWorker \/ StartCache \/ StartStream \/ AllStarted \/ NoticeDeath \/ AllStopped
           \/ StreamStops \/ CloseFeed
           \/ GreeksCrash \/ JobStarts \/ Prepare \/ FlushChain \/ ReloadCluster \/ UNCHANGED vars
  BY <1>7 DEF StartTickWorker, StartCache, StartStream, AllStarted, NoticeDeath, AllStopped,
     StreamStops, CloseFeed, GreeksCrash, JobStarts, Prepare, FlushChain, ReloadCluster, vars, fan,
     store
<1> QED
  BY <1>2, <1>3, <1>4, <1>5, <1>6, <1>7
     DEF Next, FanoutStep, CacheStep, Supervise, StartChild, JobStep

\* What was published stays behind what is still queued.
LEMMA BusOrderStep ==
  ASSUME TypeOK, CacheShape, StreamShape, QueueOrder, BusOrder, [Next]_vars
  PROVE  BusOrder'
<1>p. /\ Published \in Nat /\ Published' \in Nat /\ Published <= Published'
      /\ queue # <<>> /\ queue' = Tail(queue) => Head(queue).n <= Published'
  BY QueueOrderStep
<1>n. \A t \in Ticks : t.n \in Nat
  BY DEF Ticks
<1>t. /\ sub \in [Consumers -> Seq(Ticks)] /\ hand \in [Consumers -> Ticks]
      /\ queue \in Seq(Ticks) /\ tickKey \in [Series -> 0 .. MaxTicks] /\ chain \in Chains
  BY DEF TypeOK, BusTypeOK, ListenerTypeOK, StoreTypeOK
<1>b. /\ \A c \in Consumers : \A i \in DOMAIN sub[c] : 0 < sub[c][i].n /\ sub[c][i].n <= Published
      /\ \A c \in Consumers : hand[c].n <= Published /\ hand[c].n \in Nat
      /\ \A c \in Consumers : hand[c].n = 0 => hand[c] = NoTick
      /\ \A s \in Series : tickKey[s] <= Published /\ tickKey[s] \in Nat
      /\ chain.ltp <= Published /\ chain.ltp \in Nat
  BY <1>t, <1>n DEF BusOrder, Chains
<1>c. "cache" \in Consumers /\ "greeks" \in Consumers
  BY DEF Consumers
<1> HIDE DEF Published
<1>1. ASSUME NEW c \in Consumers
      PROVE  /\ \A i \in DOMAIN sub'[c] : 0 < sub'[c][i].n /\ sub'[c][i].n <= Published'
             /\ hand'[c].n <= Published'
             /\ hand'[c].n = 0 => hand'[c] = NoTick
  <2> DEFINE Q == /\ \A i \in DOMAIN sub'[c] : 0 < sub'[c][i].n /\ sub'[c][i].n <= Published'
                  /\ hand'[c].n <= Published'
                  /\ hand'[c].n = 0 => hand'[c] = NoTick
  <2>s. sub[c] \in Seq(Ticks) /\ \A i \in DOMAIN sub[c] : sub[c][i].n \in Nat
    BY <1>t, <1>n
  <2>1. CASE UNCHANGED <<sub[c], hand[c]>>
    BY <2>1, <2>s, <1>p, <1>b
  <2>2. CASE Publish /\ queue # <<>> /\ sub'[c] = Append(sub[c], Head(queue)) /\ hand'[c] = hand[c]
    <3>1. queue' = Tail(queue) /\ Head(queue) \in Ticks /\ Head(queue) = queue[1] /\ 1 \in DOMAIN queue
      BY <2>2, <1>t DEF Publish
    <3>2. 0 < Head(queue).n /\ Head(queue).n <= Published' /\ Head(queue).n \in Nat
      BY <2>2, <3>1, <1>p, <1>n DEF QueueOrder
    <3>3. \A i \in DOMAIN sub'[c] : sub'[c][i] = Head(queue) \/ (i \in DOMAIN sub[c] /\ sub'[c][i] = sub[c][i])
      BY <2>2, <2>s, <3>1
    <3>4. \A i \in DOMAIN sub'[c] : 0 < sub'[c][i].n /\ sub'[c][i].n <= Published'
      BY <3>2, <3>3, <2>s, <1>b, <1>p
    <3> QED BY SMTT(30), <2>2, <3>4, <1>b, <1>p
  <2>3. CASE sub[c] # <<>> /\ hand'[c] = Head(sub[c]) /\ sub'[c] = Tail(sub[c])
    <3>1. Head(sub[c]) = sub[c][1] /\ 1 \in DOMAIN sub[c]
      BY <2>3, <2>s
    <3>2. \A i \in DOMAIN sub'[c] : i + 1 \in DOMAIN sub[c] /\ sub'[c][i] = sub[c][i + 1]
      BY <2>3, <2>s
    <3> QED BY SMTT(30), <2>3, <3>1, <3>2, <2>s, <1>b, <1>p
  <2>4. CASE ReplayRead /\ tickKey[tokens] # 0 /\ sub'[c] = sub[c]
             /\ hand'[c] = [n |-> tickKey[tokens], s |-> tokens]
    <3>1. tokens \in Series
      BY <2>4 DEF ReplayRead, CacheShape, TypeOK, ListenerTypeOK
    <3> QED BY <2>4, <3>1, <2>s, <1>b, <1>p
  <2>5. CASE sub'[c] \in {sub[c], <<>>} /\ hand'[c] = NoTick
    BY <2>5, <2>s, <1>b, <1>p DEF NoTick
  <2> QED BY <2>1, <2>2, <2>3, <2>4, <2>5, PipeMoves
<1>2. \A s \in Series : tickKey'[s] <= Published'
  BY SMTT(30), <1>t, <1>b, <1>c, <1>p, KeyMoves
<1>3. chain'.ltp <= Published'
  <2>1. CASE UNCHANGED chain
    BY <2>1, <1>b, <1>p
  <2>2. CASE chain'.ltp = 0
    BY <2>2, <1>p
  <2>3. CASE chain'.ltp = hand["cache"].n
    BY <2>3, <1>b, <1>c, <1>p
  <2>4. CASE CachePatch
    BY <2>4, <2>1, <2>3 DEF CachePatch, TypeOK, StoreTypeOK, Chains
  <2>s. CASE BootstrapSkips
    <3>1. chain'.ltp = chain.ltp \/ \E s \in Series : chain'.ltp = tickKey[s]
      BY <2>s, <1>t DEF BootstrapSkips, Chains
    <3> QED BY <3>1, <1>b, <1>p
  <2>5. CASE CacheStep \/ BootstrapRaises
    BY <2>5, <2>s, <2>1, <2>2, <2>3, <2>4 DEF CacheStep, CacheLoad, Bootstrap, Skeleton, ReplayRead,
       ReplayStore, CacheStore, StoreTick, ReplayPatch, Reload, BootstrapRaises, store
  <2>6. CASE FlushChain
    BY <2>6, <2>2 DEF FlushChain, NoChain
  <2> QED BY <2>1, <2>5, <2>6, ChainMoves
<1> QED
  BY <1>1, <1>2, <1>3 DEF BusOrder

\* The cache's pipeline stays in order, and ahead of the chain.
LEMMA CacheOrderStep ==
  ASSUME TypeOK, CacheShape, CacheShape', StreamShape, QueueOrder, BusOrder, CacheOrder, [Next]_vars
  PROVE  CacheOrder'
<1> DEFINE S == sub["cache"]
           H == hand["cache"]
<1>n. \A t \in Ticks : t.n \in Nat
  BY DEF Ticks
<1>c. "cache" \in Consumers
  BY DEF Consumers
<1>t. /\ S \in Seq(Ticks) /\ H \in Ticks /\ H.n \in Nat /\ \A i \in DOMAIN S : S[i].n \in Nat
      /\ queue \in Seq(Ticks) /\ chain \in Chains /\ chain.ltp \in Nat
  BY <1>n, <1>c DEF TypeOK, BusTypeOK, ListenerTypeOK, StoreTypeOK, Chains
<1>b. /\ \A i \in DOMAIN S : 0 < S[i].n /\ S[i].n <= Published
      /\ H.n <= Published /\ (H.n = 0 => H = NoTick) /\ chain.ltp <= Published
      /\ NoTick.n = 0
  BY <1>c DEF BusOrder, NoTick
<1>o. /\ \A i, j \in DOMAIN S : i < j => S[i].n < S[j].n
      /\ \A i \in DOMAIN S : H.n < S[i].n /\ chain.ltp < S[i].n
      /\ cache \in {"live", "patch"} /\ H # NoTick => chain.ltp < H.n
      /\ cache \in {"replay", "replay_tick", "replay_chain"} => chain.ltp = 0
  BY DEF CacheOrder, InOrder
<1>s. /\ cache' \notin {"live", "patch"} => S' = <<>>
      /\ cache' \in {"off", "dead", "load", "boot", "replay", "reload"} => H' = NoTick
      /\ cache \notin {"live", "patch"} => S = <<>>
  BY DEF CacheShape
<1>q. SUFFICES /\ \A i, j \in DOMAIN S' : i < j => S'[i].n < S'[j].n
               /\ \A i \in DOMAIN S' : H'.n < S'[i].n /\ chain'.ltp < S'[i].n
               /\ cache' \in {"live", "patch"} /\ H' # NoTick => chain'.ltp < H'.n
               /\ cache' \in {"replay", "replay_tick", "replay_chain"} => chain'.ltp = 0
  BY DEF CacheOrder, InOrder
<1> HIDE DEF S, H, Published
<1>1. CASE UNCHANGED <<chain, cache>>
  <2>1. CASE UNCHANGED <<S, H>>
    BY <1>1, <2>1, <1>o
  <2>2. CASE Publish /\ queue # <<>> /\ S' = Append(S, Head(queue)) /\ H' = H
    <3>1. Head(queue) \in Ticks /\ Published < Head(queue).n /\ Published \in Nat
      BY <2>2, <1>t, <1>n, QueueOrderStep DEF Published
    <3>2. Head(queue).n \in Nat
      BY <3>1, <1>n
    <3>3. \A i \in DOMAIN S' : \/ i \in DOMAIN S /\ S'[i] = S[i]
                               \/ i = Len(S) + 1 /\ S'[i] = Head(queue)
      BY <2>2, <1>t, <3>1
    <3>4. \A i \in DOMAIN S : i < Len(S) + 1 /\ i \in Nat
      BY <1>t
    <3>5. \A i \in DOMAIN S : S[i].n < Head(queue).n
      BY <1>t, <1>b, <3>1, <3>2
    <3>6. Len(S) \in Nat
      BY <1>t
    <3>7. \A i, j \in DOMAIN S' : i < j => S'[i].n < S'[j].n
      BY <1>o, <3>3, <3>4, <3>5, <3>6
    <3>8. \A i \in DOMAIN S' : H'.n < S'[i].n /\ chain'.ltp < S'[i].n
      BY <1>1, <2>2, <1>t, <1>b, <1>o, <3>1, <3>2, <3>3
    <3> QED BY <1>1, <2>2, <1>o, <3>7, <3>8
  <2>3. CASE S # <<>> /\ H' = Head(S) /\ S' = Tail(S)
    <3>1. Head(S) = S[1] /\ 1 \in DOMAIN S
      BY <2>3, <1>t
    <3>2. \A i \in DOMAIN S' : i + 1 \in DOMAIN S /\ S'[i] = S[i + 1] /\ 1 < i + 1 /\ i \in Nat
      BY <2>3, <1>t
    <3> QED BY <1>1, <2>3, <1>t, <1>o, <3>1, <3>2
  <2>4. CASE ReplayRead /\ S' = S
    BY <1>1, <2>4, <1>o, <1>s DEF ReplayRead
  <2>5. CASE S' \in {S, <<>>} /\ H' = NoTick
    BY <1>1, <2>5, <1>o, <1>b
  <2> QED BY <1>c, <2>1, <2>2, <2>3, <2>4, <2>5, PipeMoves DEF S, H
<1>2. CASE CacheStep \/ BootstrapRaises
  <2>1. S' = S
    BY <1>2 DEF CacheStep, CacheLoad, Bootstrap, BootstrapSkips, ReplayRead, ReplayStore, CacheStore, StoreTick,
       ReplayPatch, Reload, CachePatch, BootstrapRaises, bus, S
  <2>h. hand \in [Consumers -> Ticks]
    BY DEF TypeOK, BusTypeOK
  <2>2. CASE CachePatch
    <3>1. H' = NoTick /\ cache' = "live" /\ cache = "patch"
      BY <2>2, <2>h, <1>c DEF CachePatch, H
    <3>2. chain'.ltp \in {chain.ltp, H.n}
      BY <2>2 DEF CachePatch, TypeOK, StoreTypeOK, Chains, H
    <3> QED BY <2>1, <3>1, <3>2, <1>o, <1>b
  <2>3. CASE CacheStore
    <3>1. H' = H /\ cache' = "patch" /\ cache = "live" /\ chain' = chain
      BY <2>3 DEF CacheStore, StoreTick, H
    <3> QED BY <2>1, <3>1, <1>o
  <2>4. CASE CacheLoad \/ Bootstrap \/ BootstrapSkips \/ ReplayRead \/ ReplayStore
    <3>1. S = <<>> /\ cache' \notin {"live", "patch"}
      BY <2>4, <1>s DEF CacheLoad, Bootstrap, BootstrapSkips, ReplayRead, ReplayStore, StoreTick
    <3>2. cache' \in {"replay", "replay_tick", "replay_chain"} => chain'.ltp = 0
      BY <2>4, <1>o DEF CacheLoad, Bootstrap, BootstrapSkips, Skeleton, ReplayRead, ReplayStore, StoreTick, store
    <3> QED BY <2>1, <3>1, <3>2
  <2>5. CASE ReplayPatch \/ Reload \/ BootstrapRaises
    <3>1. S = <<>> /\ cache' \in {"live", "reload"} /\ H' = NoTick
      BY <2>5, <2>h, <1>c, <1>s DEF ReplayPatch, Reload, BootstrapRaises, Booting, H, memory, CacheShape
    <3> QED BY <2>1, <3>1
  <2> QED BY <1>2, <2>2, <2>3, <2>4, <2>5 DEF CacheStep
<1>3. CASE cache' \in {"off", "load", "dead"}
  BY <1>3, <1>s
<1>4. CASE FlushChain
  <2>1. chain'.ltp = 0 /\ S' = S /\ H' = H /\ cache' = cache
    BY <1>4 DEF FlushChain, NoChain, bus, memory, S, H
  <2> QED BY <2>1, <1>t, <1>b, <1>o
<1> QED
  BY <1>1, <1>2, <1>3, <1>4, ChainMoves

\* A step is one of the register's, or leaves it alone.
LEMMA RegisterStep ==
  ASSUME TypeOK, CacheShape, StreamShape, QueueOrder, BusOrder, BusOrder', CacheOrder, [Next]_vars
  PROVE  [Register!Next]_<<fed, Shown>>
<1> USE DEF Register!Next, Register!Emit, Register!Show, Register!Reset
<1>t. /\ fed \in Nat /\ hand["cache"].n \in Nat /\ chain.ltp \in Nat /\ chain \in Chains
      /\ mirror \in Chains /\ (hand["cache"] # NoTick => hand["cache"].n # 0)
  BY DEF TypeOK, ListenerTypeOK, BusTypeOK, StoreTypeOK, Ticks, Chains, Consumers, BusOrder
<1>f. Published \in Nat /\ Published <= fed /\ hand["cache"].n <= Published
  BY QueueOrderStep DEF BusOrder, Consumers
<1>s. skipped \in BOOLEAN /\ skipped' \in BOOLEAN
  BY TypeStep DEF TypeOK, HistoryTypeOK
<1>1. CASE Feed
  <2>1. fed' = fed + 1 /\ chain' = chain /\ skipped' = skipped
    BY <1>1 DEF Feed, store
  <2> QED BY <2>1 DEF Shown
<1>2. CASE fed' = fed /\ skipped'
  BY <1>2, <1>t DEF Shown
<1>3. CASE fed' = fed /\ skipped /\ ~skipped'
  <2>1. Shown = 0 /\ Shown' = chain'.ltp
    BY <1>3 DEF Shown
  <2>2. chain'.ltp \in Nat /\ chain'.ltp <= Published' /\ Published' \in Nat /\ Published' <= fed
    BY <1>3, TypeStep, QueueOrderStep DEF BusOrder, TypeOK, StoreTypeOK, Chains
  <2> HIDE DEF Published
  <2> QED BY <1>3, <1>t, <2>1, <2>2
<1>4. CASE fed' = fed /\ ~skipped /\ ~skipped'
  <2>0. Shown = chain.ltp /\ Shown' = chain'.ltp
    BY <1>4 DEF Shown
  <2>1. CASE chain'.ltp \in {chain.ltp, 0}
    BY <1>4, <2>0, <2>1
  <2>2. CASE CachePatch
    <3>1. chain'.ltp = chain.ltp \/ chain'.ltp = hand["cache"].n
      BY <2>2, <1>t DEF CachePatch, Chains
    <3>2. chain.ltp < hand["cache"].n
      BY <2>2 DEF CachePatch, CacheOrder, CacheShape
    <3>3. hand["cache"].n \in chain.ltp + 1 .. fed
      BY <3>2, <1>t, <1>f
    <3> QED BY <1>4, <2>0, <3>1, <3>3
  <2>3. CASE ReplayPatch
    <3>1. chain'.ltp = hand["cache"].n /\ chain.ltp = 0 /\ hand["cache"].n # 0
      BY <2>3, <1>t DEF ReplayPatch, CacheOrder, CacheShape
    <3>2. hand["cache"].n \in chain.ltp + 1 .. fed
      BY <3>1, <1>t, <1>f
    <3> QED BY <1>4, <2>0, <3>1, <3>2
  <2>4. CASE CacheStep \/ BootstrapRaises
    BY <2>4, <1>4, <2>1, <2>2, <2>3 DEF CacheStep, CacheLoad, Bootstrap, BootstrapSkips, Skeleton, ReplayRead,
       ReplayStore, CacheStore, StoreTick, Reload, BootstrapRaises, store
  <2>5. CASE FlushChain
    BY <2>5, <2>1 DEF FlushChain, NoChain
  <2> QED BY <2>1, <2>4, <2>5, ChainMoves
<1> QED
  BY <1>1, <1>2, <1>3, <1>4, <1>s, ListenerMoves

\* A sequence whose tail is empty has one element.
LEMMA LastOfOne ==
  ASSUME NEW q \in Seq(Ticks), q # <<>>, Tail(q) = <<>>
  PROVE  Len(q) = 1 /\ q[Len(q)] = Head(q)
<1>1. Len(Tail(q)) = Len(q) - 1 /\ Len(q) \in Nat
  OBVIOUS
<1>2. Len(q) = 1
  BY <1>1
<1> QED BY <1>2

\* The newest tick is on its way until it is stored or lost.
LEMMA NewestStep ==
  ASSUME TypeOK, CacheShape, StreamShape, QueueOrder, BusOrder, PipelineIsTodays, SeededIsTodays,
         NewestOnItsWay, [Next]_vars
  PROVE  NewestOnItsWay'
<1>t. /\ fed \in Nat /\ queue \in Seq(Ticks)
      /\ sub \in [Consumers -> Seq(Ticks)] /\ hand \in [Consumers -> Ticks]
      /\ tickKey \in [Series -> 0 .. MaxTicks] /\ chain \in Chains /\ mirror \in Chains
      /\ tokens \in Series \cup {0}
  BY DEF TypeOK, ListenerTypeOK, BusTypeOK, StoreTypeOK
<1>c. Consumers = {"cache", "greeks"}
  BY DEF Consumers
<1>1. CASE lostNewest' \/ fed' = 0
  BY <1>1 DEF NewestOnItsWay
<1>2. CASE Feed /\ UNCHANGED <<cluster, deploy>> /\ ~lostNewest'
  <2>1. queue' = Append(queue, Newest') /\ stream' = stream
    BY <1>2 DEF Feed, Newest, cluster
  <2>2. queue' # <<>> /\ queue'[Len(queue')] = Newest'
    BY <2>1, <1>t
  <2>3. stream \notin {"off", "dead"}
    BY <1>2 DEF Feed, StreamShape
  <2> QED BY <2>1, <2>2, <2>3 DEF NewestOnItsWay
<1> DEFINE On == ~lostNewest /\ fed > 0 /\ ~lostNewest' /\ fed' = fed
<1>o. ASSUME On
      PROVE  /\ stream \notin {"off", "dead"} /\ sup # "down"
             /\ queue # <<>> => queue[Len(queue)] = Newest
             /\ queue = <<>> =>
                 /\ cache \in {"live", "patch"}
                 /\ \A c \in Consumers : PendsNewest(c) \/ Done(c)
                 /\ Done("cache") /\ ~unseeded => chain = [s |-> tokens, ltp |-> fed]
                 /\ Done("greeks") /\ (Done("cache") \/ (sub["cache"] = <<>> /\ cache = "patch"))
                      => tickKey[tokens] = fed
  BY <1>o DEF NewestOnItsWay, CacheShape
<1>3. CASE On /\ UNCHANGED <<tokens, queue, sub, hand, tickKey, chain, cache, unseeded>>
              /\ (stream' = stream \/ stream' \in {"clear", "closed"})
  BY <1>3, <1>o DEF NewestOnItsWay, PendsNewest, Done, Newest
<1>4. CASE On /\ Publish /\ UNCHANGED <<cluster, deploy>>
  <2>1. queue # <<>> /\ queue' = Tail(queue) /\ queue[Len(queue)] = Newest /\ UNCHANGED <<tokens, stream>>
    BY <1>4, <1>o DEF Publish, cluster
  <2>2. CASE queue' # <<>>
    <3>1. queue'[Len(queue')] = Newest
      BY <2>1, <2>2, <1>t
    <3> QED BY <1>4, <2>1, <2>2, <3>1, <1>o DEF NewestOnItsWay, Newest
  <2>3. CASE queue' = <<>>
    <3>1. Head(queue) = Newest
      BY <2>1, <2>3, <1>t, LastOfOne
    <3>2. Head(queue).n = fed
      BY <3>1 DEF Newest
    <3>3. Deliver(Head(queue)) /\ Reached = Consumers /\ UNCHANGED memory
      BY <1>4, <3>2 DEF Publish, Deliver, Lost
    <3>4. \A c \in Consumers : sub'[c] = Append(sub[c], Newest) /\ linked[c]
      BY <3>1, <3>3, <1>t DEF Deliver, Reached
    <3>5. \A c \in Consumers : sub'[c] # <<>> /\ sub'[c][Len(sub'[c])] = Newest
      BY <3>4, <1>t
    <3>6. cache \in {"live", "patch"} /\ cache' = cache
      BY <3>3, <3>4, <1>c DEF CacheShape, memory
    <3>7. Newest' = Newest
      BY <1>4, <2>1 DEF Newest
    <3>8. \A c \in Consumers : PendsNewest(c)' /\ ~Done(c)'
      BY <3>5, <3>7 DEF PendsNewest, Done
    <3> QED BY <1>4, <2>1, <2>3, <3>6, <3>8, <1>o, <1>c DEF NewestOnItsWay
  <2> QED BY <2>2, <2>3
<1>5. ASSUME NEW c \in Consumers, Take(c), On, UNCHANGED <<cluster, deploy>> PROVE NewestOnItsWay'
  <2>1. /\ UNCHANGED <<tokens, queue, tickKey, chain, cache, unseeded, stream>>
        /\ sub' = [sub EXCEPT ![c] = Tail(@)] /\ hand' = [hand EXCEPT ![c] = Head(sub[c])]
        /\ sub[c] # <<>> /\ (c = "cache" => cache = "live")
    BY <1>5 DEF Take, listener, store, history, cluster
  <2>2. Newest' = Newest
    BY <1>5, <2>1 DEF Newest
  <2>3. CASE queue = <<>>
    <3>1. sub[c][Len(sub[c])] = Newest
      BY <1>5, <2>1, <2>3, <1>o DEF PendsNewest, Done
    <3>2. PendsNewest(c)'
      <4>1. CASE sub'[c] = <<>>
        <5>1. Tail(sub[c]) = <<>> /\ Len(sub[c]) \in Nat /\ Len(sub[c]) # 0
          BY <2>1, <4>1, <1>t
        <5>2. Len(sub[c]) = 1
          BY <5>1, <1>t, LastOfOne
        <5>3. hand'[c] = sub[c][1]
          BY <2>1, <1>t
        <5> QED BY <2>2, <3>1, <4>1, <5>2, <5>3 DEF PendsNewest
      <4>2. CASE sub'[c] # <<>>
        <5>1. sub'[c][Len(sub'[c])] = sub[c][Len(sub[c])]
          BY <2>1, <4>2, <1>t
        <5> QED BY <2>2, <3>1, <4>2, <5>1 DEF PendsNewest
      <4> QED BY <4>1, <4>2
    <3>3. Head(sub[c]) # NoTick
      <4>1. Head(sub[c]) = sub[c][1] /\ 1 \in DOMAIN sub[c]
        BY <2>1, <1>t
      <4> QED BY <4>1 DEF BusOrder, NoTick
    <3>4. hand'[c] # NoTick /\ ~Done(c)'
      BY <2>1, <3>3, <1>t DEF Done
    <3>5. \A d \in Consumers \ {c} : (PendsNewest(d)' <=> PendsNewest(d)) /\ (Done(d)' <=> Done(d))
                                     /\ sub'[d] = sub[d]
      BY <2>1, <2>2, <1>t DEF PendsNewest, Done
    <3>6. \A d \in Consumers : PendsNewest(d)' \/ Done(d)'
      BY <1>5, <2>3, <3>2, <3>5, <1>o
    <3> QED BY <1>5, <2>1, <2>3, <3>4, <3>5, <3>6, <1>o, <1>c DEF NewestOnItsWay
  <2>4. CASE queue # <<>>
    BY <1>5, <2>1, <2>2, <2>4, <1>o DEF NewestOnItsWay
  <2> QED BY <2>3, <2>4
<1>6. CASE On /\ GreeksStore /\ UNCHANGED <<cluster, deploy>>
  <2> DEFINE t == hand["greeks"]
  <2>1. /\ UNCHANGED <<tokens, queue, sub, chain, cache, unseeded, stream>>
        /\ hand' = [hand EXCEPT !["greeks"] = NoTick] /\ t # NoTick
        /\ t.n # fed \/ tickKey' = [tickKey EXCEPT ![t.s] = t.n]
    BY <1>6 DEF GreeksStore, Lost, listener, bus, history, cluster
  <2>2. Newest' = Newest /\ Newest.n = fed /\ Newest.s = tokens
    BY <1>6, <2>1 DEF Newest
  <2>3. CASE queue = <<>>
    <3>1. PendsNewest("greeks")
      BY <1>6, <2>1, <2>3, <1>o, <1>c DEF Done
    <3>2. (PendsNewest("cache")' <=> PendsNewest("cache")) /\ (Done("cache")' <=> Done("cache"))
      BY <2>1, <2>2, <1>t, <1>c DEF PendsNewest, Done
    <3>3. CASE sub["greeks"] # <<>>
      <4>1. PendsNewest("greeks")' /\ ~Done("greeks")'
        BY <2>1, <2>2, <3>1, <3>3, <1>t DEF PendsNewest, Done
      <4> QED BY <1>6, <2>1, <2>3, <3>2, <4>1, <1>o, <1>c DEF NewestOnItsWay
    <3>4. CASE sub["greeks"] = <<>>
      <4>1. t = Newest
        BY <3>1, <3>4 DEF PendsNewest
      <4>2. tokens \in Series
        BY <1>6, <1>o, <1>t DEF CacheShape
      <4>3. tickKey'[tokens] = fed
        BY <2>1, <2>2, <4>1, <4>2, <1>t
      <4>4. Done("greeks")'
        BY <2>1, <3>4, <1>t, <1>c DEF Done
      <4> QED BY <1>6, <2>1, <2>3, <3>2, <4>3, <4>4, <1>o, <1>c DEF NewestOnItsWay
    <3> QED BY <3>3, <3>4
  <2>4. CASE queue # <<>>
    BY <1>6, <2>1, <2>2, <2>4, <1>o DEF NewestOnItsWay
  <2> QED BY <2>3, <2>4
<1>7. CASE On /\ (CacheStep \/ BootstrapFails) /\ UNCHANGED <<cluster, deploy>>
  <2>1. UNCHANGED <<tokens, queue, sub, stream>>
    BY <1>7 DEF CacheStep, CacheLoad, Bootstrap, BootstrapSkips, ReplayRead, ReplayStore, CacheStore, StoreTick,
       ReplayPatch, Reload, CachePatch, BootstrapFails, BootstrapRaises, listener, bus, cluster
  <2>2. Newest' = Newest /\ Newest.n = fed /\ Newest.s = tokens
    BY <1>7, <2>1 DEF Newest
  <2>3. CASE queue # <<>>
    BY <1>7, <2>1, <2>2, <2>3, <1>o DEF NewestOnItsWay
  <2>4. CASE queue = <<>>
    <3>1. cache \in {"live", "patch"}
      BY <1>7, <2>4, <1>o
    <3>2. CacheStore \/ CachePatch
      BY <1>7, <3>1 DEF CacheStep, CacheLoad, Bootstrap, BootstrapSkips, ReplayRead, ReplayStore, StoreTick,
         ReplayPatch, Reload, BootstrapFails, BootstrapRaises, Booting
    <3>3. tokens \in Series
      BY <1>7, <1>o, <1>t DEF CacheShape
    <3>4. hand["cache"] # NoTick /\ PendsNewest("cache") /\ ~Done("cache")
      BY <1>7, <2>4, <3>2, <1>o, <1>c DEF CacheStore, StoreTick, CachePatch, CacheShape, Done
    <3>5. CASE CacheStore
      <4>1. /\ UNCHANGED <<hand, chain, unseeded>> /\ cache' = "patch"
            /\ tickKey' = [tickKey EXCEPT ![hand["cache"].s] = hand["cache"].n]
        BY <3>5 DEF CacheStore, StoreTick, history
      <4>2. \A d \in Consumers : (PendsNewest(d)' <=> PendsNewest(d)) /\ (Done(d)' <=> Done(d))
        BY <2>1, <2>2, <4>1 DEF PendsNewest, Done
      <4>3. sub["cache"] = <<>> => tickKey'[tokens] = fed
        BY <2>2, <3>3, <3>4, <4>1, <1>t DEF PendsNewest
      <4> QED BY <1>7, <2>1, <2>4, <3>4, <4>1, <4>2, <4>3, <1>o, <1>c DEF NewestOnItsWay
    <3>6. CASE CachePatch
      <4>1. /\ UNCHANGED <<tickKey, unseeded>> /\ cache = "patch" /\ cache' = "live"
            /\ hand' = [hand EXCEPT !["cache"] = NoTick]
        BY <3>6 DEF CachePatch, history
      <4>2. (PendsNewest("greeks")' <=> PendsNewest("greeks")) /\ (Done("greeks")' <=> Done("greeks"))
        BY <2>1, <2>2, <4>1, <1>t, <1>c DEF PendsNewest, Done
      <4>3. CASE sub["cache"] # <<>>
        <5>1. PendsNewest("cache")' /\ ~Done("cache")'
          BY <2>1, <2>2, <3>4, <4>1, <4>3 DEF PendsNewest, Done
        <5> QED BY <1>7, <2>1, <2>4, <4>1, <4>2, <5>1, <1>o, <1>c DEF NewestOnItsWay
      <4>4. CASE sub["cache"] = <<>>
        <5>1. hand["cache"] = Newest
          BY <3>4, <4>4 DEF PendsNewest
        <5>2. ~unseeded => chain' = [s |-> tokens, ltp |-> fed]
          BY <2>2, <3>6, <4>1, <5>1, <1>t DEF CachePatch, SeededIsTodays, Chains
        <5>3. Done("cache")'
          BY <2>1, <4>1, <4>4, <1>t, <1>c DEF Done
        <5>4. Done("greeks") => tickKey[tokens] = fed
          BY <1>7, <2>4, <4>1, <4>4, <1>o
        <5> QED BY <1>7, <2>1, <2>4, <4>1, <4>2, <5>2, <5>3, <5>4, <1>o, <1>c DEF NewestOnItsWay
      <4> QED BY <4>3, <4>4
    <3> QED BY <3>2, <3>5, <3>6
  <2> QED BY <2>3, <2>4
<1>8. ASSUME NEW k \in Children, Dies(k), ~lostNewest', fed' > 0 PROVE NewestOnItsWay'
  <2>1. UNCHANGED <<stream, listener, bus, store, memory, history>>
    BY <1>8 DEF Dies
  <2> QED BY <1>8, <2>1, <1>3 DEF listener, bus, store, memory, history
<1>r. CASE BootstrapRaises /\ stream' = stream /\ ~lostNewest' /\ fed' > 0
  <2>1. UNCHANGED <<tokens, fed, queue, sub, tickKey, chain, lostNewest>> /\ cache \notin {"live", "patch"}
    BY <1>r DEF BootstrapRaises, listener, bus, store, Booting
  <2>2. queue # <<>>
    BY <1>r, <2>1, <1>o
  <2> QED BY <1>r, <2>1, <2>2, <1>o DEF NewestOnItsWay, Newest
<1>9. CASE (CacheStops \/ StreamJoined \/ DockerRestart \/ \E k \in Children : Crash(k) \/ Terminate(k))
           /\ ~lostNewest' /\ fed' > 0
  <2>1. CASE UNCHANGED <<fan, stream>>
    BY <1>9, <2>1, <1>3 DEF fan, listener, bus, store, memory, history
  <2>2. CASE \E k \in Children : Dies(k)
    BY <1>9, <2>2, <1>8
  <2>3. CASE BootstrapRaises /\ UNCHANGED <<faults, stream, others>>
    BY <1>9, <2>3, <1>r
  <2> QED BY <1>9, <2>1, <2>2, <2>3 DEF CacheStops, StreamJoined, DockerRestart, Crash, Terminate, Children
<1>10. CASE StartTickWorker \/ StartStream
  <2>1. stream \in {"off", "dead"} /\ UNCHANGED <<fed, lostNewest>>
    BY <1>10 DEF StartTickWorker, StartStream, CacheShape, history
  <2> QED BY <2>1, <1>o, <1>1, <1>t
<1>11. CASE StartCache /\ On
  BY <1>11, <1>o DEF StartCache, listener, bus, store, history, cluster, NewestOnItsWay, Newest
<1>12. CASE GreeksCrash \/ ReloadCluster \/ FlushTicks \/ FlushChain
  <2>1. CASE lostNewest'
    BY <2>1, <1>1
  <2>2. CASE ReloadCluster /\ UNCHANGED <<linked, sub, hand, history>>
    <3>1. UNCHANGED <<tokens, fed, queue, sub, hand, tickKey, chain, cache, unseeded, lostNewest, stream>>
      BY <2>2 DEF ReloadCluster, listener, store, history
    <3> QED BY <3>1, <1>1, <1>3, <1>t
  <2> QED BY <1>12, <2>1, <2>2 DEF GreeksCrash, GreeksRestarts, Lost, ReloadCluster, FlushTicks, FlushChain
<1>13. CASE \/ (PublisherEnds \/ \E c \in Consumers : Link(c)) /\ UNCHANGED cluster
            \/ AllStarted \/ NoticeDeath \/ AllStopped \/ StreamStops \/ CloseFeed
            \/ JobStarts \/ Prepare \/ UNCHANGED vars
  <2>1. UNCHANGED <<tokens, fed, queue, sub, hand, tickKey, chain, cache, unseeded, lostNewest>>
        /\ (stream' = stream \/ stream' \in {"clear", "closed"})
    BY <1>13 DEF PublisherEnds, Link, AllStarted, NoticeDeath, AllStopped, StreamStops, CloseFeed,
       JobStarts, Prepare, vars, fan, listener, bus, store, memory, history, cluster
  <2> QED BY <2>1, <1>1, <1>3, <1>t
<1>14. ASSUME ~lostNewest', fed' > 0, UNCHANGED <<cluster, deploy>>,
              \/ Publish \/ GreeksStore \/ CacheStep \/ BootstrapFails \/ StartCache
              \/ \E c \in Consumers : Take(c)
       PROVE  On
  <2>1. fed' = fed
    BY <1>14 DEF Publish, GreeksStore, CacheStep, CacheLoad, Bootstrap, BootstrapSkips, ReplayRead, ReplayStore,
       CacheStore, StoreTick, ReplayPatch, Reload, CachePatch, BootstrapFails, BootstrapRaises, StartCache, Take,
       listener
  <2>2. CASE Publish \/ GreeksStore
    <3>1. lostNewest' = lostNewest \/ \E n : lostNewest' = (lostNewest \/ n = fed)
      BY <2>2 DEF Publish, Deliver, Lost, GreeksStore, history
    <3>2. lostNewest \in BOOLEAN
      BY DEF TypeOK, HistoryTypeOK
    <3>3. ~lostNewest
      BY <1>14, <3>1, <3>2
    <3> QED BY <1>14, <2>1, <3>3
  <2>3. CASE CacheStep \/ BootstrapFails \/ StartCache \/ \E c \in Consumers : Take(c)
    BY <1>14, <2>1, <2>3 DEF CacheStep, CacheLoad, Bootstrap, BootstrapSkips, ReplayRead, ReplayStore, CacheStore,
       StoreTick, ReplayPatch, Reload, CachePatch, BootstrapFails, BootstrapRaises, StartCache, Take, history
  <2> QED BY <1>14, <2>2, <2>3
<1>15. CASE FanoutStep /\ UNCHANGED <<cluster, deploy>> /\ ~lostNewest' /\ fed' > 0
  BY <1>15, <1>2, <1>4, <1>5, <1>6, <1>7, <1>13, <1>14 DEF FanoutStep, cluster
<1>16. fed' \in Nat
  BY <1>t, ListenerMoves
<1> HIDE DEF On
<1> QED
  BY <1>1, <1>9, <1>10, <1>11, <1>12, <1>13, <1>14, <1>15, <1>16
     DEF Next, Supervise, StartChild, JobStep, StartCache

-----------------------------------------------------------------------------
\* The inductive invariant holds initially.
LEMMA InitIInv == Init => IInv
<1> SUFFICES ASSUME Init PROVE IInv
  OBVIOUS
<1> USE DEF Init
<1>1. ListenerTypeOK
  <2>1. queue \in Seq(Ticks) /\ Len(queue) = 0
    BY SMTT(30)
  <2>2. tokens = 0 /\ fed \in 0 .. MaxTicks
    BY SMTT(30)
  <2>3. running \in BOOLEAN /\ feedUp \in BOOLEAN /\ pub \in BOOLEAN /\ bound \in BOOLEAN
    BY Zenon
  <2>4. Len(queue) <= QueueSize
    <3> HIDE DEF Init
    <3> QED BY <2>1
  <2> HIDE DEF Init
  <2> QED BY <2>1, <2>2, <2>3, <2>4 DEF ListenerTypeOK
<1>2. BusTypeOK
  BY NoTickTyped DEF BusTypeOK
<1>3. StoreTypeOK
  BY DEF StoreTypeOK, NoChain, Chains, CacheStates
<1>4. ClusterTypeOK /\ HistoryTypeOK
  <2>1. ClusterTypeOK
    <3>1. stream = "off" /\ others = "dead" /\ sup = "down" /\ wanted = 0
      BY Zenon
    <3>2. stopEvent \in BOOLEAN
      BY Zenon
    <3> HIDE DEF Init
    <3> QED BY <3>1, <3>2 DEF ClusterTypeOK
  <2>2. HistoryTypeOK
    <3>1. clearedAt = 0 /\ faults = 0 /\ jobs = 0
      BY Zenon
    <3>2. lostNewest \in BOOLEAN /\ unseeded \in BOOLEAN /\ skipped \in BOOLEAN
      BY Zenon
    <3> HIDE DEF Init
    <3> QED BY <3>1, <3>2 DEF HistoryTypeOK
  <2> QED BY <2>1, <2>2
<1>5. StreamShape /\ CacheShape /\ StopDrainsQueue
  BY DEF StreamShape, CacheShape, StopDrainsQueue, Consumers
<1>6. PipelineIsTodays /\ SeededIsTodays /\ ChainIsTodays
  BY DEF PipelineIsTodays, SeededIsTodays, ChainIsTodays, Consumers
<1>7. QueueOrder
  BY DEF QueueOrder, InOrder
<1>8. BusOrder
  BY DEF BusOrder, Published, NoTick, NoChain
<1>9. CacheOrder
  BY DEF CacheOrder, InOrder, NoTick, NoChain, Consumers
<1>10. NewestOnItsWay
  BY DEF NewestOnItsWay
<1> QED
  BY <1>1, <1>2, <1>3, <1>4, <1>5, <1>6, <1>7, <1>8, <1>9, <1>10 DEF IInv, TypeOK

\* A step keeps the inductive invariant.
LEMMA NextIInv == IInv /\ [Next]_vars => IInv'
<1> SUFFICES ASSUME IInv, [Next]_vars PROVE IInv'
  OBVIOUS
<1> USE DEF IInv
<1>1. TypeOK' /\ CacheShape'
  BY TypeStep, CacheShapeStep
<1>2. StreamShape' /\ StopDrainsQueue'
  BY StreamShapeStep
<1>3. PipelineIsTodays' /\ SeededIsTodays' /\ ChainIsTodays'
  BY PipelineStep, SeededStep
<1>4. QueueOrder' /\ BusOrder' /\ CacheOrder'
  BY <1>1, QueueOrderStep, BusOrderStep, CacheOrderStep
<1>5. NewestOnItsWay'
  BY NewestStep
<1> QED BY <1>1, <1>2, <1>3, <1>4, <1>5

\* The inductive invariant holds in every reachable state.
THEOREM IInvAlways == Spec => []IInv
BY InitIInv, NextIInv, PTL DEF Spec

\* Every variable keeps its type; the queue and the sockets their bounds.
THEOREM TypeCorrect == Spec => []TypeOK
<1>1. IInv => TypeOK
  BY DEF IInv
<1> QED BY <1>1, IInvAlways, PTL

\* stop() drains the queue: a publisher that has ended leaves only what the
\* feed called back with after stop() had begun.
THEOREM StopDrainsQueueAlways == Spec => []StopDrainsQueue
<1>1. IInv => StopDrainsQueue
  BY DEF IInv
<1> QED BY <1>1, IInvAlways, PTL

\* Of an underlying its bootstrap has rebuilt, a cache never serves the chain of
\* another day's series, whatever is written back or replayed meanwhile.
THEOREM ChainIsTodaysAlways == Spec => []ChainIsTodays
<1>1. IInv => ChainIsTodays
  BY DEF IInv
<1> QED BY <1>1, IInvAlways, PTL

\* When all is quiet and the newest tick was not lost, chain and tick key
\* both show it, although two processes write the key.
THEOREM LosslessIsCurrentAlways == Spec => []LosslessIsCurrent
<1>1. IInv => LosslessIsCurrent
  <2> SUFFICES ASSUME NewestOnItsWay, Quiet, fed > 0, ~lostNewest, ~unseeded
               PROVE  chain = [s |-> tokens, ltp |-> fed] /\ tickKey[tokens] = fed
    BY Zenon DEF IInv, LosslessIsCurrent
  <2>1. queue = <<>>
    BY DEF Quiet
  <2>2. Done("cache") /\ Done("greeks")
    BY DEF Quiet, Done, Consumers
  <2> QED BY Zenon, <2>1, <2>2 DEF NewestOnItsWay
<1> QED BY <1>1, IInvAlways, PTL

\* The whole feed implements a register that is only ever moved forward to a
\* tick the exchange has sent, or reset; a chain the bootstrap passed over is
\* not shown.
THEOREM FeedImplementsRegister == Spec => ChainImplementsRegister
<1>1. Init => Register!Init
  BY DEF Init, Register!Init, Shown, NoChain
<1>2. IInv /\ [Next]_vars => [Register!Next]_<<fed, Shown>>
  BY RegisterStep, NextIInv DEF IInv
<1> QED
  BY <1>1, <1>2, IInvAlways, PTL DEF Spec, ChainImplementsRegister, Register!Spec
=============================================================================
