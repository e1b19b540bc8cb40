--------------------------- MODULE DbWriter_proofs ---------------------------
(***************************************************************************)
(* Theorems about DbWriter for every set of ticks and connections and      *)
(* every bound on the failures.                                            *)
(***************************************************************************)
EXTENDS DbWriter, SequenceTheorems, TLAPS

LEMMA Steps ==
  /\ CallerSteps = {"run", "join", "flush", "ensure", "connect", "insert", "commit",
                    "rollback", "requeue", "close", "stopped", "raised"}
  /\ FlusherSteps = {"loop", "flush", "ensure", "connect", "insert", "commit",
                     "rollback", "requeue", "done"}
  /\ InFlight = {"ensure", "connect", "insert", "commit", "rollback", "requeue"}
  BY DEF CallerSteps, FlusherSteps, FlushSteps, InFlight

LEMMA EmptyTyped == <<>> \in Seq(Ticks)
  BY EmptySeq

LEMMA ExceptTyped ==
  ASSUME NEW S, NEW T, NEW f \in [S -> T], NEW s \in S, NEW v \in T
  PROVE  [f EXCEPT ![s] = v] \in [S -> T]
  OBVIOUS

-----------------------------------------------------------------------------
(***************************************************************************)
(* Type correctness.                                                       *)
(***************************************************************************)
\* The part of TypeOK about where the threads are.
PcOK ==
  /\ pc \in [Threads -> CallerSteps \cup FlusherSteps]
  /\ pc["caller"] \in CallerSteps /\ pc["flusher"] \in FlusherSteps

LEMMA GotoTyped ==
  ASSUME PcOK, NEW t \in Threads, NEW label, Goto(t, label),
         t = "caller" => label \in CallerSteps,
         t = "flusher" => label \in FlusherSteps
  PROVE  PcOK'
  BY DEF PcOK, Goto, Threads

LEMMA FlushGotoTyped ==
  ASSUME PcOK, NEW t \in Threads, NEW label \in FlushSteps, Goto(t, label)
  PROVE  PcOK'
  BY GotoTyped DEF CallerSteps, FlusherSteps

LEMMA EndTyped ==
  ASSUME PcOK, NEW t \in Threads, Returned(t) \/ Raised(t)
  PROVE  PcOK' /\ pc'[t] \notin {"insert", "commit", "rollback"}
  BY GotoTyped, Steps DEF Returned, Raised, Threads, PcOK, Goto

\* The part about the bounds.
BoundsOK ==
  /\ faults \in 0 .. MaxFaults
  /\ ambiguous \in 0 .. MaxAmbiguous
  /\ timeouts \in 0 .. MaxTimeouts

LEMMA FaultTyped ==
  ASSUME BoundsOK, Fault \/ UNCHANGED bounds
  PROVE  BoundsOK'
  BY DbWriterAssumption DEF BoundsOK, Fault, bounds

\* The part about the connections.
UsingOK ==
  /\ using \in [Threads -> Conns \cup {NoConn}]
  /\ \A t \in Threads : pc[t] \in {"insert", "commit", "rollback"} => using[t] \in Conns

ConnOK ==
  /\ conn \in Conns \cup {NoConn}
  /\ status \in [Conns -> {"fresh", "open", "aborted", "closed"}]
  /\ txn \in [Conns -> Seq(Ticks)]

LEMMA CloseTyped == ConnOK /\ CloseConnection => ConnOK'
  BY DEF ConnOK, CloseConnection

\* The part about the rows.
RowsOK ==
  /\ accepted \in Seq(Ticks) /\ buffer \in Seq(Ticks) /\ db \in Seq(Ticks)
  /\ batch \in [Threads -> Seq(Ticks)]

LEMMA TypeParts == TypeOK <=> RowsOK /\ ConnOK /\ UsingOK /\ PcOK /\ BoundsOK
                                /\ stopping \in BOOLEAN
  BY DEF TypeOK, RowsOK, ConnOK, UsingOK, PcOK, BoundsOK

LEMMA InitTypeOK == Init => TypeOK
<1> SUFFICES ASSUME Init
             PROVE  TypeOK
  OBVIOUS
<1>1. RowsOK /\ ConnOK
  BY DbWriterAssumption DEF Init, RowsOK, ConnOK
<1>2. UsingOK /\ PcOK
  BY Steps DEF Init, UsingOK, PcOK, Threads
<1>3. BoundsOK
  BY DbWriterAssumption DEF Init, BoundsOK
<1>4. stopping \in BOOLEAN
  BY DEF Init
<1>5. QED
  BY <1>1, <1>2, <1>3, <1>4, TypeParts

LEMMA NextTypeOK == TypeOK /\ [Next]_vars => TypeOK'
<1> SUFFICES ASSUME RowsOK, ConnOK, UsingOK, PcOK, BoundsOK, stopping \in BOOLEAN,
                    [Next]_vars
             PROVE  /\ RowsOK' /\ ConnOK' /\ UsingOK' /\ PcOK' /\ BoundsOK'
                    /\ stopping' \in BOOLEAN
  BY DEF TypeOK, RowsOK, ConnOK, UsingOK, PcOK, BoundsOK
<1> USE DbWriterAssumption
<1>1. CASE WriteTick
  BY <1>1 DEF WriteTick, RowsOK, ConnOK, UsingOK, PcOK, BoundsOK, db_vars, bounds
<1>2. ASSUME NEW t \in Threads, Swap(t)
      PROVE  /\ RowsOK' /\ ConnOK' /\ UsingOK' /\ PcOK' /\ BoundsOK'
             /\ stopping' \in BOOLEAN
  <2>1. RowsOK'
    <3>1. CASE UNCHANGED <<buffer, batch>>
      BY <1>2, <3>1 DEF Swap, RowsOK, db_vars
    <3>2. CASE batch' = [batch EXCEPT ![t] = buffer] /\ buffer' = <<>>
      <4>1. batch' \in [Threads -> Seq(Ticks)] /\ buffer' \in Seq(Ticks)
        BY <3>2, EmptyTyped, ExceptTyped DEF RowsOK
      <4>2. QED
        BY <1>2, <4>1 DEF Swap, RowsOK, db_vars
    <3>3. QED
      BY <1>2, <3>1, <3>2 DEF Swap
  <2>2. PcOK' /\ pc'[t] \notin {"insert", "commit", "rollback"}
    BY <1>2, EndTyped, FlushGotoTyped DEF Swap, FlushSteps, PcOK, Goto
  <2>3. UsingOK'
    BY <1>2, <2>2 DEF Swap, UsingOK, db_vars, Returned, Goto, PcOK
  <2>4. QED
    BY <1>2, <2>1, <2>2, <2>3 DEF Swap, ConnOK, BoundsOK, db_vars, bounds
<1>3. ASSUME NEW t \in Threads, EnsureConnection(t)
      PROVE  /\ RowsOK' /\ ConnOK' /\ UsingOK' /\ PcOK' /\ BoundsOK'
             /\ stopping' \in BOOLEAN
  <2>1. PcOK'
    BY <1>3, FlushGotoTyped DEF EnsureConnection, FlushSteps
  <2>2. UsingOK'
    BY <1>3 DEF EnsureConnection, Usable, UsingOK, ConnOK, PcOK, Goto
  <2>3. QED
    BY <1>3, <2>1, <2>2 DEF EnsureConnection, RowsOK, ConnOK, BoundsOK, bounds
<1>4. ASSUME NEW t \in Threads, Connect(t)
      PROVE  /\ RowsOK' /\ ConnOK' /\ UsingOK' /\ PcOK' /\ BoundsOK'
             /\ stopping' \in BOOLEAN
  <2>1. PcOK'
    BY <1>4, FlushGotoTyped DEF Connect, FlushSteps
  <2>2. UsingOK' /\ ConnOK'
    <3>1. CASE Goto(t, "requeue") /\ UNCHANGED <<status, conn, using>>
      BY <1>4, <3>1 DEF Connect, UsingOK, ConnOK, PcOK, Goto
    <3>2. ASSUME NEW c \in Conns, status' = [status EXCEPT ![c] = "open"], conn' = c,
                 using' = [using EXCEPT ![t] = c], Goto(t, "insert")
          PROVE  UsingOK' /\ ConnOK'
      <4>1. UsingOK'
        BY <3>2 DEF UsingOK, PcOK, Goto
      <4>2. ConnOK'
        BY <1>4, <3>2 DEF Connect, ConnOK
      <4>3. QED
        BY <4>1, <4>2
    <3>3. QED
      BY <1>4, <3>1, <3>2 DEF Connect
  <2>3. BoundsOK'
    BY <1>4, FaultTyped DEF Connect
  <2>4. QED
    BY <1>4, <2>1, <2>2, <2>3 DEF Connect, RowsOK
<1>5. ASSUME NEW t \in Threads, Insert(t)
      PROVE  /\ RowsOK' /\ ConnOK' /\ UsingOK' /\ PcOK' /\ BoundsOK'
             /\ stopping' \in BOOLEAN
  <2>1. PcOK'
    BY <1>5, FlushGotoTyped DEF Insert, FlushSteps
  <2>2. using[t] \in Conns /\ batch[t] \in Seq(Ticks)
    BY <1>5 DEF Insert, UsingOK, RowsOK
  <2>3. ConnOK'
    <3>1. txn[using[t]] \o batch[t] \in Seq(Ticks)
      BY <2>2, ConcatProperties DEF ConnOK
    <3>2. txn' \in [Conns -> Seq(Ticks)]
      <4>1. \/ txn' = [txn EXCEPT ![using[t]] = txn[using[t]] \o batch[t]]
            \/ txn' = [txn EXCEPT ![using[t]] = <<>>]
            \/ txn' = txn
        BY <1>5 DEF Insert
      <4>2. txn \in [Conns -> Seq(Ticks)]
        BY DEF ConnOK
      <4>3. QED
        BY <2>2, <3>1, <4>1, <4>2, EmptyTyped, ExceptTyped
    <3>3. status' \in [Conns -> {"fresh", "open", "aborted", "closed"}]
      BY <1>5, <2>2 DEF Insert, ConnOK
    <3>4. QED
      BY <1>5, <3>2, <3>3 DEF Insert, ConnOK
  <2>4. UsingOK'
    BY <1>5, <2>2 DEF Insert, UsingOK, PcOK, Goto
  <2>5. BoundsOK'
    BY <1>5, FaultTyped DEF Insert
  <2>6. QED
    BY <1>5, <2>1, <2>3, <2>4, <2>5 DEF Insert, RowsOK
<1>6. ASSUME NEW t \in Threads, Commit(t)
      PROVE  /\ RowsOK' /\ ConnOK' /\ UsingOK' /\ PcOK' /\ BoundsOK'
             /\ stopping' \in BOOLEAN
  <2>1. using[t] \in Conns /\ db \o txn[using[t]] \in Seq(Ticks)
    BY <1>6, ConcatProperties DEF Commit, UsingOK, RowsOK, ConnOK
  <2>2. PcOK'
    BY <1>6, FlushGotoTyped, EndTyped DEF Commit, FlushSteps
  <2>3. RowsOK'
    <3>1. db' \in Seq(Ticks)
      BY <1>6, <2>1 DEF Commit, RowsOK
    <3>2. batch' \in [Threads -> Seq(Ticks)]
      BY <1>6, EmptyTyped, ExceptTyped DEF Commit, RowsOK
    <3>3. QED
      BY <1>6, <3>1, <3>2 DEF Commit, RowsOK
  <2>4. ConnOK'
    <3>1. txn' = [txn EXCEPT ![using[t]] = <<>>] \/ txn' = txn
      BY <1>6 DEF Commit
    <3>2. txn' \in [Conns -> Seq(Ticks)]
      BY <2>1, <3>1, EmptyTyped, ExceptTyped DEF ConnOK
    <3>3. status' \in [Conns -> {"fresh", "open", "aborted", "closed"}]
      BY <1>6, <2>1 DEF Commit, ConnOK
    <3>4. QED
      BY <1>6, <3>2, <3>3 DEF Commit, ConnOK
  <2>5. UsingOK'
    <3>1. CASE Returned(t) /\ using' = [using EXCEPT ![t] = NoConn]
      <4>1. pc'[t] \notin {"insert", "commit", "rollback"}
        BY <3>1, EndTyped
      <4>2. QED
        BY <3>1, <4>1 DEF UsingOK, Returned, Goto, PcOK
    <3>2. CASE Goto(t, "rollback") /\ UNCHANGED using
      BY <3>2, <2>1 DEF UsingOK, Goto, PcOK
    <3>3. QED
      BY <1>6, <3>1, <3>2 DEF Commit
  <2>6. BoundsOK'
    <3>1. CASE UNCHANGED bounds \/ Fault
      BY <3>1, FaultTyped
    <3>2. CASE ambiguous < MaxAmbiguous /\ ambiguous' = ambiguous + 1
                 /\ UNCHANGED <<faults, timeouts>>
      BY <3>2 DEF BoundsOK
    <3>3. QED
      BY <1>6, <3>1, <3>2 DEF Commit
  <2>7. QED
    BY <1>6, <2>2, <2>3, <2>4, <2>5, <2>6 DEF Commit
<1>7. ASSUME NEW t \in Threads, Rollback(t)
      PROVE  /\ RowsOK' /\ ConnOK' /\ UsingOK' /\ PcOK' /\ BoundsOK'
             /\ stopping' \in BOOLEAN
  <2>1. PcOK'
    BY <1>7, FlushGotoTyped DEF Rollback, FlushSteps
  <2>2. using[t] \in Conns
    BY <1>7 DEF Rollback, UsingOK
  <2>3. ConnOK'
    <3>1. CASE CloseConnection
      BY <3>1, CloseTyped
    <3>2. CASE /\ txn' = [txn EXCEPT ![using[t]] = <<>>]
               /\ status' = [status EXCEPT ![using[t]] = "open"]
               /\ UNCHANGED conn
      BY <2>2, <3>2, EmptyTyped, ExceptTyped DEF ConnOK
    <3>3. QED
      BY <1>7, <3>1, <3>2 DEF Rollback
  <2>4. UsingOK'
    BY <1>7 DEF Rollback, UsingOK, PcOK, Goto
  <2>5. QED
    BY <1>7, <2>1, <2>3, <2>4 DEF Rollback, RowsOK, BoundsOK, bounds
<1>8. ASSUME NEW t \in Threads, Requeue(t)
      PROVE  /\ RowsOK' /\ ConnOK' /\ UsingOK' /\ PcOK' /\ BoundsOK'
             /\ stopping' \in BOOLEAN
  <2>1. PcOK' /\ pc'[t] \notin {"insert", "commit", "rollback"}
    BY <1>8, EndTyped DEF Requeue
  <2>2. RowsOK'
    <3>1. batch[t] \o buffer \in Seq(Ticks)
      BY ConcatProperties DEF RowsOK
    <3>2. QED
      BY <1>8, <3>1 DEF Requeue, RowsOK, db_vars
  <2>3. UsingOK'
    BY <1>8, <2>1 DEF Requeue, Raised, Goto, UsingOK, PcOK, db_vars
  <2>4. QED
    BY <1>8, <2>1, <2>2, <2>3 DEF Requeue, ConnOK, BoundsOK, bounds, db_vars
<1>9. CASE Loop \/ Stop \/ Joined
  <2>1. PcOK'
    BY <1>9, GotoTyped, Steps DEF Loop, Stop, Joined, Threads
  <2>2. UsingOK'
    BY <1>9 DEF Loop, Stop, Joined, Goto, UsingOK, PcOK, Threads, db_vars
  <2>3. RowsOK' /\ ConnOK' /\ BoundsOK'
    BY <1>9 DEF Loop, Stop, Joined, RowsOK, ConnOK, BoundsOK, db_vars, bounds
  <2>4. stopping' \in BOOLEAN
    BY <1>9 DEF Loop, Stop, Joined
  <2>5. QED
    BY <2>1, <2>2, <2>3, <2>4
<1>10. CASE JoinTimesOut
  <2>1. PcOK'
    BY <1>10, GotoTyped, Steps DEF JoinTimesOut, Threads
  <2>2. UsingOK'
    BY <1>10 DEF JoinTimesOut, Goto, UsingOK, PcOK, Threads, db_vars
  <2>3. BoundsOK'
    BY <1>10 DEF JoinTimesOut, BoundsOK
  <2>4. QED
    BY <1>10, <2>1, <2>2, <2>3 DEF JoinTimesOut, RowsOK, ConnOK, db_vars
<1>11. CASE Close
  <2>1. PcOK'
    BY <1>11, GotoTyped, Steps DEF Close, Threads
  <2>2. UsingOK'
    BY <1>11 DEF Close, Goto, UsingOK, PcOK, Threads
  <2>3. QED
    BY <1>11, <2>1, <2>2, CloseTyped DEF Close, RowsOK, BoundsOK, bounds
<1>12. CASE UNCHANGED vars
  BY <1>12 DEF vars, db_vars, bounds, RowsOK, ConnOK, UsingOK, PcOK, BoundsOK
<1>13. QED
  BY <1>1, <1>2, <1>3, <1>4, <1>5, <1>6, <1>7, <1>8, <1>9, <1>10, <1>11, <1>12
  DEF Next, Flush

\* Every behaviour of the specification is well typed.
THEOREM TypeCorrect == Spec => []TypeOK
  BY InitTypeOK, NextTypeOK, PTL DEF Spec

-----------------------------------------------------------------------------
(***************************************************************************)
(* Who is flushing, and what is on the connections.                        *)
(***************************************************************************)
LEMMA TimeoutsGrow ==
  ASSUME TypeOK, [Next]_vars, timeouts' = 0
  PROVE  timeouts = 0 /\ ~JoinTimesOut
<1>1. timeouts \in Nat
  BY DbWriterAssumption DEF TypeOK
<1>2. timeouts' = timeouts \/ timeouts' = timeouts + 1
  BY DEF Next, WriteTick, Stop, Joined, JoinTimesOut, Close, Loop, Flush, Swap,
         EnsureConnection, Connect, Insert, Commit, Rollback, Requeue, Fault, vars,
         bounds
<1>3. ~JoinTimesOut
  BY <1>1 DEF JoinTimesOut
<1>4. QED
  BY <1>1, <1>2, <1>3

\* A flush step of thread t, seen from the other thread.
LEMMA OthersKept ==
  ASSUME TypeOK, NEW t \in Threads, Flush(t), NEW u \in Threads, u # t
  PROVE  pc[t] \in FlushSteps /\ pc'[u] = pc[u] /\ batch'[u] = batch[u]
           /\ using'[u] = using[u]
  BY DEF TypeOK, Flush, Swap, EnsureConnection, Connect, Insert, Commit, Rollback,
         Requeue, Returned, Raised, Goto, FlushSteps, db_vars

\* The caller's own steps and the loop test leave all rows alone.
LEMMA ControlSteps ==
  ASSUME Stop \/ Joined \/ Loop \/ Close
  PROVE  UNCHANGED <<accepted, buffer, batch, db, using>>
  BY DEF Stop, Joined, Loop, Close, db_vars

LEMMA NextBatchInv == TypeOK /\ BatchInv /\ [Next]_vars => BatchInv'
<1> SUFFICES ASSUME TypeOK, BatchInv, [Next]_vars
             PROVE  BatchInv'
  OBVIOUS
<1> USE Steps DEF Threads
<1>a. pc \in [Threads -> CallerSteps \cup FlusherSteps]
        /\ batch \in [Threads -> Seq(Ticks)]
  BY DEF TypeOK
<1>1. CASE WriteTick \/ UNCHANGED vars
  BY <1>1 DEF WriteTick, vars, BatchInv
<1>2. CASE Stop \/ Joined \/ Loop \/ Close \/ JoinTimesOut
  BY <1>2, <1>a DEF Stop, Joined, Loop, Close, JoinTimesOut, Goto, BatchInv
<1>3. ASSUME NEW t \in Threads, Flush(t)
      PROVE  BatchInv'
  <2>1. \A u \in Threads : u # t => pc'[u] = pc[u] /\ batch'[u] = batch[u]
    BY <1>3, OthersKept
  <2>2. pc'[t] \in InFlight \/ batch'[t] = <<>>
    <3>1. CASE Swap(t)
      BY <1>a, <3>1 DEF Swap, Goto, BatchInv
    <3>2. CASE EnsureConnection(t) \/ Connect(t) \/ Insert(t) \/ Rollback(t)
      BY <1>a, <3>2 DEF EnsureConnection, Connect, Insert, Rollback, Goto
    <3>3. CASE Commit(t)
      BY <1>a, <3>3 DEF Commit, Goto
    <3>4. CASE Requeue(t)
      BY <1>a, <3>4 DEF Requeue
    <3>5. QED
      BY <1>3, <3>1, <3>2, <3>3, <3>4 DEF Flush
  <2>3. QED
    BY <2>1, <2>2 DEF BatchInv
<1>4. QED
  BY <1>1, <1>2, <1>3 DEF Next

\* A thread that is in flush() is the only one.
LEMMA Sole ==
  ASSUME TypeOK, Alone, NEW t \in Threads, pc[t] \in FlushSteps,
         NEW u \in Threads, u # t
  PROVE  pc[u] \notin FlushSteps
  BY DEF Alone, FlushSteps, Threads

LEMMA NextAlone == TypeOK /\ Alone /\ [Next]_vars /\ ~JoinTimesOut => Alone'
<1> SUFFICES ASSUME TypeOK, Alone, [Next]_vars, ~JoinTimesOut
             PROVE  Alone'
  OBVIOUS
<1>a. pc \in [Threads -> CallerSteps \cup FlusherSteps]
  BY DEF TypeOK
<1>1. CASE WriteTick \/ UNCHANGED vars
  BY <1>1 DEF WriteTick, vars, Alone
<1>2. CASE Stop \/ Joined \/ Loop \/ Close
  BY <1>2, <1>a DEF Stop, Joined, Loop, Close, Goto, Alone, Threads
<1>3. ASSUME NEW t \in Threads, Flush(t)
      PROVE  Alone'
  <2>1. \A u \in Threads : u # t => pc'[u] = pc[u]
    BY <1>3, OthersKept
  <2>2. pc[t] \in FlushSteps
    BY <1>3 DEF Flush, Swap, EnsureConnection, Connect, Insert, Commit, Rollback,
                Requeue, FlushSteps
  <2>3. QED
    BY <2>1, <2>2 DEF Alone, Threads, FlushSteps
<1>4. QED
  BY <1>1, <1>2, <1>3 DEF Next

LEMMA NextTxnInv ==
  TypeOK /\ BatchInv /\ Alone /\ TxnInv /\ [Next]_vars /\ ~JoinTimesOut => TxnInv'
<1> SUFFICES ASSUME TypeOK, BatchInv, Alone, TxnInv, [Next]_vars, ~JoinTimesOut
             PROVE  TxnInv'
  OBVIOUS
<1>a. /\ pc \in [Threads -> CallerSteps \cup FlusherSteps]
      /\ batch \in [Threads -> Seq(Ticks)]
      /\ using \in [Threads -> Conns \cup {NoConn}]
      /\ status \in [Conns -> {"fresh", "open", "aborted", "closed"}]
      /\ txn \in [Conns -> Seq(Ticks)]
      /\ \A t \in Threads : pc[t] \in {"insert", "commit", "rollback"} => using[t] \in Conns
  BY DEF TypeOK
<1>1. CASE WriteTick \/ UNCHANGED vars
  BY <1>1 DEF WriteTick, vars, db_vars, TxnInv
<1>2. CASE Stop \/ Joined \/ Loop
  <2>1. UNCHANGED <<batch, using, status, txn>>
    BY <1>2 DEF Stop, Joined, Loop, db_vars
  <2>2. \A t \in Threads : pc'[t] = "commit" <=> pc[t] = "commit"
    BY <1>a, <1>2 DEF Stop, Joined, Loop, Goto, Threads
  <2>3. QED
    BY <2>1, <2>2 DEF TxnInv
<1>3. CASE Close
  <2>1. \A t \in Threads : pc[t] # "commit" /\ pc'[t] # "commit"
    BY <1>a, <1>3 DEF Close, Goto, Alone, Threads
  <2>2. \A c \in Conns : txn'[c] = <<>>
    BY <1>3, <2>1 DEF Close, CloseConnection, TxnInv
  <2>3. QED
    BY <2>1, <2>2 DEF TxnInv
<1>4. ASSUME NEW t \in Threads, Flush(t)
      PROVE  TxnInv'
  <2>1. pc[t] \in FlushSteps
    BY <1>4 DEF Flush, Swap, EnsureConnection, Connect, Insert, Commit, Rollback,
                Requeue, FlushSteps
  <2>2. \A u \in Threads : u # t => pc[u] # "commit" /\ pc'[u] # "commit"
    BY <1>4, <2>1, Sole, OthersKept DEF FlushSteps
  <2>3. ASSUME pc'[t] # "commit", \A c \in Conns : txn'[c] = <<>>
        PROVE  TxnInv'
    BY <2>2, <2>3 DEF TxnInv
  <2>4. ASSUME pc[t] # "commit"
        PROVE  \A c \in Conns : txn[c] = <<>>
    BY <2>2, <2>4 DEF TxnInv
  <2>5. CASE Swap(t) \/ EnsureConnection(t) \/ Connect(t) \/ Requeue(t)
    <3>1. pc[t] # "commit" /\ pc'[t] # "commit" /\ txn' = txn
      BY <1>a, <2>5 DEF Swap, EnsureConnection, Connect, Requeue, Returned, Raised,
                        Goto, db_vars
    <3>2. QED
      BY <2>3, <2>4, <3>1
  <2>6. CASE Insert(t)
    <3>1. using[t] \in Conns /\ \A c \in Conns : txn[c] = <<>>
      BY <1>a, <2>4, <2>6 DEF Insert
    <3>2. CASE /\ status[using[t]] = "open" /\ UNCHANGED status
               /\ txn' = [txn EXCEPT ![using[t]] = txn[using[t]] \o batch[t]]
               /\ Goto(t, "commit")
      <4>1. UNCHANGED <<using, batch>>
        BY <2>6 DEF Insert
      <4>2. txn'[using[t]] = batch[t]
        BY <1>a, <3>1, <3>2, ConcatEmptySeq
      <4>3. \A c \in Conns : c # using[t] => txn'[c] = <<>>
        BY <1>a, <3>1, <3>2
      <4>4. pc'[t] = "commit"
        BY <1>a, <3>2 DEF Goto
      <4>5. QED
        BY <2>2, <3>1, <3>2, <4>1, <4>2, <4>3, <4>4 DEF TxnInv
    <3>3. CASE /\ txn' = [txn EXCEPT ![using[t]] = <<>>] \/ txn' = txn
               /\ Goto(t, "rollback")
      <4>1. pc'[t] # "commit" /\ \A c \in Conns : txn'[c] = <<>>
        BY <1>a, <3>1, <3>3 DEF Goto
      <4>2. QED
        BY <2>3, <4>1
    <3>4. QED
      BY <2>6, <3>2, <3>3 DEF Insert
  <2>7. CASE Commit(t)
    <3>1. /\ using[t] \in Conns /\ status[using[t]] = "open"
          /\ \A c \in Conns : c # using[t] => txn[c] = <<>>
      BY <1>a, <2>2, <2>7 DEF Commit, TxnInv
    <3>2. txn' = [txn EXCEPT ![using[t]] = <<>>]
      BY <2>7, <3>1 DEF Commit
    <3>3. pc'[t] # "commit"
      BY <1>a, <2>7 DEF Commit, Returned, Goto
    <3>4. \A c \in Conns : txn'[c] = <<>>
      BY <1>a, <3>1, <3>2
    <3>5. QED
      BY <2>3, <3>3, <3>4
  <2>8. CASE Rollback(t)
    <3>1. pc[t] # "commit" /\ pc'[t] # "commit"
      BY <1>a, <2>8 DEF Rollback, Goto
    <3>2. \A c \in Conns : txn'[c] = <<>>
      BY <1>a, <2>4, <2>8, <3>1 DEF Rollback, CloseConnection
    <3>3. QED
      BY <2>3, <3>1, <3>2
  <2>9. QED
    BY <1>4, <2>5, <2>6, <2>7, <2>8 DEF Flush
<1>5. QED
  BY <1>1, <1>2, <1>3, <1>4 DEF Next

Struct == TypeOK /\ BatchInv /\ (timeouts = 0 => Alone /\ TxnInv)

LEMMA StructAlways == Spec => []Struct
<1>1. Init => Struct
  <2>1. Init => BatchInv /\ Alone /\ TxnInv
    BY DEF Init, BatchInv, Alone, TxnInv, Threads
  <2>2. QED
    BY <2>1, InitTypeOK DEF Struct
<1>2. Struct /\ [Next]_vars => Struct'
  BY NextTypeOK, NextBatchInv, NextAlone, NextTxnInv, TimeoutsGrow DEF Struct
<1>3. QED
  BY <1>1, <1>2, PTL DEF Spec

-----------------------------------------------------------------------------
(***************************************************************************)
(* What a step does to the rows, while the threads do not overlap.         *)
(***************************************************************************)
\* Thread t's batch becomes rows, the other thread having none.
Moves(t, rows) ==
  /\ \A u \in Threads : u # t => batch[u] = <<>>
  /\ batch' = [batch EXCEPT ![t] = rows]

RowsKept    == UNCHANGED <<accepted, buffer, batch, db>>
RowsWritten == \E tick \in Ticks : /\ accepted' = Append(accepted, tick)
                                   /\ buffer' = Append(buffer, tick)
                                   /\ UNCHANGED <<batch, db>>
RowsSwapped(t) == /\ batch[t] = <<>> /\ Moves(t, buffer)
                  /\ buffer' = <<>> /\ UNCHANGED <<accepted, db>>
RowsStored(t)  == /\ db' = db \o batch[t] /\ Moves(t, <<>>)
                  /\ UNCHANGED <<accepted, buffer>>
RowsInDoubt(t) == /\ db' = db \o batch[t] /\ ambiguous' = ambiguous + 1
                  /\ UNCHANGED <<accepted, buffer, batch>>
RowsReturned(t) == /\ buffer' = batch[t] \o buffer /\ Moves(t, <<>>)
                   /\ UNCHANGED <<accepted, db>>

LEMMA RowEffects ==
  ASSUME Struct, [Next]_vars, timeouts' = 0
  PROVE  \/ RowsKept \/ RowsWritten
         \/ \E t \in Threads : \/ RowsSwapped(t) \/ RowsStored(t)
                               \/ RowsInDoubt(t) \/ RowsReturned(t)
<1>a. TypeOK /\ BatchInv /\ Alone /\ TxnInv /\ ~JoinTimesOut
  BY TimeoutsGrow DEF Struct
<1>1. CASE WriteTick
  BY <1>1 DEF WriteTick, RowsWritten, db_vars
<1>2. CASE Stop \/ Joined \/ Loop \/ Close \/ UNCHANGED vars
  BY <1>2, ControlSteps DEF RowsKept, vars, db_vars
<1>3. ASSUME NEW t \in Threads, Flush(t)
      PROVE  RowsKept \/ RowsSwapped(t) \/ RowsStored(t) \/ RowsInDoubt(t)
               \/ RowsReturned(t)
  <2>1. \A u \in Threads : u # t => batch[u] = <<>>
    <3>1. pc[t] \in FlushSteps
      BY <1>3 DEF Flush, Swap, EnsureConnection, Connect, Insert, Commit, Rollback,
                  Requeue, FlushSteps
    <3>2. QED
      BY <1>a, <3>1, Sole DEF BatchInv, InFlight
  <2>2. CASE Swap(t)
    <3>1. batch[t] = <<>>
      BY <1>a, <2>2 DEF Swap, BatchInv, InFlight
    <3>2. QED
      BY <2>1, <2>2, <3>1 DEF Swap, RowsKept, RowsSwapped, Moves, db_vars
  <2>3. CASE EnsureConnection(t) \/ Connect(t) \/ Insert(t) \/ Rollback(t)
    BY <2>3 DEF EnsureConnection, Connect, Insert, Rollback, RowsKept
  <2>4. CASE Commit(t)
    <3>1. status[using[t]] = "open" /\ txn[using[t]] = batch[t]
      BY <1>a, <2>4 DEF Commit, TxnInv
    <3>2. QED
      BY <2>1, <2>4, <3>1 DEF Commit, RowsKept, RowsStored, RowsInDoubt, Moves
  <2>5. CASE Requeue(t)
    BY <2>1, <2>5 DEF Requeue, RowsReturned, Moves, db_vars
  <2>6. QED
    BY <1>3, <2>2, <2>3, <2>4, <2>5 DEF Flush
<1>4. QED
  BY <1>a, <1>1, <1>2, <1>3 DEF Next

\* Pending, when one of the two batches is empty.
LEMMA PendingOfOne ==
  ASSUME NEW f \in Seq(Ticks), NEW c \in Seq(Ticks), NEW b \in Seq(Ticks)
  PROVE  /\ c = <<>> => f \o c \o b = f \o b
         /\ f = <<>> => f \o c \o b = c \o b
  BY ConcatEmptySeq

\* Appending to the last of two sequences.
LEMMA ConcatAppend ==
  ASSUME NEW s \in Seq(Ticks), NEW b \in Seq(Ticks), NEW tick \in Ticks
  PROVE  s \o Append(b, tick) = Append(s \o b, tick)
<1>1. Append(b, tick) = b \o <<tick>> /\ <<tick>> \in Seq(Ticks) /\ s \o b \in Seq(Ticks)
  BY AppendIsConcat, ConcatProperties
<1>2. Append(s \o b, tick) = (s \o b) \o <<tick>>
  BY <1>1, AppendIsConcat
<1>3. QED
  BY <1>1, <1>2, ConcatAssociative

\* The library's facts for sequences of ticks.
LEMMA TicksAssociative ==
  \A a, b, c \in Seq(Ticks) : (a \o b) \o c = a \o (b \o c)
  BY ConcatAssociative

LEMMA TicksRange ==
  \A a, b \in Seq(Ticks) : Range(a \o b) = Range(a) \cup Range(b)
  BY RangeConcatenation

LEMMA TicksConcat ==
  \A a, b \in Seq(Ticks) : a \o b \in Seq(Ticks)
  BY ConcatProperties

\* Commits in doubt are only ever counted up.
LEMMA AmbiguousGrows ==
  ASSUME TypeOK, [Next]_vars, ambiguous' = 0
  PROVE  ambiguous = 0
<1>1. ambiguous \in Nat
  BY DbWriterAssumption DEF TypeOK
<1>2. ambiguous' = ambiguous \/ ambiguous' = ambiguous + 1
  BY DEF Next, WriteTick, Stop, Joined, JoinTimesOut, Close, Loop, Flush, Swap,
         EnsureConnection, Connect, Insert, Commit, Rollback, Requeue, Fault, vars,
         bounds
<1>3. QED
  BY <1>1, <1>2

\* A move of thread t's rows, with the other thread's batch empty.
LEMMA PendingMoved ==
  ASSUME RowsOK, NEW t \in Threads, NEW rows \in Seq(Ticks), Moves(t, rows),
         buffer' \in Seq(Ticks)
  PROVE  Pending = batch[t] \o buffer /\ Pending' = rows \o buffer'
<1>1. CASE t = "flusher"
  <2>1. batch["caller"] = <<>> /\ batch'["caller"] = <<>> /\ batch'["flusher"] = rows
    BY <1>1 DEF Moves, Threads, RowsOK
  <2>2. QED
    BY <1>1, <2>1, PendingOfOne, EmptyTyped DEF Pending, RowsOK, Threads
<1>2. CASE t = "caller"
  <2>1. batch["flusher"] = <<>> /\ batch'["flusher"] = <<>> /\ batch'["caller"] = rows
    BY <1>2 DEF Moves, Threads, RowsOK
  <2>2. QED
    BY <1>2, <2>1, PendingOfOne, EmptyTyped DEF Pending, RowsOK, Threads
<1>3. QED
  BY <1>1, <1>2 DEF Threads

LEMMA NextConserved == Struct /\ Conserved /\ [Next]_vars => Conserved'
<1> SUFFICES ASSUME Struct, Conserved, [Next]_vars, timeouts' = 0, ambiguous' = 0
             PROVE  db' \o Pending' = accepted'
  BY DEF Conserved
<1>a. RowsOK
  BY TypeParts DEF Struct
<1>b. ambiguous = 0 /\ db \o Pending = accepted
  BY AmbiguousGrows, TimeoutsGrow DEF Struct, Conserved
<1>1. CASE RowsKept
  BY <1>1, <1>b DEF RowsKept, Pending
<1>2. CASE RowsWritten
  <2>1. PICK tick \in Ticks : /\ accepted' = Append(accepted, tick)
                              /\ buffer' = Append(buffer, tick)
                              /\ UNCHANGED <<batch, db>>
    BY <1>2 DEF RowsWritten
  <2> DEFINE X == batch["flusher"] \o batch["caller"]
  <2>2. X \in Seq(Ticks) /\ X \o buffer \in Seq(Ticks)
    BY <1>a, ConcatProperties DEF RowsOK, Threads
  <2>3. Pending' = X \o Append(buffer, tick) /\ Pending = X \o buffer
    BY <2>1 DEF Pending
  <2> HIDE DEF X
  <2>4. Pending' = Append(Pending, tick)
    BY <1>a, <2>2, <2>3, ConcatAppend DEF RowsOK
  <2>5. db \o Append(Pending, tick) = Append(db \o Pending, tick)
    BY <1>a, <2>2, <2>3, ConcatAppend DEF RowsOK
  <2>6. QED
    BY <1>b, <2>1, <2>4, <2>5
<1>3. ASSUME NEW t \in Threads, RowsSwapped(t)
      PROVE  db' \o Pending' = accepted'
  <2>1. buffer \in Seq(Ticks) /\ buffer' \in Seq(Ticks)
    BY <1>a, <1>3, EmptyTyped DEF RowsSwapped, RowsOK
  <2>2. Pending = batch[t] \o buffer /\ Pending' = buffer \o buffer'
    BY <1>a, <1>3, <2>1, PendingMoved DEF RowsSwapped
  <2>3. Pending' = Pending
    BY <1>3, <2>1, <2>2, ConcatEmptySeq DEF RowsSwapped
  <2>4. QED
    BY <1>b, <1>3, <2>3 DEF RowsSwapped
<1>4. ASSUME NEW t \in Threads, RowsStored(t)
      PROVE  db' \o Pending' = accepted'
  <2>1. buffer \in Seq(Ticks) /\ buffer' = buffer /\ batch[t] \in Seq(Ticks)
          /\ db \in Seq(Ticks)
    BY <1>a, <1>4 DEF RowsStored, RowsOK
  <2>2. Pending = batch[t] \o buffer /\ Pending' = <<>> \o buffer'
    BY <1>a, <1>4, <2>1, PendingMoved, EmptyTyped DEF RowsStored
  <2>3. Pending' = buffer
    BY <2>1, <2>2, ConcatEmptySeq
  <2>4. (db \o batch[t]) \o buffer = db \o (batch[t] \o buffer)
    BY <2>1, TicksAssociative
  <2>5. QED
    BY <1>b, <1>4, <2>2, <2>3, <2>4 DEF RowsStored
<1>5. ASSUME NEW t \in Threads, RowsReturned(t)
      PROVE  db' \o Pending' = accepted'
  <2>1. buffer' \in Seq(Ticks) /\ buffer' = batch[t] \o buffer
    BY <1>a, <1>5, ConcatProperties DEF RowsReturned, RowsOK
  <2>2. Pending = batch[t] \o buffer /\ Pending' = <<>> \o buffer'
    BY <1>a, <1>5, <2>1, PendingMoved, EmptyTyped DEF RowsReturned
  <2>3. Pending' = Pending
    BY <2>1, <2>2, ConcatEmptySeq
  <2>4. QED
    BY <1>b, <1>5, <2>3 DEF RowsReturned
<1>6. ASSUME NEW t \in Threads
      PROVE  ~RowsInDoubt(t)
  BY <1>b DEF RowsInDoubt
<1>7. QED
  BY <1>1, <1>2, <1>3, <1>4, <1>5, <1>6, RowEffects

\* No failure drops, repeats or reorders a tick, with any number of ticks,
\* failed statements, lost connections and reconnections.
THEOREM ConservedAlways == Spec => []Conserved
<1>1. Init => Conserved
  BY EmptyTyped, ConcatEmptySeq DEF Init, Conserved, Pending, Threads
<1>2. QED
  BY <1>1, NextConserved, StructAlways, PTL DEF Spec

-----------------------------------------------------------------------------
(***************************************************************************)
(* Commits in doubt repeat rows and drop none.                             *)
(***************************************************************************)
\* The rows of Pending are those of its three parts.
LEMMA RangeOfPending ==
  ASSUME NEW f \in Seq(Ticks), NEW c \in Seq(Ticks), NEW b \in Seq(Ticks)
  PROVE  Range(f \o c \o b) = Range(f) \cup Range(c) \cup Range(b)
<1>1. f \o c \in Seq(Ticks)
  BY TicksConcat
<1>2. Range((f \o c) \o b) = Range(f \o c) \cup Range(b)
  BY <1>1, TicksRange
<1>3. QED
  BY <1>2, TicksRange

LEMMA RangeOfAppend ==
  ASSUME NEW s \in Seq(Ticks), NEW tick \in Ticks
  PROVE  Range(Append(s, tick)) = Range(s) \cup {tick}
<1>1. Append(s, tick) = s \o <<tick>> /\ <<tick>> \in Seq(Ticks)
  BY AppendIsConcat
<1>2. Range(<<tick>>) = {tick}
  BY DEF Range
<1>3. QED
  BY <1>1, <1>2, TicksRange

LEMMA NextNothingDropped == Struct /\ NothingDropped /\ [Next]_vars => NothingDropped'
<1> SUFFICES ASSUME Struct, NothingDropped, [Next]_vars, timeouts' = 0
             PROVE  Range(accepted') \subseteq Range(db') \cup Range(Pending')
  BY DEF NothingDropped
<1>a. RowsOK
  BY TypeParts DEF Struct
<1>b. Range(accepted) \subseteq Range(db) \cup Range(Pending)
  BY TimeoutsGrow DEF Struct, NothingDropped
<1>c. Range(<<>>) = {}
  BY DEF Range
<1>1. CASE RowsKept
  BY <1>1, <1>b DEF RowsKept, Pending
<1>2. CASE RowsWritten
  <2>1. PICK tick \in Ticks : /\ accepted' = Append(accepted, tick)
                              /\ buffer' = Append(buffer, tick)
                              /\ UNCHANGED <<batch, db>>
    BY <1>2 DEF RowsWritten
  <2>2. buffer' \in Seq(Ticks)
    BY <1>a, <2>1, AppendProperties DEF RowsOK
  <2>3. Range(Pending') = Range(Pending) \cup {tick}
    <3>1. /\ batch["flusher"] \in Seq(Ticks) /\ batch["caller"] \in Seq(Ticks)
          /\ buffer \in Seq(Ticks) /\ batch' = batch
      BY <1>a, <2>1 DEF RowsOK, Threads
    <3>2. Range(Pending) = Range(batch["flusher"]) \cup Range(batch["caller"])
                             \cup Range(buffer)
      BY <3>1, RangeOfPending DEF Pending
    <3>3. Range(Pending') = Range(batch["flusher"]) \cup Range(batch["caller"])
                              \cup Range(buffer')
      BY <2>2, <3>1, RangeOfPending DEF Pending
    <3>4. Range(buffer') = Range(buffer) \cup {tick}
      BY <2>1, <3>1, RangeOfAppend
    <3>5. QED
      BY <3>2, <3>3, <3>4
  <2>4. Range(accepted') = Range(accepted) \cup {tick}
    BY <1>a, <2>1, RangeOfAppend DEF RowsOK
  <2>5. QED
    BY <1>b, <2>1, <2>3, <2>4
<1>3. ASSUME NEW t \in Threads, RowsSwapped(t)
      PROVE  Range(accepted') \subseteq Range(db') \cup Range(Pending')
  <2>1. buffer \in Seq(Ticks) /\ buffer' \in Seq(Ticks)
    BY <1>a, <1>3, EmptyTyped DEF RowsSwapped, RowsOK
  <2>2. Pending = batch[t] \o buffer /\ Pending' = buffer \o buffer'
    BY <1>a, <1>3, <2>1, PendingMoved DEF RowsSwapped
  <2>3. Pending' = Pending
    BY <1>3, <2>1, <2>2, ConcatEmptySeq DEF RowsSwapped
  <2>4. QED
    BY <1>b, <1>3, <2>3 DEF RowsSwapped
<1>4. ASSUME NEW t \in Threads, RowsStored(t)
      PROVE  Range(accepted') \subseteq Range(db') \cup Range(Pending')
  <2>1. buffer \in Seq(Ticks) /\ buffer' = buffer /\ batch[t] \in Seq(Ticks)
          /\ db \in Seq(Ticks)
    BY <1>a, <1>4 DEF RowsStored, RowsOK
  <2>2. Pending = batch[t] \o buffer /\ Pending' = <<>> \o buffer'
    BY <1>a, <1>4, <2>1, PendingMoved, EmptyTyped DEF RowsStored
  <2>3. Pending' = buffer
    BY <2>1, <2>2, ConcatEmptySeq
  <2>4. Range(Pending) = Range(batch[t]) \cup Range(buffer)
          /\ Range(db') = Range(db) \cup Range(batch[t])
    BY <1>4, <2>1, <2>2, RangeConcatenation DEF RowsStored
  <2>5. QED
    BY <1>b, <1>4, <2>3, <2>4 DEF RowsStored
<1>5. ASSUME NEW t \in Threads, RowsInDoubt(t)
      PROVE  Range(accepted') \subseteq Range(db') \cup Range(Pending')
  <2>1. Range(db') = Range(db) \cup Range(batch[t])
    BY <1>a, <1>5, RangeConcatenation DEF RowsInDoubt, RowsOK
  <2>2. QED
    BY <1>b, <1>5, <2>1 DEF RowsInDoubt, Pending
<1>6. ASSUME NEW t \in Threads, RowsReturned(t)
      PROVE  Range(accepted') \subseteq Range(db') \cup Range(Pending')
  <2>1. buffer' \in Seq(Ticks) /\ buffer' = batch[t] \o buffer
    BY <1>a, <1>6, ConcatProperties DEF RowsReturned, RowsOK
  <2>2. Pending = batch[t] \o buffer /\ Pending' = <<>> \o buffer'
    BY <1>a, <1>6, <2>1, PendingMoved, EmptyTyped DEF RowsReturned
  <2>3. Pending' = Pending
    BY <2>1, <2>2, ConcatEmptySeq
  <2>4. QED
    BY <1>b, <1>6, <2>3 DEF RowsReturned
<1>7. QED
  BY <1>1, <1>2, <1>3, <1>4, <1>5, <1>6, RowEffects

\* As long as the two threads do not overlap, every accepted tick is in the
\* table or still held by the writer, even when commits were in doubt.
THEOREM NothingDroppedAlways == Spec => []NothingDropped
<1>1. Init => NothingDropped
  BY DEF Init, NothingDropped, Range
<1>2. QED
  BY <1>1, NextNothingDropped, StructAlways, PTL DEF Spec

-----------------------------------------------------------------------------
(***************************************************************************)
(* A stop() that returns has drained the buffer.                           *)
(***************************************************************************)
\* From its swap on, the caller finds the buffer empty: nobody enqueues.
Drained == pc["caller"] \in {"ensure", "connect", "insert", "commit", "rollback",
                             "close", "stopped"}
             => buffer = <<>>

LEMMA NextDrained == Struct /\ Drained /\ [Next]_vars /\ timeouts' = 0 => Drained'
<1> SUFFICES ASSUME Struct, Drained, [Next]_vars, timeouts' = 0
             PROVE  Drained'
  OBVIOUS
<1>a. /\ Alone /\ ~JoinTimesOut
      /\ pc \in [Threads -> CallerSteps \cup FlusherSteps]
  BY TimeoutsGrow DEF Struct, TypeOK
<1>1. CASE WriteTick
  BY <1>1 DEF WriteTick, Drained
<1>2. CASE Stop \/ Joined \/ Loop \/ UNCHANGED vars
  BY <1>a, <1>2 DEF Stop, Joined, Loop, vars, Goto, Drained, Threads
<1>3. CASE Close
  BY <1>3 DEF Close, Drained
<1>4. CASE Flush("flusher")
  <2>1. pc["flusher"] # "done"
    BY <1>4 DEF Flush, Swap, EnsureConnection, Connect, Insert, Commit, Rollback,
                Requeue
  <2>2. pc'["caller"] = pc["caller"]
    BY <1>4, OthersKept DEF Struct, Threads
  <2>3. QED
    BY <1>a, <2>1, <2>2 DEF Alone, Drained
<1>5. CASE Flush("caller")
  <2>1. CASE Swap("caller")
    BY <2>1 DEF Swap, Drained
  <2>2. CASE EnsureConnection("caller") \/ Connect("caller") \/ Insert("caller")
               \/ Commit("caller") \/ Rollback("caller")
    BY <2>2 DEF EnsureConnection, Connect, Insert, Commit, Rollback, Drained
  <2>3. CASE Requeue("caller")
    BY <1>a, <2>3 DEF Requeue, Raised, Goto, Drained, Threads
  <2>4. QED
    BY <1>5, <2>1, <2>2, <2>3 DEF Flush
<1>6. QED
  BY <1>a, <1>1, <1>2, <1>3, <1>4, <1>5 DEF Next, Threads

\* Without an overlap, stop() returns only when every tick is in the table.
THEOREM StopDrainsAlways == Spec => []StopDrains
<1> DEFINE D == timeouts = 0 => Drained
<1>1. Init => D
  BY DEF Init, Drained, Threads
<1>2. Struct /\ D /\ [Next]_vars => D'
  BY NextDrained, TimeoutsGrow DEF Struct
<1>3. Struct /\ NothingDropped /\ D => StopDrains
  <2> SUFFICES ASSUME Struct, NothingDropped, D, timeouts = 0, pc["caller"] = "stopped"
               PROVE  Range(accepted) \subseteq Range(db)
    BY DEF StopDrains
  <2>1. buffer = <<>> /\ pc["flusher"] = "done"
    BY DEF Drained, Struct, Alone
  <2>2. batch["flusher"] = <<>> /\ batch["caller"] = <<>>
    BY <2>1, Steps DEF Struct, BatchInv, Threads
  <2>3. Pending = <<>>
    BY <2>1, <2>2, EmptyTyped, ConcatEmptySeq DEF Pending
  <2>4. Range(Pending) = {}
    BY <2>3 DEF Range
  <2>5. QED
    BY <2>4 DEF NothingDropped
<1> HIDE DEF D
<1>4. QED
  BY <1>1, <1>2, <1>3, NothingDroppedAlways, StructAlways, PTL DEF Spec

-----------------------------------------------------------------------------
(***************************************************************************)
(* The writer implements the abstract log.                                 *)
(***************************************************************************)
LEMMA PrefixOfConcat ==
  ASSUME NEW a \in Seq(Ticks), NEW b \in Seq(Ticks), a # <<>>
  PROVE  SubSeq(a \o b, 1, Len(a)) = a /\ Len(a) \in 1 .. Len(a \o b)
<1>1. Len(a) \in Nat \ {0} /\ Len(b) \in Nat
  BY EmptySeq, LenProperties
<1>2. SubSeq(a \o b, 1, Len(a)) = SubSeq(a, 1, Len(a))
  BY <1>1, SubSeqOfConcat1
<1>3. SubSeq(a, 1, Len(a)) = a
  BY SubSeqFull
<1>4. Len(a \o b) = Len(a) + Len(b)
  BY ConcatProperties
<1>5. QED
  BY <1>1, <1>2, <1>3, <1>4

\* One step of the writer is a step of the log or leaves it as it is.
LEMMA StepIsLogStep ==
  ASSUME Struct, Conserved, Conserved', Struct', [Next]_vars,
         timeouts = 0, timeouts' = 0, ambiguous = 0, ambiguous' = 0
  PROVE  [Log!Next]_<<accepted, db>>
<1>a. RowsOK /\ RowsOK' /\ db \o Pending = accepted /\ db' \o Pending' = accepted'
  BY TypeParts DEF Struct, Conserved, TypeOK, RowsOK
<1>1. CASE RowsKept
  BY <1>1 DEF RowsKept
<1>2. CASE RowsWritten
  BY <1>2 DEF RowsWritten, Log!Next, Log!Accept
<1>3. ASSUME NEW t \in Threads, RowsSwapped(t) \/ RowsReturned(t)
      PROVE  UNCHANGED <<accepted, db>>
  BY <1>3 DEF RowsSwapped, RowsReturned
<1>4. ASSUME NEW t \in Threads, RowsStored(t)
      PROVE  [Log!Next]_<<accepted, db>>
  <2>1. db' = db \o batch[t] /\ accepted' = accepted
    BY <1>4 DEF RowsStored
  <2>2. db \in Seq(Ticks) /\ batch[t] \in Seq(Ticks) /\ db' \in Seq(Ticks)
          /\ Pending' \in Seq(Ticks)
    BY <1>a, TicksConcat DEF RowsOK, Pending, Threads
  <2>3. CASE batch[t] = <<>>
    BY <2>1, <2>2, <2>3, ConcatEmptySeq
  <2>4. CASE batch[t] # <<>>
    <3>1. Len(batch[t]) \in Nat \ {0} /\ Len(db) \in Nat
      BY <2>2, <2>4, EmptySeq, LenProperties
    <3>2. Len(db') = Len(db) + Len(batch[t])
      BY <2>1, <2>2, ConcatProperties
    <3>3. db' # <<>>
      BY <2>2, <3>1, <3>2, EmptySeq
    <3>4. SubSeq(accepted, 1, Len(db')) = db' /\ Len(db') \in 1 .. Len(accepted)
      <4>1. accepted = db' \o Pending'
        BY <1>a, <2>1
      <4>2. /\ SubSeq(db' \o Pending', 1, Len(db')) = db'
            /\ Len(db') \in 1 .. Len(db' \o Pending')
        BY <2>2, <3>3, PrefixOfConcat
      <4>3. QED
        BY <4>1, <4>2
    <3>5. Len(db') \in Len(db) + 1 .. Len(accepted)
      BY <3>1, <3>2, <3>4
    <3>6. Log!Store
      BY <2>1, <3>4, <3>5 DEF Log!Store
    <3>7. QED
      BY <3>6 DEF Log!Next
  <2>5. QED
    BY <2>3, <2>4
<1>5. ASSUME NEW t \in Threads
      PROVE  ~RowsInDoubt(t)
  BY DEF RowsInDoubt
<1>6. QED
  BY <1>1, <1>2, <1>3, <1>4, <1>5, RowEffects

\* Until a commit is in doubt or the join times out, every behaviour of the
\* writer is one of the log: StoresInOrder of DbWriter.
THEOREM WriterImplementsLog == Spec => StoresInOrder
<1>1. Init => Log!Init
  BY DEF Init, Log!Init
<1>2. Struct /\ Struct' /\ Conserved /\ Conserved' /\ [Next]_vars
        => [Log!Next \/ timeouts' > 0 \/ ambiguous' > 0]_<<accepted, db>>
  <2> SUFFICES ASSUME Struct, Struct', Conserved, Conserved', [Next]_vars,
                      ~(timeouts' > 0), ~(ambiguous' > 0)
               PROVE  [Log!Next]_<<accepted, db>>
    OBVIOUS
  <2>1. timeouts' = 0 /\ ambiguous' = 0
    BY DbWriterAssumption DEF Struct, TypeOK
  <2>2. timeouts = 0 /\ ambiguous = 0
    BY <2>1, TimeoutsGrow, AmbiguousGrows DEF Struct
  <2>3. QED
    BY <2>1, <2>2, StepIsLogStep
<1>3. QED
  BY <1>1, <1>2, StructAlways, ConservedAlways, PTL DEF Spec, StoresInOrder
=============================================================================
