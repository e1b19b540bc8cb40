------------------------------ MODULE DbWriter ------------------------------
(***************************************************************************)
(* The batched tick writer (database/db_writer.py) and the process around  *)
(* it (main.py, run_db_writer).  Two threads: the caller's, which enqueues *)
(* ticks and at shutdown joins the other and drains the buffer itself, and *)
(* the flush thread.  They share a buffer, under a lock, and one psycopg2  *)
(* connection, under none: what either executes on it belongs to the same  *)
(* transaction.  The flush thread may begin a flush at any time, so batch  *)
(* size and interval, which only decide when, are left out.                *)
(***************************************************************************)
EXTENDS Sequences, Naturals, Functions

CONSTANTS
  Ticks,         \* tick rows
  Conns,         \* connections that may ever be made
  FirstConn,     \* the one start() makes
  NoConn,
  MaxTicks,      \* bound: ticks accepted
  MaxFaults,     \* bound: failed statements, connects, and lost connections
  MaxAmbiguous,  \* bound: connections lost after the server committed
  MaxTimeouts    \* bound: 0 if the flush thread is always joined in time

ASSUME DbWriterAssumption ==
  /\ FirstConn \in Conns /\ NoConn \notin Conns
  /\ MaxTicks \in Nat /\ MaxFaults \in Nat
  /\ MaxAmbiguous \in Nat /\ MaxTimeouts \in Nat

VARIABLES
  accepted,   \* history: every tick write_tick took, in order
  buffer,     \* DbWriter._buffer
  batch,      \* batch[t]: the rows thread t swapped out and is flushing
  db,         \* rows committed to fno_ticks, in order
  conn,       \* DbWriter._conn
  using,      \* using[t]: the connection t's _insert_batch works on
  status,     \* status[c]: "fresh" (not made yet), "open", "aborted", "closed"
  txn,        \* txn[c]: rows executed on c and not committed
  pc,
  stopping,   \* DbWriter._stop
  faults, ambiguous, timeouts

db_vars == <<db, conn, using, status, txn>>
bounds  == <<faults, ambiguous, timeouts>>
vars    == <<accepted, buffer, batch, db_vars, pc, stopping, bounds>>

Threads == {"caller", "flusher"}
FlushSteps  == {"flush", "ensure", "connect", "insert", "commit", "rollback", "requeue"}
CallerSteps  == FlushSteps \cup {"run", "join", "close", "stopped", "raised"}
FlusherSteps == FlushSteps \cup {"loop", "done"}

Init ==
  /\ accepted = <<>> /\ buffer = <<>>
  /\ batch = [t \in Threads |-> <<>>]
  /\ db = <<>>
  /\ conn = FirstConn
  /\ using = [t \in Threads |-> NoConn]
  /\ status = [c \in Conns |-> IF c = FirstConn THEN "open" ELSE "fresh"]
  /\ txn = [c \in Conns |-> <<>>]
  /\ pc = [t \in Threads |-> IF t = "caller" THEN "run" ELSE "loop"]
  /\ stopping = FALSE
  /\ faults = 0 /\ ambiguous = 0 /\ timeouts = 0

Goto(t, label) == pc' = [pc EXCEPT ![t] = label]

\* Mutant: an exception of flush() ends either thread.
RaisedThrough(t) == Goto(t, IF t = "caller" THEN "raised" ELSE "done")

\* Where thread t goes on when flush() returns, and when it raises: the flush
\* thread's loop logs it, the caller's stop() lets it through.
Returned(t) == Goto(t, IF t = "caller" THEN "close" ELSE "loop")
Raised(t)   == Goto(t, IF t = "caller" THEN "raised" ELSE "loop")

Fault == faults < MaxFaults /\ faults' = faults + 1 /\ UNCHANGED <<ambiguous, timeouts>>

-----------------------------------------------------------------------------
\* write_tick, on the caller's thread.
WriteTick ==
  /\ pc["caller"] = "run"
  /\ Len(accepted) < MaxTicks
  /\ \E tick \in Ticks : /\ accepted' = Append(accepted, tick)
                         /\ buffer' = Append(buffer, tick)
  /\ UNCHANGED <<batch, db_vars, pc, stopping, bounds>>

\* flush: under the lock, swap the buffer out.
Swap(t) ==
  /\ pc[t] = "flush"
  /\ \/ buffer = <<>> /\ Returned(t) /\ UNCHANGED <<buffer, batch>>
     \/ /\ buffer # <<>>
        /\ batch' = [batch EXCEPT ![t] = buffer]
        /\ buffer' = <<>>
        /\ Goto(t, "ensure")
  /\ UNCHANGED <<accepted, db_vars, stopping, bounds>>

Usable == conn # NoConn /\ status[conn] # "closed"

\* _ensure_connection finds the shared connection open, or
EnsureConnection(t) ==
  /\ pc[t] = "ensure"
  /\ \/ /\ Usable
        /\ using' = [using EXCEPT ![t] = conn]
        /\ Goto(t, "insert")
     \/ /\ ~Usable
        /\ Goto(t, "connect")
        /\ UNCHANGED using
  /\ UNCHANGED <<accepted, buffer, batch, db, conn, status, txn, stopping, bounds>>

\* makes a new one, which takes a while and may fail.
Connect(t) ==
  /\ pc[t] = "connect"
  /\ \/ /\ \E c \in Conns : /\ status[c] = "fresh"
                            /\ status' = [status EXCEPT ![c] = "open"]
                            /\ conn' = c
                            /\ using' = [using EXCEPT ![t] = c]
        /\ Goto(t, "insert")
        /\ UNCHANGED bounds
     \/ Fault /\ Goto(t, "requeue") /\ UNCHANGED <<status, conn, using>>
  /\ UNCHANGED <<accepted, buffer, batch, db, txn, stopping>>

\* execute_values.  A failed statement aborts the transaction on the server;
\* until somebody rolls it back, further statements on it fail.
Insert(t) ==
  /\ pc[t] = "insert"
  /\ LET c == using[t] IN
     \/ /\ status[c] = "open"
        /\ txn' = [txn EXCEPT ![c] = @ \o batch[t]]
        /\ Goto(t, "commit")
        /\ UNCHANGED <<status, bounds>>
     \/ /\ status[c] = "open" /\ Fault
        /\ \E s \in {"aborted", "closed"} : status' = [status EXCEPT ![c] = s]
        /\ txn' = [txn EXCEPT ![c] = <<>>]
        /\ Goto(t, "rollback")
     \/ /\ status[c] # "open"
        /\ Goto(t, "rollback")
        /\ UNCHANGED <<status, txn, bounds>>
  /\ UNCHANGED <<accepted, buffer, batch, db, conn, using, stopping>>

\* conn.commit().  COMMIT of an aborted transaction rolls back and does not
\* raise.  A connection lost here leaves open whether the server committed.
Commit(t) ==
  /\ pc[t] = "commit"
  /\ LET c == using[t] IN
     \/ /\ status[c] \in {"open", "aborted"}
        /\ db' = db \o txn[c]
        /\ txn' = [txn EXCEPT ![c] = <<>>]
        /\ status' = [status EXCEPT ![c] = "open"]
        /\ batch' = [batch EXCEPT ![t] = <<>>]
        /\ using' = [using EXCEPT ![t] = NoConn]
        /\ Returned(t)
        /\ UNCHANGED bounds
     \/ /\ status[c] = "open"
        /\ \/ Fault /\ UNCHANGED db
           \/ /\ ambiguous < MaxAmbiguous /\ ambiguous' = ambiguous + 1
              /\ db' = db \o txn[c]
              /\ UNCHANGED <<faults, timeouts>>
        /\ txn' = [txn EXCEPT ![c] = <<>>]
        /\ status' = [status EXCEPT ![c] = "closed"]
        /\ Goto(t, "rollback")
        /\ UNCHANGED <<batch, using>>
     \/ /\ status[c] = "closed"
        /\ Goto(t, "rollback")
        /\ UNCHANGED <<db, txn, status, batch, using, bounds>>
  /\ UNCHANGED <<accepted, buffer, conn, stopping>>

\* Closing the shared connection discards what is not committed on it.
CloseConnection ==
  /\ conn' = NoConn
  /\ status' = [c \in Conns |-> IF c = conn THEN "closed" ELSE status[c]]
  /\ txn' = [c \in Conns |-> IF c = conn THEN <<>> ELSE txn[c]]

\* conn.rollback(); when that raises, whatever connection is shared by now
\* is closed.
Rollback(t) ==
  /\ pc[t] = "rollback"
  /\ LET c == using[t] IN
     \/ /\ status[c] # "closed"
        /\ txn' = [txn EXCEPT ![c] = <<>>]
        /\ status' = [status EXCEPT ![c] = "open"]
        /\ UNCHANGED conn
     \/ status[c] = "closed" /\ CloseConnection
  /\ using' = [using EXCEPT ![t] = NoConn]
  /\ Goto(t, "requeue")
  /\ UNCHANGED <<accepted, buffer, batch, db, stopping, bounds>>

\* Mutants: the rows go behind what was enqueued meanwhile; they go back as
\* one element.
RequeueBehind(t) ==
  /\ pc[t] = "requeue"
  /\ buffer' = buffer \o batch[t]
  /\ batch' = [batch EXCEPT ![t] = <<>>]
  /\ Raised(t)
  /\ UNCHANGED <<accepted, db_vars, stopping, bounds>>

RequeueNested(t) ==
  /\ pc[t] = "requeue"
  /\ buffer' = <<batch[t]>> \o buffer
  /\ batch' = [batch EXCEPT ![t] = <<>>]
  /\ Raised(t)
  /\ UNCHANGED <<accepted, db_vars, stopping, bounds>>

\* The failed flush puts its rows back in front and re-raises.
Requeue(t) ==
  /\ pc[t] = "requeue"
  /\ buffer' = batch[t] \o buffer
  /\ batch' = [batch EXCEPT ![t] = <<>>]
  /\ Raised(t)
  /\ UNCHANGED <<accepted, db_vars, stopping, bounds>>

\* _run: leave when _stop is set, else wait (for the event or the interval)
\* and flush.
Loop ==
  /\ pc["flusher"] = "loop"
  /\ Goto("flusher", IF stopping THEN "done" ELSE "flush")
  /\ UNCHANGED <<accepted, buffer, batch, db_vars, stopping, bounds>>

-----------------------------------------------------------------------------
\* stop(): set the flag, join for five seconds, drain, close.
Stop ==
  /\ pc["caller"] = "run"
  /\ stopping' = TRUE
  /\ Goto("caller", "join")
  /\ UNCHANGED <<accepted, buffer, batch, db_vars, bounds>>

\* Mutant: no drain after the join.
JoinedUndrained ==
  /\ pc["caller"] = "join"
  /\ pc["flusher"] = "done"
  /\ Goto("caller", "close")
  /\ UNCHANGED <<accepted, buffer, batch, db_vars, stopping, bounds>>

Joined ==
  /\ pc["caller"] = "join"
  /\ pc["flusher"] = "done"
  /\ Goto("caller", "flush")
  /\ UNCHANGED <<accepted, buffer, batch, db_vars, stopping, bounds>>

\* The flush thread hangs in the database for longer than the join waits.
JoinTimesOut ==
  /\ pc["caller"] = "join"
  /\ pc["flusher"] \in {"connect", "insert", "commit", "rollback"}
  /\ timeouts < MaxTimeouts
  /\ timeouts' = timeouts + 1
  /\ Goto("caller", "flush")
  /\ UNCHANGED <<accepted, buffer, batch, db_vars, stopping, faults, ambiguous>>

Close ==
  /\ pc["caller"] = "close"
  /\ CloseConnection
  /\ Goto("caller", "stopped")
  /\ UNCHANGED <<accepted, buffer, batch, db, using, stopping, bounds>>

-----------------------------------------------------------------------------
Flush(t) == \/ Swap(t) \/ EnsureConnection(t) \/ Connect(t) \/ Insert(t)
            \/ Commit(t) \/ Rollback(t) \/ Requeue(t)

Next ==
  \/ WriteTick \/ Stop \/ Joined \/ JoinTimesOut \/ Close \/ Loop
  \/ \E t \in Threads : Flush(t)

Spec == Init /\ [][Next]_vars

\* The flush thread is scheduled, and so is the caller once stop() has begun.
FairSpec ==
  /\ Spec
  /\ WF_vars(Loop \/ Flush("flusher"))
  /\ WF_vars(Joined \/ Flush("caller") \/ Close)

-----------------------------------------------------------------------------
Pending == batch["flusher"] \o batch["caller"] \o buffer

\* Every variable stays in its type.
TypeOK ==
  /\ accepted \in Seq(Ticks) /\ buffer \in Seq(Ticks) /\ db \in Seq(Ticks)
  /\ batch \in [Threads -> Seq(Ticks)]
  /\ conn \in Conns \cup {NoConn}
  /\ using \in [Threads -> Conns \cup {NoConn}]
  /\ \A t \in Threads : pc[t] \in {"insert", "commit", "rollback"} => using[t] \in Conns
  /\ status \in [Conns -> {"fresh", "open", "aborted", "closed"}]
  /\ txn \in [Conns -> Seq(Ticks)]
  /\ pc \in [Threads -> CallerSteps \cup FlusherSteps]
  /\ pc["caller"] \in CallerSteps /\ pc["flusher"] \in FlusherSteps
  /\ stopping \in BOOLEAN
  /\ faults \in 0 .. MaxFaults
  /\ ambiguous \in 0 .. MaxAmbiguous
  /\ timeouts \in 0 .. MaxTimeouts

\* As long as the flush thread is joined in time and no commit was in doubt,
\* the table followed by what is pending is exactly what was accepted: no
\* failure drops, repeats or reorders a tick (database/db_writer.py:185).
Conserved == timeouts = 0 /\ ambiguous = 0 => db \o Pending = accepted

\* A commit in doubt repeats rows but never drops one
\* (database/db_writer.py:236).
NothingDropped ==
  timeouts = 0 => Range(accepted) \subseteq Range(db) \cup Range(Pending)

\* stop() that returns has stored everything (database/db_writer.py:155).
StopDrains ==
  pc["caller"] = "stopped" /\ timeouts = 0 => Range(accepted) \subseteq Range(db)

\* A tick that was accepted reaches the table, unless stop() begins first
\* (database/db_writer.py:202: a failed flush is tried again).
EventuallyStored ==
  \A n \in 1 .. MaxTicks :
    (Len(accepted) >= n) ~>
      \/ stopping
      \/ Len(db) >= n /\ \A i \in DOMAIN accepted \cap 1 .. n : accepted[i] \in Range(db)

\* Until the join times out or a commit is in doubt, the table is a growing
\* prefix of the accepted ticks: every step is one of the log's.
Log == INSTANCE TickLog WITH stored <- db
StoresInOrder ==
  Log!Init /\ [][Log!Next \/ timeouts' > 0 \/ ambiguous' > 0]_<<accepted, db>>

-----------------------------------------------------------------------------
\* The inductive strengthening of Conserved and NothingDropped.

InFlight == FlushSteps \ {"flush"}

\* Rows are swapped out only during a flush.
BatchInv == \A t \in Threads : pc[t] \notin InFlight => batch[t] = <<>>

\* The caller flushes only when the flush thread is gone.
Alone == pc["caller"] \in {"run", "join"} \/ pc["flusher"] = "done"

\* What is executed and not committed is the batch of the thread at its commit.
TxnInv ==
  /\ \A t \in Threads : pc[t] = "commit" =>
       status[using[t]] = "open" /\ txn[using[t]] = batch[t]
  /\ \A c \in Conns : txn[c] = <<>> \/ \E t \in Threads : pc[t] = "commit" /\ using[t] = c

IInv ==
  TypeOK /\ BatchInv /\ (timeouts = 0 => Alone /\ TxnInv) /\ Conserved /\ NothingDropped

-----------------------------------------------------------------------------
\* database/db_writer.py:187, refuted: "Put rows back so a transient outage
\* does not drop data silently".
NoSilentDrop == Range(accepted) \subseteq Range(db) \cup Range(Pending)
=============================================================================
