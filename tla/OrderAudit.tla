----------------------------- MODULE OrderAudit -----------------------------
(***************************************************************************)
(* The audit of protected orders: the broker call of the order guard and   *)
(* the record it leaves (services/order_guard.py), the emergency's own     *)
(* record (dashboard/components/risk_controls.py), and the three places a  *)
(* record is written to and read from (dashboard/components/orders.py):    *)
(* the log file, the Redis stream and the Redis list.                      *)
(*                                                                         *)
(* Every call is an actor: executor, hunt and console sessions are         *)
(* processes and threads of their own, and share the three places.  Pages  *)
(* read them in several calls, while writers go on.                        *)
(***************************************************************************)
EXTENDS Integers, Sequences, FiniteSets

CONSTANTS
  Calls,        \* orders past the guard's checks, and emergency broadcasts
  Brokers,      \* brokers considered
  Pages,        \* console pages that show the trail, each rendered once
  Limit,        \* rows a page shows (limit = 200)
  MaxLen,       \* length of the stream and of the list (5000)
  NoRow, Torn, Junk,
  MaxSeconds,   \* bound: clock seconds
  MaxFaults     \* bound: failed writes and reads, crashes

ASSUME OrderAuditAssumption ==
  /\ IsFiniteSet(Calls)
  /\ Brokers \subseteq {"dhan", "zerodha"}
  /\ Limit \in Nat \ {0} /\ MaxLen \in Nat /\ Limit <= MaxLen
  /\ MaxSeconds \in Nat /\ MaxFaults \in Nat

Seconds == 0..MaxSeconds
Statuses == {"COMPLETE", "REJECTED", "PENDING"}
Ids == ({"order"} \X Calls) \cup ({"FAILED", "EMERGENCY"} \X Seconds)
Rows == [call : Calls, id : Ids, status : Statuses]

ASSUME LinesDiffer == NoRow \notin Rows /\ Torn \notin Rows /\ Junk \notin Rows /\ Torn # Junk

VARIABLES
  stage,    \* stage[c]: the next thing call c does
  row,      \* row[c]: the record it writes, NoRow when there is none
  file,     \* logs/execution_orders.jsonl: records, and lines no reader can parse
  stream,   \* orders:audit, newest last
  recent,   \* orders:audit:list, newest first
  read,     \* read[p]: the read of page p
  clock, faults,
  taken,    \* history: the orders the broker has taken
  noFile,   \* history: calls whose record did not reach the file
  noRedis   \* history: calls whose record did not reach stream and list

places == <<file, stream, recent>>
history == <<taken, noFile, noRedis>>
vars == <<stage, row, places, read, clock, faults, history>>

Stages == {"new", "file", "stream", "list", "trim", "done", "lost"}

Fault == faults < MaxFaults /\ faults' = faults + 1

Blank == [stage |-> "idle", rows |-> {}, source |-> "none", error |-> FALSE, before |-> {}]

Init ==
  /\ stage = [c \in Calls |-> "new"] /\ row = [c \in Calls |-> NoRow]
  /\ file = <<>> /\ stream = <<>> /\ recent = <<>>
  /\ read = [p \in Pages |-> Blank]
  /\ clock = 0 /\ faults = 0
  /\ taken = {} /\ noFile = {} /\ noRedis = {}

-----------------------------------------------------------------------------
\* _normalize_status: the names execution engines use.
Aliases ==
  [COMPLETE |-> "COMPLETE", COMPLETED |-> "COMPLETE", FILLED |-> "COMPLETE",
   SUCCESS |-> "COMPLETE", REJECTED |-> "REJECTED", REJECT |-> "REJECTED",
   FAILED |-> "REJECTED", PENDING |-> "PENDING", OPEN |-> "PENDING",
   CANCELLED |-> "CANCELLED", CANCELED |-> "CANCELLED"]

NormalStatus(text) == IF text \in DOMAIN Aliases THEN Aliases[text] ELSE text

\* parse_order_event: applied to what is written and to what is read.
Parse(event) == [event EXCEPT !.status = NormalStatus(@)]

Event(c, id, status) == Parse([call |-> c, id |-> id, status |-> status])

\* Mutant: an order the broker refuses is recorded as accepted.
OutcomesAccepted(c) ==
  LET failed == <<"FAILED", clock>>
  IN {[taken |-> TRUE, row |-> Event(c, <<"order", c>>, "COMPLETE")]}
     \cup {[taken |-> t, row |-> Event(c, failed, "COMPLETE")] : t \in BOOLEAN}

\* How a call to the broker ends: whether the broker took the order, and the
\* record.  An OrderGuardError (no numeric id, no token, a failure the broker's
\* library reports) leaves none; an accepted order without an id (Dhan) is
\* recorded under a FAILED id; any other exception is recorded as rejected.
\* Behind a failure and an exception there may be an order all the same.
Outcomes(c) ==
  LET failed == <<"FAILED", clock>>
  IN {[taken |-> TRUE, row |-> Event(c, <<"order", c>>, "COMPLETE")]}
     \cup {[taken |-> TRUE, row |-> Event(c, failed, "COMPLETE")] : b \in Brokers \cap {"dhan"}}
     \cup {[taken |-> t, row |-> r] : t \in BOOLEAN, r \in {NoRow, Event(c, failed, "REJECTED")}}

\* Mutant: an OrderGuardError goes on to the record.
PlaceOrderRecords(c) ==
  /\ stage[c] = "new"
  /\ \E o \in Outcomes(c) :
       /\ taken' = IF o.taken THEN taken \cup {c} ELSE taken
       /\ row' = [row EXCEPT ![c] = o.row]
       /\ stage' = [stage EXCEPT ![c] = "file"]
  /\ UNCHANGED <<places, read, clock, faults, noFile, noRedis>>

\* place_protected_limit_order calls the broker.
PlaceOrder(c) ==
  /\ stage[c] = "new"
  /\ \E o \in Outcomes(c) :
       /\ taken' = IF o.taken THEN taken \cup {c} ELSE taken
       /\ row' = [row EXCEPT ![c] = o.row]
       /\ stage' = [stage EXCEPT ![c] = IF o.row = NoRow THEN "done" ELSE "file"]
  /\ UNCHANGED <<places, read, clock, faults, noFile, noRedis>>

\* trigger_emergency_square_off comes to its sentinel event.
Emergency(c) ==
  /\ stage[c] = "new"
  /\ row' = [row EXCEPT ![c] = Event(c, <<"EMERGENCY", clock>>, "PENDING")]
  /\ stage' = [stage EXCEPT ![c] = "file"]
  /\ UNCHANGED <<places, read, clock, faults, history>>

-----------------------------------------------------------------------------
\* append_order_audit, step by step.
Reaches(c, next) == stage' = [stage EXCEPT ![c] = next]

\* The last line of the file has no end.
OpenLine == file # <<>> /\ file[Len(file)] = Torn

\* Mutant: the file is opened to be written anew.
WriteFileAnew(c) ==
  /\ stage[c] = "file"
  /\ file' = <<row[c]>> /\ Reaches(c, "stream")
  /\ UNCHANGED <<row, stream, recent, read, clock, faults, history>>

\* The line is appended.  What is written behind a torn line is part of it.
WriteFile(c) ==
  /\ stage[c] = "file"
  /\ file' = IF OpenLine THEN [file EXCEPT ![Len(file)] = Junk] ELSE Append(file, row[c])
  /\ Reaches(c, "stream")
  /\ UNCHANGED <<row, stream, recent, read, clock, faults, history>>

\* The write raises, with nothing or a part of the line on disk.  _audit
\* swallows it: nothing is sent to Redis.
WriteFails(c) ==
  /\ stage[c] = "file"
  /\ Fault
  /\ file' \in {file, IF OpenLine THEN file ELSE Append(file, Torn)}
  /\ Reaches(c, "done")
  /\ noFile' = noFile \cup {c} /\ noRedis' = noRedis \cup {c}
  /\ UNCHANGED <<row, stream, recent, read, clock, taken>>

\* XADD with an approximate maxlen keeps the newest, at least MaxLen of them.
LastOf(s, k) == SubSeq(s, Len(s) - k + 1, Len(s))
Added(c) ==
  LET s == Append(stream, row[c])
  IN {s} \cup {LastOf(s, k) : k \in {n \in 1..Len(s) : n >= MaxLen}}

XAdd(c) ==
  /\ stage[c] = "stream"
  /\ stream' \in Added(c)
  /\ Reaches(c, "list")
  /\ UNCHANGED <<row, file, recent, read, clock, faults, history>>

LPush(c) ==
  /\ stage[c] = "list"
  /\ recent' = <<row[c]>> \o recent
  /\ Reaches(c, "trim")
  /\ UNCHANGED <<row, file, stream, read, clock, faults, history>>

LTrim(c) ==
  /\ stage[c] = "trim"
  /\ recent' = SubSeq(recent, 1, IF Len(recent) > MaxLen THEN MaxLen ELSE Len(recent))
  /\ Reaches(c, "done")
  /\ UNCHANGED <<row, file, stream, read, clock, faults, history>>

\* A Redis command raises, done or not; the rest is not tried.
RedisFails(c) ==
  /\ stage[c] \in {"stream", "list", "trim"}
  /\ Fault
  /\ \/ UNCHANGED <<stream, recent>>
     \/ stage[c] = "stream" /\ stream' \in Added(c) /\ UNCHANGED recent
     \/ stage[c] = "list" /\ recent' = <<row[c]>> \o recent /\ UNCHANGED stream
  /\ Reaches(c, "done")
  /\ noRedis' = noRedis \cup {c}
  /\ UNCHANGED <<row, file, read, clock, taken, noFile>>

\* The process of the call is killed; in the broker call the order may have
\* been taken.
Crash(c) ==
  /\ stage[c] \notin {"done", "lost"}
  /\ Fault
  /\ Reaches(c, "lost")
  /\ taken' \in {taken} \cup {t \in {taken \cup {c}} : stage[c] = "new"}
  /\ noFile' = IF stage[c] \in {"new", "file"} THEN noFile \cup {c} ELSE noFile
  /\ noRedis' = noRedis \cup {c}
  /\ UNCHANGED <<row, places, read, clock>>

-----------------------------------------------------------------------------
\* load_order_audit, for the page.
IdsOf(rows) == {r.id : r \in rows}

Newest(s) == {i \in DOMAIN s : i > Len(s) - Limit}

\* Mutant: the oldest entries are read.
StreamRowsOldest ==
  {Parse(stream[i]) : i \in {i \in DOMAIN stream :
     i <= Limit /\ \A j \in DOMAIN stream : j > i => stream[j].id # stream[i].id}}

\* Of the newest entries, the newest under each id.
StreamRows ==
  {Parse(stream[i]) : i \in {i \in Newest(stream) :
     \A j \in Newest(stream) : j > i => stream[j].id # stream[i].id}}

\* Of the first k entries, the first under each id not seen yet.
ListRows(k, seen) ==
  {Parse(recent[i]) : i \in {i \in DOMAIN recent :
     /\ i <= k /\ recent[i].id \notin seen
     /\ \A j \in 1..(i - 1) : recent[j].id # recent[i].id}}

Readable == {i \in DOMAIN file : file[i] \in Rows}
FileRows ==
  {Parse(file[i]) : i \in {i \in Readable :
     Cardinality({j \in Readable : j > i}) < Limit}}

\* XREVRANGE; before is what had been written by then.
ReadStream(p) ==
  /\ read[p].stage = "idle"
  /\ LET Ends(rows) ==
           read' = [read EXCEPT ![p] =
             [stage |-> IF Cardinality(rows) < Limit THEN "list" ELSE "shown",
              rows |-> rows,
              source |-> IF Cardinality(rows) < Limit THEN "none" ELSE "redis",
              error |-> FALSE,
              before |-> {c \in Calls : stage[c] = "done" /\ row[c] # NoRow}]]
     IN  \/ Ends(StreamRows) /\ UNCHANGED faults
         \/ Ends({}) /\ Fault
  /\ UNCHANGED <<stage, row, places, clock, history>>

\* LRANGE, for what the stream left of the limit.
ReadList(p) ==
  /\ read[p].stage = "list"
  /\ LET rows == read[p].rows
         Ends(found) ==
           read' = [read EXCEPT ![p].stage = IF found = {} THEN "file" ELSE "shown",
                                ![p].rows = found,
                                ![p].source = IF found = {} THEN "none" ELSE "redis"]
     IN  \/ Ends(rows \cup ListRows(Limit - Cardinality(rows), IdsOf(rows))) /\ UNCHANGED faults
         \/ Ends(rows) /\ Fault
  /\ UNCHANGED <<stage, row, places, clock, history>>

\* The file is read when Redis shows nothing.
ReadFile(p) ==
  /\ read[p].stage = "file"
  /\ LET Ends(found, error) ==
           read' = [read EXCEPT ![p].stage = "shown", ![p].rows = found, ![p].error = error,
                                ![p].source = IF found = {} THEN "none" ELSE "file"]
     IN  \/ Ends(FileRows, FALSE) /\ UNCHANGED faults
         \/ Ends({}, TRUE) /\ Fault
  /\ UNCHANGED <<stage, row, places, clock, history>>

Tick ==
  /\ clock < MaxSeconds /\ clock' = clock + 1
  /\ UNCHANGED <<stage, row, places, read, faults, history>>

Write(c) == WriteFile(c) \/ XAdd(c) \/ LPush(c) \/ LTrim(c)
Fails(c) == WriteFails(c) \/ RedisFails(c) \/ Crash(c)

Next ==
  \/ \E c \in Calls : PlaceOrder(c) \/ Emergency(c) \/ Write(c) \/ Fails(c)
  \/ \E p \in Pages : ReadStream(p) \/ ReadList(p) \/ ReadFile(p)
  \/ Tick

Spec == Init /\ [][Next]_vars

-----------------------------------------------------------------------------
Reads == [stage : {"idle", "list", "file", "shown"}, rows : SUBSET Rows,
          source : {"redis", "file", "none"}, error : BOOLEAN, before : SUBSET Calls]

TypeOK ==
  /\ stage \in [Calls -> Stages] /\ row \in [Calls -> Rows \cup {NoRow}]
  /\ file \in Seq(Rows \cup {Torn, Junk}) /\ stream \in Seq(Rows) /\ recent \in Seq(Rows)
  /\ read \in [Pages -> Reads]
  /\ clock \in Seconds /\ faults \in 0..MaxFaults
  /\ taken \subseteq Calls /\ noFile \subseteq Calls /\ noRedis \subseteq Calls

InFile(c) == \E i \in DOMAIN file : file[i] = row[c]
Written(c) == row[c] # NoRow /\ stage[c] # "file" /\ c \notin noFile

\* Every record that was written can be read back, but for those a torn line
\* has swallowed; and every torn line, one that a write of its own left,
\* swallows one record at most.
TrailKept ==
  LET swallowed == {c \in Calls : Written(c) /\ ~InFile(c)}
      junk == {i \in DOMAIN file : file[i] = Junk}
  IN  /\ Cardinality(swallowed) <= Cardinality(junk)
      /\ Cardinality(junk) <= Cardinality(noFile)

\* The list exceeds its length by the calls about to trim it at most, and by
\* those that failed or died before they could.
ListBounded ==
  Len(recent) <= MaxLen + Cardinality({c \in Calls : stage[c] = "trim"} \cup noRedis)

\* The record of c has Limit newer ones before it, in the place read.
PastStream(c) ==
  Len(stream) >= Limit /\ \A i \in DOMAIN stream : stream[i].call = c => i <= Len(stream) - Limit
PastList(c) ==
  Len(recent) >= Limit /\ \A i \in DOMAIN recent : recent[i].call = c => i > Limit
PastFile(c) ==
  \A i \in Readable : file[i].call = c => Cardinality({j \in Readable : j > i}) >= Limit

\* A page shows the record of every call that was over when it began to read,
\* or a newer one under the same id, unless Limit newer records hide it: from
\* Redis, whichever of its two reads fails, if the record reached Redis; from
\* the file if it is there and the file can be read.
ReadsBack ==
  \A p \in Pages : read[p].stage = "shown" =>
    \A c \in read[p].before :
      \/ row[c].id \in IdsOf(read[p].rows)
      \/ read[p].source = "redis" /\ (c \in noRedis \/ PastStream(c) \/ PastList(c))
      \/ read[p].source # "redis" /\ (read[p].error \/ PastFile(c))

\* The file is an audit trail: it only grows, no call is recorded twice or
\* before its outcome is known, and COMPLETE and PENDING are true.
Trail == INSTANCE AuditTrail WITH
  trail <- {[call |-> file[i].call, status |-> file[i].status] : i \in Readable}
TrailImplemented == Trail!Spec
=============================================================================
