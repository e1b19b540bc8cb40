-------------------------- MODULE OrderAudit_proofs --------------------------
(***************************************************************************)
(* Proofs about OrderAudit, for any set of calls and pages, any limit and  *)
(* length, and any number of seconds and faults.  First what the operators *)
(* return: the parser, the broker call, the three writes, the three reads; *)
(* then the invariant in parts, each with the steps that can disturb it:   *)
(* what a call has written, how many lines are lost, what the two Redis    *)
(* keys hold, and what a page has seen.                                    *)
(***************************************************************************)
EXTENDS OrderAudit, FiniteSetTheorems, WellFoundedInduction, TLAPS

-----------------------------------------------------------------------------
\* What the operators return.

\* The names the audit itself writes are normal.
LEMMA NormalStatuses == \A s \in Statuses : NormalStatus(s) = s
<1>1. NormalStatus("COMPLETE") = "COMPLETE"
  BY DEF NormalStatus, Aliases
<1>2. NormalStatus("REJECTED") = "REJECTED"
  BY DEF NormalStatus, Aliases
<1>3. NormalStatus("PENDING") = "PENDING"
  BY DEF NormalStatus, Aliases
<1> QED BY <1>1, <1>2, <1>3 DEF Statuses

\* Parsing a record again changes nothing.
LEMMA ParseRow == \A r \in Rows : Parse(r) = r
<1> TAKE r \in Rows
<1>1. NormalStatus(r.status) = r.status
  BY NormalStatuses DEF Rows
<1>2. Parse(r) = [r EXCEPT !.status = r.status]
  BY <1>1 DEF Parse
<1> QED BY <1>2 DEF Rows

LEMMA EventRow ==
  ASSUME NEW c \in Calls, NEW id \in Ids, NEW s \in Statuses
  PROVE  /\ Event(c, id, s) = [call |-> c, id |-> id, status |-> s]
         /\ Event(c, id, s) \in Rows
<1>1. [call |-> c, id |-> id, status |-> s] \in Rows
  BY DEF Rows
<1> QED BY <1>1, ParseRow DEF Event

\* COMPLETE is recorded of orders the broker has taken.
LEMMA OutcomeShape ==
  ASSUME NEW c \in Calls, NEW o \in Outcomes(c), clock \in Seconds
  PROVE  /\ o.taken \in BOOLEAN
         /\ \/ o.row = NoRow
            \/ /\ o.row \in Rows /\ o.row.call = c
               /\ o.row.status \in {"REJECTED", "COMPLETE"}
               /\ o.row.status = "COMPLETE" => o.taken
<1>1. <<"FAILED", clock>> \in Ids /\ <<"order", c>> \in Ids
  BY DEF Ids
<1>2. "COMPLETE" \in Statuses /\ "REJECTED" \in Statuses
  BY DEF Statuses
<1>3. /\ Event(c, <<"order", c>>, "COMPLETE") \in Rows
      /\ Event(c, <<"order", c>>, "COMPLETE").call = c
      /\ Event(c, <<"order", c>>, "COMPLETE").status = "COMPLETE"
  BY <1>1, <1>2, EventRow
<1>4. /\ Event(c, <<"FAILED", clock>>, "COMPLETE") \in Rows
      /\ Event(c, <<"FAILED", clock>>, "COMPLETE").call = c
      /\ Event(c, <<"FAILED", clock>>, "COMPLETE").status = "COMPLETE"
  BY <1>1, <1>2, EventRow
<1>5. /\ Event(c, <<"FAILED", clock>>, "REJECTED") \in Rows
      /\ Event(c, <<"FAILED", clock>>, "REJECTED").call = c
      /\ Event(c, <<"FAILED", clock>>, "REJECTED").status = "REJECTED"
  BY <1>1, <1>2, EventRow
<1> DEFINE done == Event(c, <<"order", c>>, "COMPLETE")
           idless == Event(c, <<"FAILED", clock>>, "COMPLETE")
           failed == Event(c, <<"FAILED", clock>>, "REJECTED")
<1>6. \/ \E t \in BOOLEAN : o = [taken |-> t, row |-> NoRow]
      \/ o = [taken |-> TRUE, row |-> done]
      \/ o = [taken |-> TRUE, row |-> idless]
      \/ \E t \in BOOLEAN : o = [taken |-> t, row |-> failed]
  BY DEF Outcomes
<1> HIDE DEF done, idless, failed
<1>7. CASE \E t \in BOOLEAN : o = [taken |-> t, row |-> NoRow]
  BY <1>7
<1>8. CASE o = [taken |-> TRUE, row |-> done]
  BY <1>8, <1>3 DEF done
<1>9. CASE o = [taken |-> TRUE, row |-> idless]
  BY <1>9, <1>4 DEF idless
<1>10. CASE \E t \in BOOLEAN : o = [taken |-> t, row |-> failed]
  BY <1>10, <1>5 DEF failed
<1> QED BY <1>6, <1>7, <1>8, <1>9, <1>10

\* What the end of a sequence is.
LEMMA LastOfShape ==
  ASSUME NEW S, NEW s \in Seq(S), NEW k \in 1..Len(s)
  PROVE  /\ LastOf(s, k) \in Seq(S) /\ Len(LastOf(s, k)) = k
         /\ \A i \in 1..k : LastOf(s, k)[i] = s[Len(s) - k + i]
<1>1. Len(s) \in Nat /\ Len(s) - k + 1 \in 1..(Len(s) + 1)
  OBVIOUS
<1>2. \A i \in (Len(s) - k + 1)..Len(s) : s[i] \in S
  OBVIOUS
<1> QED BY <1>1, <1>2 DEF LastOf

\* XADD leaves the newest k entries, the new one last.
LEMMA AddedShape ==
  ASSUME NEW c \in Calls, row[c] \in Rows, stream \in Seq(Rows), NEW t \in Added(c)
  PROVE  /\ t \in Seq(Rows)
         /\ \E k \in 1..(Len(stream) + 1) :
              /\ Len(t) = k /\ (k = Len(stream) + 1 \/ k >= MaxLen)
              /\ \A i \in 1..k : t[i] = IF i = k THEN row[c] ELSE stream[Len(stream) + 1 - k + i]
<1> DEFINE s == Append(stream, row[c])
<1>1. /\ s \in Seq(Rows) /\ Len(s) = Len(stream) + 1 /\ Len(stream) \in Nat
      /\ \A i \in 1..Len(s) : s[i] = IF i = Len(s) THEN row[c] ELSE stream[i]
  OBVIOUS
<1>2. t = s \/ \E k \in 1..Len(s) : k >= MaxLen /\ t = LastOf(s, k)
  BY DEF Added
<1> HIDE DEF s
<1>3. CASE t = s
  BY <1>1, <1>3
<1>4. CASE \E k \in 1..Len(s) : k >= MaxLen /\ t = LastOf(s, k)
  <2>1. PICK k \in 1..Len(s) : k >= MaxLen /\ t = LastOf(s, k)
    BY <1>4
  <2>2. /\ t \in Seq(Rows) /\ Len(t) = k
        /\ \A i \in 1..k : t[i] = s[Len(s) - k + i]
    BY <1>1, <2>1, LastOfShape
  <2>3. \A i \in 1..k : t[i] = IF i = k THEN row[c] ELSE stream[Len(stream) + 1 - k + i]
    <3> TAKE i \in 1..k
    <3>1. Len(s) - k + i \in 1..Len(s) /\ (Len(s) - k + i = Len(s) <=> i = k)
      BY <1>1
    <3> QED BY <1>1, <2>2, <3>1
  <2> QED BY <1>1, <2>1, <2>2, <2>3
<1> QED BY <1>2, <1>3, <1>4

\* LPUSH moves every record by one; LTRIM keeps the newest.
LEMMA PushShape ==
  ASSUME NEW r \in Rows, recent \in Seq(Rows)
  PROVE  /\ <<r>> \o recent \in Seq(Rows) /\ Len(<<r>> \o recent) = Len(recent) + 1
         /\ \A i \in 1..(Len(recent) + 1) :
              (<<r>> \o recent)[i] = IF i = 1 THEN r ELSE recent[i - 1]
  OBVIOUS

LEMMA TrimShape ==
  ASSUME recent \in Seq(Rows), NEW n \in 0..Len(recent)
  PROVE  /\ SubSeq(recent, 1, n) \in Seq(Rows) /\ Len(SubSeq(recent, 1, n)) = n
         /\ \A i \in 1..n : SubSeq(recent, 1, n)[i] = recent[i]
  OBVIOUS

LEMMA StreamRowsShape ==
  ASSUME stream \in Seq(Rows)
  PROVE  StreamRows \in SUBSET Rows
  BY ParseRow DEF StreamRows, Newest

LEMMA ListRowsShape ==
  ASSUME recent \in Seq(Rows), NEW k, NEW seen
  PROVE  ListRows(k, seen) \in SUBSET Rows
  BY ParseRow DEF ListRows

LEMMA FileRowsShape == FileRows \in SUBSET Rows
  BY ParseRow DEF FileRows, Readable

-----------------------------------------------------------------------------
\* Types.

LEMMA BlankRead == Blank \in Reads
  BY DEF Blank, Reads

LEMMA TypeInit == Init => TypeOK
<1> SUFFICES ASSUME Init PROVE TypeOK
  OBVIOUS
<1> USE OrderAuditAssumption
<1>1. read \in [Pages -> Reads]
  BY BlankRead DEF Init
<1> QED BY <1>1 DEF Init, TypeOK, Stages, Seconds

\* A fault is counted within its bound.
LEMMA FaultType ==
  ASSUME faults \in 0..MaxFaults, Fault
  PROVE  faults' \in 0..MaxFaults
  BY OrderAuditAssumption DEF Fault

LEMMA TypeWrites ==
  ASSUME TypeOK, NEW c \in Calls, row[c] # NoRow, Write(c)
  PROVE  TypeOK'
<1> USE OrderAuditAssumption
<1>1. row[c] \in Rows
  BY DEF TypeOK
<1>2. CASE WriteFile(c)
  <2>1. stage' \in [Calls -> Stages]
    BY <1>2 DEF WriteFile, Reaches, TypeOK, Stages
  <2>2. file' \in Seq(Rows \cup {Torn, Junk})
    <3>1. row[c] \in Rows \cup {Torn, Junk} /\ Junk \in Rows \cup {Torn, Junk}
      BY <1>1
    <3>2. CASE OpenLine
      BY <1>2, <3>1, <3>2 DEF WriteFile, OpenLine, TypeOK
    <3>3. CASE ~OpenLine
      BY <1>2, <3>1, <3>3 DEF WriteFile, TypeOK
    <3> QED BY <3>2, <3>3
  <2> QED BY <1>2, <2>1, <2>2 DEF WriteFile, TypeOK, history
<1>3. CASE XAdd(c)
  <2>1. stage' \in [Calls -> Stages]
    BY <1>3 DEF XAdd, Reaches, TypeOK, Stages
  <2>2. stream' \in Seq(Rows)
    BY <1>1, <1>3, AddedShape DEF XAdd, TypeOK
  <2> QED BY <1>3, <2>1, <2>2 DEF XAdd, TypeOK, history
<1>4. CASE LPush(c)
  <2>1. stage' \in [Calls -> Stages]
    BY <1>4 DEF LPush, Reaches, TypeOK, Stages
  <2>2. recent' \in Seq(Rows)
    BY <1>1, <1>4, PushShape DEF LPush, TypeOK
  <2> QED BY <1>4, <2>1, <2>2 DEF LPush, TypeOK, history
<1>5. CASE LTrim(c)
  <2>1. stage' \in [Calls -> Stages]
    BY <1>5 DEF LTrim, Reaches, TypeOK, Stages
  <2>2. recent' \in Seq(Rows)
    <3>1. recent \in Seq(Rows) /\ Len(recent) \in Nat
      BY DEF TypeOK
    <3>2. (IF Len(recent) > MaxLen THEN MaxLen ELSE Len(recent)) \in 0..Len(recent)
      BY <3>1
    <3> QED BY <1>5, <3>1, <3>2, TrimShape DEF LTrim
  <2> QED BY <1>5, <2>1, <2>2 DEF LTrim, TypeOK, history
<1> QED BY <1>2, <1>3, <1>4, <1>5 DEF Write

LEMMA TypeFails ==
  ASSUME TypeOK, NEW c \in Calls, stage[c] \in {"file", "stream", "list", "trim"} => row[c] # NoRow, Fails(c)
  PROVE  TypeOK'
<1> USE OrderAuditAssumption
<1>1. CASE WriteFails(c)
  <2>1. stage' \in [Calls -> Stages]
    BY <1>1 DEF WriteFails, Reaches, TypeOK, Stages
  <2>2. file' \in Seq(Rows \cup {Torn, Junk})
    <3>1. Torn \in Rows \cup {Torn, Junk}
      OBVIOUS
    <3>2. file' = file \/ file' = Append(file, Torn)
      BY <1>1 DEF WriteFails
    <3>3. file \in Seq(Rows \cup {Torn, Junk})
      BY DEF TypeOK
    <3> HIDE DEF TypeOK
    <3> QED BY <3>1, <3>2, <3>3
  <2>3. faults' \in 0..MaxFaults
    BY <1>1, FaultType DEF WriteFails, TypeOK
  <2> QED BY <1>1, <2>1, <2>2, <2>3 DEF WriteFails, TypeOK
<1>2. CASE RedisFails(c)
  <2>1. stage' \in [Calls -> Stages]
    BY <1>2 DEF RedisFails, Reaches, TypeOK, Stages
  <2>2. row[c] \in Rows
    BY <1>2 DEF RedisFails, TypeOK
  <2>3. stream' \in Seq(Rows) /\ recent' \in Seq(Rows)
    <3>1. CASE UNCHANGED <<stream, recent>>
      BY <3>1 DEF TypeOK
    <3>2. CASE stage[c] = "stream" /\ stream' \in Added(c) /\ UNCHANGED recent
      BY <2>2, <3>2, AddedShape DEF TypeOK
    <3>3. CASE stage[c] = "list" /\ recent' = <<row[c]>> \o recent /\ UNCHANGED stream
      BY <2>2, <3>3, PushShape DEF TypeOK
    <3> QED BY <1>2, <3>1, <3>2, <3>3 DEF RedisFails
  <2>4. faults' \in 0..MaxFaults
    BY <1>2, FaultType DEF RedisFails, TypeOK
  <2> QED BY <1>2, <2>1, <2>3, <2>4 DEF RedisFails, TypeOK
<1>3. CASE Crash(c)
  <2>1. stage' \in [Calls -> Stages]
    BY <1>3 DEF Crash, Reaches, TypeOK, Stages
  <2>2. taken' \subseteq Calls
    BY <1>3 DEF Crash, TypeOK
  <2>3. faults' \in 0..MaxFaults
    BY <1>3, FaultType DEF Crash, TypeOK
  <2> QED BY <1>3, <2>1, <2>2, <2>3 DEF Crash, TypeOK, places
<1> QED BY <1>1, <1>2, <1>3 DEF Fails

LEMMA TypeReads ==
  ASSUME TypeOK, NEW p \in Pages, ReadStream(p) \/ ReadList(p) \/ ReadFile(p)
  PROVE  TypeOK'
<1> USE OrderAuditAssumption
<1>1. /\ StreamRows \in SUBSET Rows
      /\ \A k, seen : ListRows(k, seen) \in SUBSET Rows
      /\ FileRows \in SUBSET Rows
  BY StreamRowsShape, ListRowsShape, FileRowsShape DEF TypeOK
<1>2. faults' \in 0..MaxFaults
  BY FaultType DEF ReadStream, ReadList, ReadFile, TypeOK
<1>3. read[p] \in Reads
  BY DEF TypeOK
<1>4. read' \in [Pages -> Reads]
  <2>1. CASE ReadStream(p)
    <3>1. PICK rows \in {StreamRows, {}} :
             read' = [read EXCEPT ![p] =
               [stage |-> IF Cardinality(rows) < Limit THEN "list" ELSE "shown",
                rows |-> rows,
                source |-> IF Cardinality(rows) < Limit THEN "none" ELSE "redis",
                error |-> FALSE,
                before |-> {c \in Calls : stage[c] = "done" /\ row[c] # NoRow}]]
      BY <2>1 DEF ReadStream
    <3>2. rows \in SUBSET Rows
      BY <1>1, <3>1
    <3> QED BY <3>1, <3>2 DEF Reads, TypeOK
  <2>2. CASE ReadList(p)
    <3>1. PICK found \in {read[p].rows \cup ListRows(Limit - Cardinality(read[p].rows), IdsOf(read[p].rows)), read[p].rows} :
             read' = [read EXCEPT ![p].stage = IF found = {} THEN "file" ELSE "shown",
                                  ![p].rows = found,
                                  ![p].source = IF found = {} THEN "none" ELSE "redis"]
      BY <2>2 DEF ReadList
    <3>2. found \in SUBSET Rows
      <4>1. read[p].rows \in SUBSET Rows
        BY <1>3 DEF Reads
      <4> QED BY <1>1, <3>1, <4>1
    <3> QED BY <1>3, <3>1, <3>2 DEF Reads, TypeOK
  <2>3. CASE ReadFile(p)
    <3>1. PICK found \in {FileRows, {}}, error \in BOOLEAN :
             read' = [read EXCEPT ![p].stage = "shown", ![p].rows = found, ![p].error = error,
                                  ![p].source = IF found = {} THEN "none" ELSE "file"]
      BY <2>3 DEF ReadFile
    <3>2. found \in SUBSET Rows
      BY <1>1, <3>1
    <3> QED BY <1>3, <3>1, <3>2 DEF Reads, TypeOK
  <2> QED BY <2>1, <2>2, <2>3
<1> QED BY <1>2, <1>4 DEF ReadStream, ReadList, ReadFile, TypeOK, places, history

LEMMA TypeCalls ==
  ASSUME TypeOK, NEW c \in Calls, PlaceOrder(c) \/ Emergency(c)
  PROVE  TypeOK'
<1>1. CASE PlaceOrder(c)
  <2>1. PICK o \in Outcomes(c) :
           /\ taken' = IF o.taken THEN taken \cup {c} ELSE taken
           /\ row' = [row EXCEPT ![c] = o.row]
           /\ stage' = [stage EXCEPT ![c] = IF o.row = NoRow THEN "done" ELSE "file"]
    BY <1>1 DEF PlaceOrder
  <2>2. o.row \in Rows \cup {NoRow}
    BY OutcomeShape DEF TypeOK
  <2>3. stage' \in [Calls -> Stages]
    BY <2>1 DEF TypeOK, Stages
  <2> QED BY <1>1, <2>1, <2>2, <2>3 DEF PlaceOrder, TypeOK, places
<1>2. CASE Emergency(c)
  <2>1. <<"EMERGENCY", clock>> \in Ids /\ "PENDING" \in Statuses
    BY DEF TypeOK, Ids, Statuses
  <2>2. Event(c, <<"EMERGENCY", clock>>, "PENDING") \in Rows
    BY <2>1, EventRow
  <2>3. stage' \in [Calls -> Stages]
    BY <1>2 DEF Emergency, TypeOK, Stages
  <2> QED BY <1>2, <2>2, <2>3 DEF Emergency, TypeOK, places, history
<1> QED BY <1>1, <1>2

-----------------------------------------------------------------------------
\* What a call has recorded, and where.

\* A record says COMPLETE of orders that were taken, PENDING of what was none.
Truthful(c) ==
  row[c].status \in {"REJECTED", IF c \in taken THEN "COMPLETE" ELSE "PENDING"}

CallOK(c) ==
  /\ stage[c] = "new" => row[c] = NoRow /\ c \notin taken
  /\ stage[c] \in {"file", "stream", "list", "trim"} => row[c] # NoRow
  /\ row[c] # NoRow => row[c].call = c /\ Truthful(c)
  /\ c \in noFile \cup noRedis => stage[c] \in {"done", "lost"}

\* A record in one of the three places is that of its call, which has come past
\* the place.
FileOK ==
  \A i \in DOMAIN file : file[i] \in Rows =>
    file[i] = row[file[i].call] /\ stage[file[i].call] \notin {"new", "file"}
StreamOK ==
  \A i \in DOMAIN stream :
    /\ stream[i] = row[stream[i].call]
    /\ stage[stream[i].call] \notin {"new", "file", "stream"}
RecentOK ==
  \A i \in DOMAIN recent :
    /\ recent[i] = row[recent[i].call]
    /\ stage[recent[i].call] \notin {"new", "file", "stream", "list"}

PlacesOK == FileOK /\ StreamOK /\ RecentOK
CallsOK == \A c \in Calls : CallOK(c)

LEMMA RecordedInit == Init => CallsOK /\ PlacesOK
  BY DEF Init, CallsOK, CallOK, PlacesOK, FileOK, StreamOK, RecentOK

\* A step of one call: the others keep their stage and their record.
Others(c) ==
  /\ \A d \in Calls \ {c} : stage'[d] = stage[d] /\ row'[d] = row[d]
  /\ \A d \in Calls \ {c} : d \in taken' <=> d \in taken
  /\ \A d \in Calls \ {c} : d \in noFile' <=> d \in noFile
  /\ \A d \in Calls \ {c} : d \in noRedis' <=> d \in noRedis

LEMMA OneCall ==
  ASSUME TypeOK, NEW c \in Calls, PlaceOrder(c) \/ Emergency(c) \/ Write(c) \/ Fails(c)
  PROVE  Others(c)
<1> USE DEF Others, TypeOK
<1>1. CASE PlaceOrder(c)
  BY <1>1 DEF PlaceOrder
<1>2. CASE Emergency(c)
  BY <1>2 DEF Emergency, history
<1>3. CASE Write(c)
  BY <1>3 DEF Write, WriteFile, XAdd, LPush, LTrim, Reaches, history
<1>4. CASE WriteFails(c)
  BY <1>4 DEF WriteFails, Reaches
<1>5. CASE RedisFails(c)
  BY <1>5 DEF RedisFails, Reaches
<1>6. CASE Crash(c)
  BY <1>6 DEF Crash, Reaches
<1> QED BY <1>1, <1>2, <1>3, <1>4, <1>5, <1>6 DEF Fails

\* How far a call comes in one step.
LEMMA Progress ==
  ASSUME TypeOK, NEW c \in Calls, PlaceOrder(c) \/ Emergency(c) \/ Write(c) \/ Fails(c)
  PROVE  /\ stage[c] \notin {"done", "lost"}
         /\ stage[c] = "file" => stage'[c] \in {"stream", "done", "lost"}
         /\ stage[c] = "stream" => stage'[c] \in {"list", "done", "lost"}
         /\ stage[c] = "list" => stage'[c] \in {"trim", "done", "lost"}
         /\ stage[c] = "trim" => stage'[c] \in {"done", "lost"}
         /\ stage[c] # "new" => row' = row /\ taken' = taken
<1> USE DEF TypeOK
<1>1. CASE PlaceOrder(c)
  BY <1>1 DEF PlaceOrder
<1>2. CASE Emergency(c)
  BY <1>2 DEF Emergency
<1>3. CASE Write(c)
  BY <1>3 DEF Write, WriteFile, XAdd, LPush, LTrim, Reaches, history
<1>4. CASE WriteFails(c)
  BY <1>4 DEF WriteFails, Reaches
<1>5. CASE RedisFails(c)
  BY <1>5 DEF RedisFails, Reaches
<1>6. CASE Crash(c)
  BY <1>6 DEF Crash, Reaches
<1> QED BY <1>1, <1>2, <1>3, <1>4, <1>5, <1>6 DEF Fails

LEMMA CallStep ==
  ASSUME TypeOK, CallsOK, NEW c \in Calls, PlaceOrder(c) \/ Emergency(c) \/ Write(c) \/ Fails(c)
  PROVE  CallsOK'
<1> SUFFICES ASSUME NEW d \in Calls PROVE CallOK(d)'
  BY DEF CallsOK
<1>1. CallOK(c) /\ CallOK(d)
  BY DEF CallsOK
<1>2. CASE d # c
  BY <1>1, <1>2, OneCall DEF Others, CallOK, Truthful
<1>3. CASE d = c /\ PlaceOrder(c)
  <2>1. PICK o \in Outcomes(c) :
           /\ taken' = IF o.taken THEN taken \cup {c} ELSE taken
           /\ row' = [row EXCEPT ![c] = o.row]
           /\ stage' = [stage EXCEPT ![c] = IF o.row = NoRow THEN "done" ELSE "file"]
    BY <1>3 DEF PlaceOrder
  <2>2. stage[c] = "new" /\ noFile' = noFile /\ noRedis' = noRedis
    BY <1>3 DEF PlaceOrder
  <2>3. row'[c] = o.row /\ stage'[c] = IF o.row = NoRow THEN "done" ELSE "file"
    BY <2>1 DEF TypeOK
  <2>4. o.row # NoRow => /\ o.row.call = c /\ o.row.status \in {"REJECTED", "COMPLETE"}
                         /\ o.row.status = "COMPLETE" => c \in taken'
    BY <2>1, OutcomeShape DEF TypeOK
  <2>5. row'[c] # NoRow => row'[c].call = c /\ Truthful(c)'
    BY <2>2, <2>3, <2>4 DEF Truthful
  <2>6. c \notin noFile' \cup noRedis'
    BY <1>1, <1>3, <2>2 DEF CallOK
  <2> QED BY <1>3, <2>3, <2>5, <2>6 DEF CallOK
<1>4. CASE d = c /\ Emergency(c)
  <2>1. <<"EMERGENCY", clock>> \in Ids /\ "PENDING" \in Statuses
    BY DEF TypeOK, Ids, Statuses
  <2>2. row'[c] = [call |-> c, id |-> <<"EMERGENCY", clock>>, status |-> "PENDING"]
    BY <1>4, <2>1, EventRow DEF Emergency, TypeOK
  <2>3. row'[c].call = c /\ row'[c].status = "PENDING" /\ stage'[c] = "file" /\ stage[c] = "new"
    BY <1>4, <2>2 DEF Emergency, TypeOK
  <2>4. row'[c] # NoRow
    BY <2>1, <2>2, LinesDiffer DEF Rows
  <2>5. c \notin noFile \cup noRedis /\ c \notin taken
    BY <1>1, <2>3 DEF CallOK
  <2>6. noFile' = noFile /\ noRedis' = noRedis /\ taken' = taken
    BY <1>4 DEF Emergency, history
  <2>7. row'[c].status \in {"REJECTED", IF c \in taken' THEN "COMPLETE" ELSE "PENDING"}
    BY <2>3, <2>5, <2>6
  <2> QED BY <1>4, <2>3, <2>4, <2>5, <2>6, <2>7 DEF CallOK, Truthful
<1>5. CASE d = c /\ Write(c)
  <2>1. stage[c] \in {"file", "stream", "list", "trim"}
    BY <1>5 DEF Write, WriteFile, XAdd, LPush, LTrim
  <2>2. row' = row /\ taken' = taken /\ noFile' = noFile /\ noRedis' = noRedis
    BY <1>5 DEF Write, WriteFile, XAdd, LPush, LTrim, history
  <2>3. stage'[c] # "new"
    BY <1>5, <2>1, Progress
  <2> QED BY <1>1, <1>5, <2>1, <2>2, <2>3 DEF CallOK, Truthful
<1>6. CASE d = c /\ Fails(c)
  <2>1. stage'[c] \in {"done", "lost"} /\ row' = row
    BY <1>6 DEF Fails, WriteFails, RedisFails, Crash, Reaches, TypeOK
  <2>2. taken' = taken \/ (taken' = taken \cup {c} /\ stage[c] = "new")
    BY <1>6 DEF Fails, WriteFails, RedisFails, Crash
  <2> QED BY <1>1, <1>6, <2>1, <2>2 DEF CallOK, Truthful
<1> QED BY <1>2, <1>3, <1>4, <1>5, <1>6

\* What a call does to the file: nothing, a line of its own at the end, a torn
\* line at the end, or the torn line at the end becomes junk.
FileStep(c) ==
  \/ file' = file
  \/ file' = Append(file, row[c]) /\ ~OpenLine /\ stage[c] = "file" /\ stage'[c] = "stream"
  \/ file' = Append(file, Torn) /\ ~OpenLine /\ stage[c] = "file" /\ stage'[c] = "done"
  \/ file' = [file EXCEPT ![Len(file)] = Junk] /\ OpenLine /\ stage[c] = "file" /\ stage'[c] = "stream"

LEMMA FileSteps ==
  ASSUME TypeOK, NEW c \in Calls, PlaceOrder(c) \/ Emergency(c) \/ Write(c) \/ Fails(c)
  PROVE  FileStep(c)
<1> USE DEF FileStep
<1>1. CASE WriteFile(c)
  BY <1>1 DEF WriteFile, Reaches, TypeOK
<1>2. CASE WriteFails(c)
  BY <1>2 DEF WriteFails, Reaches, TypeOK
<1> QED BY <1>1, <1>2 DEF PlaceOrder, Emergency, Write, Fails, XAdd, LPush, LTrim, RedisFails, Crash, places

\* What it does to the stream and to the list.
LEMMA RedisSteps ==
  ASSUME TypeOK, NEW c \in Calls, PlaceOrder(c) \/ Emergency(c) \/ Write(c) \/ Fails(c)
  PROVE  /\ \/ stream' = stream
            \/ /\ stream' \in Added(c) /\ stage[c] = "stream"
               /\ stage'[c] = "list" \/ (stage'[c] = "done" /\ c \in noRedis')
         /\ \/ recent' = recent
            \/ /\ recent' = <<row[c]>> \o recent /\ stage[c] = "list"
               /\ stage'[c] = "trim" \/ (stage'[c] = "done" /\ c \in noRedis')
            \/ recent' = SubSeq(recent, 1, IF Len(recent) > MaxLen THEN MaxLen ELSE Len(recent))
<1>1. CASE Write(c)
  BY <1>1 DEF Write, WriteFile, XAdd, LPush, LTrim, Reaches, TypeOK
<1>2. CASE RedisFails(c)
  BY <1>2 DEF RedisFails, Reaches, TypeOK
<1> QED BY <1>1, <1>2 DEF PlaceOrder, Emergency, Fails, WriteFails, Crash, places

\* A call that is past a place stays past it and keeps its record.
LEMMA StaysPast ==
  ASSUME TypeOK, NEW c \in Calls, PlaceOrder(c) \/ Emergency(c) \/ Write(c) \/ Fails(c),
         NEW d \in Calls, stage[d] # "new"
  PROVE  /\ row'[d] = row[d] /\ stage'[d] # "new"
         /\ stage[d] # "file" => stage'[d] # "file"
         /\ stage[d] \notin {"file", "stream"} => stage'[d] \notin {"file", "stream"}
         /\ stage[d] \notin {"file", "stream", "list"} => stage'[d] \notin {"file", "stream", "list"}
         /\ stage[d] = "done" => stage'[d] = "done" /\ d # c
<1>1. CASE d = c
  <2>1. stage[c] \in Stages
    BY DEF TypeOK
  <2> QED BY <1>1, <2>1, Progress DEF Stages
<1>2. CASE d # c
  BY <1>2, OneCall DEF Others
<1> QED BY <1>1, <1>2

\* The lines a reader can parse, before and after.
LEMMA FileStepOK ==
  ASSUME TypeOK, CallsOK, FileOK, NEW c \in Calls,
         PlaceOrder(c) \/ Emergency(c) \/ Write(c) \/ Fails(c)
  PROVE  FileOK'
<1>1. SUFFICES ASSUME NEW i \in DOMAIN file', file'[i] \in Rows
               PROVE  /\ file'[i] = row'[file'[i].call]
                      /\ stage'[file'[i].call] \notin {"new", "file"}
  BY DEF FileOK
<1>2. file \in Seq(Rows \cup {Torn, Junk}) /\ Len(file) \in Nat
  BY DEF TypeOK
<1>3. ASSUME i \in DOMAIN file, file'[i] = file[i]
      PROVE  /\ file'[i] = row'[file'[i].call]
             /\ stage'[file'[i].call] \notin {"new", "file"}
  <2>1. file[i] = row[file[i].call] /\ stage[file[i].call] \notin {"new", "file"}
    BY <1>1, <1>3 DEF FileOK
  <2>2. file[i].call \in Calls
    BY <1>1, <1>3 DEF Rows
  <2> QED BY <1>3, <2>1, <2>2, StaysPast
<1>4. CASE file' = file
  BY <1>1, <1>3, <1>4
<1>5. CASE file' = Append(file, row[c]) /\ stage[c] = "file" /\ stage'[c] = "stream"
  <2>1. CASE i = Len(file) + 1
    <3>1. file'[i] = row[c]
      BY <1>2, <1>5, <2>1
    <3>2. row[c].call = c /\ row'[c] = row[c]
      BY <1>5, Progress DEF CallsOK, CallOK
    <3> QED BY <1>5, <3>1, <3>2
  <2>2. CASE i # Len(file) + 1
    <3>1. i \in DOMAIN file /\ file'[i] = file[i]
      BY <1>1, <1>2, <1>5, <2>2
    <3> QED BY <1>3, <3>1
  <2> QED BY <2>1, <2>2
<1>6. CASE file' = Append(file, Torn)
  <2>1. CASE i = Len(file) + 1
    BY <1>1, <1>2, <1>6, <2>1, LinesDiffer
  <2>2. CASE i # Len(file) + 1
    <3>1. i \in DOMAIN file /\ file'[i] = file[i]
      BY <1>1, <1>2, <1>6, <2>2
    <3> QED BY <1>3, <3>1
  <2> QED BY <2>1, <2>2
<1>7. CASE file' = [file EXCEPT ![Len(file)] = Junk]
  <2>1. i \in DOMAIN file
    BY <1>1, <1>2, <1>7
  <2>2. i # Len(file)
    BY <1>1, <1>2, <1>7, <2>1, LinesDiffer
  <2> QED BY <1>2, <1>3, <1>7, <2>1, <2>2
<1> QED BY <1>4, <1>5, <1>6, <1>7, FileSteps DEF FileStep

LEMMA StreamStepOK ==
  ASSUME TypeOK, CallsOK, StreamOK, NEW c \in Calls,
         PlaceOrder(c) \/ Emergency(c) \/ Write(c) \/ Fails(c)
  PROVE  StreamOK'
<1> DEFINE Fits(r) == r = row'[r.call] /\ stage'[r.call] \notin {"new", "file", "stream"}
<1>1. \A i \in DOMAIN stream : Fits(stream[i])
  <2> TAKE i \in DOMAIN stream
  <2>1. stream[i] = row[stream[i].call] /\ stage[stream[i].call] \notin {"new", "file", "stream"}
    BY DEF StreamOK
  <2>2. stream[i].call \in Calls
    <3>1. stream \in Seq(Rows)
      BY DEF TypeOK
    <3>2. stream[i] \in Rows
      BY <3>1
    <3> QED BY <3>2 DEF Rows
  <2> QED BY <2>1, <2>2, StaysPast
<1>2. CASE stream' = stream
  BY <1>1, <1>2 DEF StreamOK
<1>3. CASE stream' \in Added(c) /\ stage[c] = "stream" /\ stage'[c] \in {"list", "done"}
  <2>1. row[c] \in Rows /\ row[c].call = c /\ row'[c] = row[c]
    BY <1>3, Progress DEF TypeOK, CallsOK, CallOK
  <2>2. Fits(row[c])
    BY <1>3, <2>1
  <2>3. stream \in Seq(Rows) /\ Len(stream) \in Nat
    BY DEF TypeOK
  <2>4. PICK k \in 1..(Len(stream) + 1) :
          /\ stream' \in Seq(Rows) /\ Len(stream') = k
          /\ \A i \in 1..k : stream'[i] = IF i = k THEN row[c] ELSE stream[Len(stream) + 1 - k + i]
    BY <1>3, <2>1, <2>3, AddedShape
  <2>5. \A i \in DOMAIN stream' : Fits(stream'[i])
    <3> TAKE i \in DOMAIN stream'
    <3>1. i \in 1..k
      BY <2>4
    <3>2. CASE i = k
      BY <2>2, <2>4, <3>1, <3>2
    <3>3. CASE i # k
      <4>1. Len(stream) + 1 - k + i \in DOMAIN stream
        BY <2>3, <2>4, <3>1, <3>3
      <4>2. stream'[i] = stream[Len(stream) + 1 - k + i]
        BY <2>4, <3>1, <3>3
      <4> HIDE DEF Fits
      <4> QED BY <1>1, <4>1, <4>2
    <3> QED BY <3>2, <3>3
  <2> QED BY <2>5 DEF StreamOK
<1> QED BY <1>2, <1>3, RedisSteps

LEMMA RecentStepOK ==
  ASSUME TypeOK, CallsOK, RecentOK, NEW c \in Calls,
         PlaceOrder(c) \/ Emergency(c) \/ Write(c) \/ Fails(c)
  PROVE  RecentOK'
<1> DEFINE Fits(r) == r = row'[r.call] /\ stage'[r.call] \notin {"new", "file", "stream", "list"}
<1>1. \A i \in DOMAIN recent : Fits(recent[i])
  <2> TAKE i \in DOMAIN recent
  <2>1. recent[i] = row[recent[i].call] /\ stage[recent[i].call] \notin {"new", "file", "stream", "list"}
    BY DEF RecentOK
  <2>2. recent[i].call \in Calls
    <3>1. recent \in Seq(Rows)
      BY DEF TypeOK
    <3>2. recent[i] \in Rows
      BY <3>1
    <3> QED BY <3>2 DEF Rows
  <2> QED BY <2>1, <2>2, StaysPast
<1>2. CASE recent' = recent
  BY <1>1, <1>2 DEF RecentOK
<1>3. recent \in Seq(Rows) /\ Len(recent) \in Nat
  BY DEF TypeOK
<1>4. CASE recent' = <<row[c]>> \o recent /\ stage[c] = "list" /\ stage'[c] \in {"trim", "done"}
  <2>1. row[c] \in Rows /\ row[c].call = c /\ row'[c] = row[c]
    BY <1>4, Progress DEF TypeOK, CallsOK, CallOK
  <2>2. Fits(row[c])
    BY <1>4, <2>1
  <2>3. \A i \in DOMAIN recent' : Fits(recent'[i])
    <3> TAKE i \in DOMAIN recent'
    <3>1. i \in 1..(Len(recent) + 1) /\ recent'[i] = IF i = 1 THEN row[c] ELSE recent[i - 1]
      BY <1>3, <1>4, <2>1, PushShape
    <3>2. i # 1 => i - 1 \in DOMAIN recent
      BY <1>3, <3>1
    <3> HIDE DEF Fits
    <3> QED BY <1>1, <2>2, <3>1, <3>2
  <2> QED BY <2>3 DEF RecentOK
<1>5. CASE recent' = SubSeq(recent, 1, IF Len(recent) > MaxLen THEN MaxLen ELSE Len(recent))
  <2>1. PICK n \in 0..Len(recent) : recent' = SubSeq(recent, 1, n)
    BY <1>3, <1>5, OrderAuditAssumption
  <2>2. \A i \in DOMAIN recent' : Fits(recent'[i])
    <3> TAKE i \in DOMAIN recent'
    <3>1. i \in DOMAIN recent /\ recent'[i] = recent[i]
      BY <1>3, <2>1, TrimShape
    <3> HIDE DEF Fits
    <3> QED BY <1>1, <3>1
  <2> QED BY <2>2 DEF RecentOK
<1> QED BY <1>2, <1>4, <1>5, RedisSteps

RecordInv == TypeOK /\ CallsOK /\ PlacesOK

LEMMA RecordNext == RecordInv /\ [Next]_vars => RecordInv'
<1> SUFFICES ASSUME RecordInv, [Next]_vars PROVE RecordInv'
  OBVIOUS
<1>1. TypeOK /\ CallsOK /\ FileOK /\ StreamOK /\ RecentOK
  BY DEF RecordInv, PlacesOK
<1>2. ASSUME NEW c \in Calls, PlaceOrder(c) \/ Emergency(c) \/ Write(c) \/ Fails(c)
      PROVE  RecordInv'
  <2>1. stage[c] \in {"file", "stream", "list", "trim"} => row[c] # NoRow
    BY <1>1 DEF CallsOK, CallOK
  <2>2. Write(c) => row[c] # NoRow
    BY <2>1 DEF Write, WriteFile, XAdd, LPush, LTrim
  <2>3. TypeOK'
    BY <1>1, <1>2, <2>1, <2>2, TypeCalls, TypeWrites, TypeFails
  <2> QED BY <1>1, <1>2, <2>3, CallStep, FileStepOK, StreamStepOK, RecentStepOK DEF RecordInv, PlacesOK
<1>3. ASSUME UNCHANGED <<stage, row, places, history>>
      PROVE  (CallsOK /\ PlacesOK)'
  BY <1>1, <1>3 DEF places, history, CallsOK, CallOK, Truthful, PlacesOK, FileOK, StreamOK, RecentOK
<1>4. ASSUME NEW p \in Pages, ReadStream(p) \/ ReadList(p) \/ ReadFile(p)
      PROVE  RecordInv'
  BY <1>1, <1>3, <1>4, TypeReads DEF RecordInv, ReadStream, ReadList, ReadFile
<1>5. CASE Tick
  <2>1. TypeOK'
    BY <1>1, <1>5, OrderAuditAssumption DEF Tick, TypeOK, Seconds, places, history
  <2> QED BY <1>3, <1>5, <2>1 DEF RecordInv, Tick
<1>6. CASE UNCHANGED vars
  BY <1>1, <1>3, <1>6 DEF RecordInv, vars, TypeOK, places, history
<1> QED BY <1>2, <1>4, <1>5, <1>6 DEF Next

LEMMA RecordAlways == Spec => []RecordInv
<1>1. Init => RecordInv
  BY TypeInit, RecordedInit DEF RecordInv
<1> QED BY <1>1, RecordNext, PTL DEF Spec

\* TypeOK: what the guard hands over, what the three writes leave and what a
\* page reads are records, lines and stages of the kinds the code knows.
THEOREM TypeCorrect == Spec => []TypeOK
<1>1. RecordInv => TypeOK
  BY DEF RecordInv
<1> QED BY <1>1, RecordAlways, PTL

-----------------------------------------------------------------------------
\* The file as an audit trail.

LEMMA ReadableStep ==
  ASSUME TypeOK, CallsOK, NEW c \in Calls, PlaceOrder(c) \/ Emergency(c) \/ Write(c) \/ Fails(c)
  PROVE  /\ \A i \in Readable : file'[i] = file[i] /\ i \in 1..Len(file)
         /\ \/ Readable' = Readable
            \/ /\ Readable' = Readable \cup {Len(file) + 1}
               /\ file'[Len(file) + 1] = row[c] /\ stage[c] = "file" /\ row' = row
<1>1. file \in Seq(Rows \cup {Torn, Junk}) /\ Len(file) \in Nat
  BY DEF TypeOK
<1>2. CASE file' = file
  BY <1>1, <1>2 DEF Readable
<1>3. CASE file' = Append(file, row[c]) /\ stage[c] = "file"
  <2>1. row[c] \in Rows /\ row' = row
    BY <1>3, Progress DEF TypeOK, CallsOK, CallOK
  <2>2. Readable' = Readable \cup {Len(file) + 1}
    <3>1. DOMAIN file' = (DOMAIN file) \cup {Len(file) + 1}
      BY <1>1, <1>3
    <3>2. \A i \in DOMAIN file : file'[i] = file[i]
      BY <1>1, <1>3
    <3>3. file'[Len(file) + 1] \in Rows
      BY <1>1, <1>3, <2>1
    <3> QED BY <3>1, <3>2, <3>3 DEF Readable
  <2> QED BY <1>1, <1>3, <2>1, <2>2 DEF Readable
<1>4. CASE file' = Append(file, Torn)
  <2>1. DOMAIN file' = (DOMAIN file) \cup {Len(file) + 1}
    BY <1>1, <1>4
  <2>2. \A i \in DOMAIN file : file'[i] = file[i]
    BY <1>1, <1>4
  <2>3. file'[Len(file) + 1] = Torn
    BY <1>1, <1>4
  <2> QED BY <1>1, <2>1, <2>2, <2>3, LinesDiffer DEF Readable
<1>5. CASE file' = [file EXCEPT ![Len(file)] = Junk] /\ OpenLine
  <2>1. Len(file) \in DOMAIN file /\ file[Len(file)] = Torn
    BY <1>1, <1>5 DEF OpenLine
  <2>2. /\ DOMAIN file' = DOMAIN file /\ file'[Len(file)] = Junk
        /\ \A i \in DOMAIN file : i # Len(file) => file'[i] = file[i]
    BY <1>1, <1>5, <2>1
  <2> QED BY <1>1, <2>1, <2>2, LinesDiffer DEF Readable
<1> QED BY <1>2, <1>3, <1>4, <1>5, FileSteps DEF FileStep

\* The records a reader finds in the file.
Records == {[call |-> file[i].call, status |-> file[i].status] : i \in Readable}

LEMMA RecordsStep ==
  ASSUME TypeOK, CallsOK, NEW c \in Calls, PlaceOrder(c) \/ Emergency(c) \/ Write(c) \/ Fails(c)
  PROVE  \/ Records' = Records
         \/ /\ Records' = Records \cup {[call |-> row[c].call, status |-> row[c].status]}
            /\ stage[c] = "file" /\ row' = row /\ taken' = taken
<1>1. \A i \in Readable : file'[i] = file[i]
  BY ReadableStep
<1>2. CASE Readable' = Readable
  BY <1>1, <1>2 DEF Records
<1>3. CASE /\ Readable' = Readable \cup {Len(file) + 1}
           /\ file'[Len(file) + 1] = row[c] /\ stage[c] = "file"
  <2>1. Records' = Records \cup {[call |-> row[c].call, status |-> row[c].status]}
    BY <1>1, <1>3 DEF Records
  <2> QED BY <1>3, <2>1, Progress
<1> QED BY <1>2, <1>3, ReadableStep

\* What has not come past the file has no record in it.
LEMMA NoRecordYet ==
  ASSUME TypeOK, FileOK, NEW c \in Calls, stage[c] \in {"new", "file"}
  PROVE  {r \in Records : r.call = c} = {}
<1>1. SUFFICES ASSUME NEW i \in Readable, file[i].call = c PROVE FALSE
  BY DEF Records
<1> QED BY <1>1 DEF FileOK, Readable

LEMMA TrailInit == Init => Trail!Init
<1> SUFFICES ASSUME Init PROVE Trail!Init
  OBVIOUS
<1>1. Readable = {} /\ taken = {}
  BY DEF Init, Readable
<1> QED BY <1>1 DEF Trail!Init

LEMMA TrailStep ==
  ASSUME RecordInv, RecordInv', NEW c \in Calls, PlaceOrder(c) \/ Emergency(c) \/ Write(c) \/ Fails(c)
  PROVE  Trail!Next \/ (Records' = Records /\ taken' = taken)
<1>1. TypeOK /\ CallsOK /\ FileOK
  BY DEF RecordInv, PlacesOK
<1>2. CASE stage[c] = "file" /\ row' = row /\ taken' = taken
           /\ Records' = Records \cup {[call |-> row[c].call, status |-> row[c].status]}
  <2>1. row[c].call = c /\ Truthful(c)
    BY <1>1, <1>2 DEF CallsOK, CallOK
  <2>2. Trail!RecordsOf(c) = {}
    BY <1>1, <1>2, NoRecordYet DEF Trail!RecordsOf, Records
  <2>3. Trail!Record(c)
    BY <1>2, <2>1, <2>2 DEF Trail!Record, Records, Truthful
  <2> QED BY <2>3 DEF Trail!Next
<1>3. CASE Records' = Records /\ taken' # taken
  <2>1. stage[c] = "new" /\ taken' = taken \cup {c}
    BY <1>3 DEF PlaceOrder, Emergency, Write, WriteFile, XAdd, LPush, LTrim,
                Fails, WriteFails, RedisFails, Crash, history
  <2>2. c \notin taken
    BY <1>1, <2>1 DEF CallsOK, CallOK
  <2>3. Trail!RecordsOf(c) = {}
    BY <1>1, <2>1, NoRecordYet DEF Trail!RecordsOf, Records
  <2>4. Trail!Take(c)
    BY <1>3, <2>1, <2>2, <2>3 DEF Trail!Take, Records
  <2> QED BY <2>4 DEF Trail!Next
<1> QED BY <1>1, <1>2, <1>3, RecordsStep

\* TrailImplemented: the file is an audit trail, whichever writes fail, tear a
\* line or are cut off by a crash: no record is taken back or changed, a call
\* has one at most, and one that says COMPLETE is of an order the broker took.
THEOREM TrailRefined == Spec => TrailImplemented
<1>1. RecordInv /\ RecordInv' /\ [Next]_vars => Trail!Next \/ (Records' = Records /\ taken' = taken)
  <2> SUFFICES ASSUME RecordInv, RecordInv', [Next]_vars
               PROVE  Trail!Next \/ (Records' = Records /\ taken' = taken)
    OBVIOUS
  <2>1. ASSUME UNCHANGED <<places, history>>
        PROVE  Records' = Records /\ taken' = taken
    BY <2>1 DEF places, history, Records, Readable
  <2> QED BY <2>1, TrailStep DEF Next, ReadStream, ReadList, ReadFile, Tick, vars
<1>2. RecordInv /\ RecordInv' /\ [Next]_vars
        => [Trail!Next]_<<taken, {[call |-> file[i].call, status |-> file[i].status] : i \in Readable}>>
  BY <1>1 DEF Records
<1> QED BY <1>2, TrailInit, RecordAlways, PTL DEF Spec, TrailImplemented, Trail!Spec

-----------------------------------------------------------------------------
\* Counting.

LEMMA Counted ==
  ASSUME NEW T, IsFiniteSet(T), NEW S \in SUBSET T
  PROVE  /\ IsFiniteSet(S) /\ Cardinality(S) \in Nat
         /\ Cardinality(S) <= Cardinality(T)
         /\ \A x : Cardinality(S \cup {x}) = IF x \in S THEN Cardinality(S) ELSE Cardinality(S) + 1
  BY FS_Subset, FS_AddElement, FS_CardinalityType

\* The calls that make the list too long.
Overlong == {c \in Calls : stage[c] = "trim"} \cup noRedis

LEMMA OverlongStep ==
  ASSUME TypeOK, CallsOK, NEW c \in Calls, PlaceOrder(c) \/ Emergency(c) \/ Write(c) \/ Fails(c),
         ~LTrim(c)
  PROVE  /\ Overlong \subseteq Overlong'
         /\ \/ recent' = recent
            \/ recent' = <<row[c]>> \o recent /\ c \in Overlong' /\ c \notin Overlong /\ row[c] \in Rows
<1>1. \A d \in Calls \ {c} : d \in Overlong <=> d \in Overlong'
  BY OneCall DEF Others, Overlong
<1>2. c \in Overlong => c \in Overlong'
  <2>1. c \notin noRedis
    BY Progress DEF CallsOK, CallOK
  <2>2. CASE Fails(c)
    BY <2>2 DEF Fails, WriteFails, RedisFails, Crash, Overlong
  <2>3. CASE stage[c] # "trim"
    BY <2>1, <2>3 DEF Overlong
  <2> QED BY <2>2, <2>3 DEF PlaceOrder, Emergency, Write, WriteFile, XAdd, LPush
<1>3. Overlong \subseteq Calls
  BY DEF Overlong, TypeOK
<1>4. \/ recent' = recent
      \/ recent' = <<row[c]>> \o recent /\ stage[c] = "list" /\ c \in Overlong'
  <2>1. CASE LPush(c)
    BY <2>1 DEF LPush, Reaches, Overlong, TypeOK
  <2>2. CASE RedisFails(c)
    BY <2>2 DEF RedisFails, Overlong
  <2> QED BY <2>1, <2>2 DEF PlaceOrder, Emergency, Write, Fails, WriteFile, XAdd, WriteFails, Crash, places
<1>5. stage[c] = "list" => c \notin Overlong /\ row[c] \in Rows
  BY DEF CallsOK, CallOK, Overlong, TypeOK
<1> QED BY <1>1, <1>2, <1>3, <1>4, <1>5

LEMMA ListBoundedStep ==
  ASSUME TypeOK, TypeOK', CallsOK, ListBounded,
         NEW c \in Calls, PlaceOrder(c) \/ Emergency(c) \/ Write(c) \/ Fails(c)
  PROVE  ListBounded'
<1>1. /\ Overlong \in SUBSET Calls /\ Overlong' \in SUBSET Calls /\ IsFiniteSet(Calls)
      /\ Len(recent) \in Nat /\ recent \in Seq(Rows) /\ MaxLen \in Nat
  BY OrderAuditAssumption DEF Overlong, TypeOK
<1>2. Cardinality(Overlong) \in Nat /\ Cardinality(Overlong') \in Nat /\ IsFiniteSet(Overlong')
  BY <1>1, Counted
<1>3. CASE LTrim(c)
  <2>1. PICK n \in 0..Len(recent) : recent' = SubSeq(recent, 1, n) /\ n <= MaxLen
    BY <1>1, <1>3 DEF LTrim
  <2>2. Len(recent') = n
    BY <1>1, <2>1, TrimShape
  <2> QED BY <1>1, <1>2, <2>1, <2>2 DEF ListBounded, Overlong
<1>4. CASE ~LTrim(c)
  <2>1. Overlong \in SUBSET Overlong'
    BY <1>4, OverlongStep
  <2>2. Cardinality(Overlong) <= Cardinality(Overlong')
    BY <1>2, <2>1, Counted
  <2>3. Len(recent) <= MaxLen + Cardinality(Overlong)
    BY DEF ListBounded, Overlong
  <2>4. CASE recent' = recent
    BY <1>1, <1>2, <2>2, <2>3, <2>4 DEF ListBounded, Overlong
  <2>5. CASE recent' = <<row[c]>> \o recent /\ c \in Overlong' /\ c \notin Overlong /\ row[c] \in Rows
    <3>1. Len(recent') = Len(recent) + 1
      BY <1>1, <2>5, PushShape
    <3>2. Overlong \cup {c} \in SUBSET Overlong'
      BY <2>1, <2>5
    <3>3. Cardinality(Overlong \cup {c}) <= Cardinality(Overlong')
      BY <1>2, <3>2, Counted
    <3>4. Cardinality(Overlong \cup {c}) = Cardinality(Overlong) + 1
      BY <1>1, <2>5, Counted
    <3> QED BY <1>1, <1>2, <2>3, <3>1, <3>3, <3>4 DEF ListBounded, Overlong
  <2> QED BY <1>4, <2>4, <2>5, OverlongStep
<1> QED BY <1>3, <1>4

\* ListBounded: between LPUSH and LTRIM the list is too long by one entry for
\* each call there, and stays so for those that never trimmed it; the next LTRIM
\* of any call makes up for all of them.
THEOREM ListBoundedAlways == Spec => []ListBounded
<1>1. Init => ListBounded
  <2> SUFFICES ASSUME Init PROVE ListBounded
    OBVIOUS
  <2>1. Overlong \in SUBSET Calls /\ Len(recent) = 0
    BY DEF Init, Overlong
  <2>2. Cardinality(Overlong) \in Nat
    BY <2>1, Counted, OrderAuditAssumption
  <2> QED BY <2>1, <2>2, OrderAuditAssumption DEF ListBounded, Overlong
<1>2. RecordInv /\ RecordInv' /\ ListBounded /\ [Next]_vars => ListBounded'
  <2> SUFFICES ASSUME RecordInv, RecordInv', ListBounded, [Next]_vars PROVE ListBounded'
    OBVIOUS
  <2>1. ASSUME UNCHANGED <<stage, places, history>>
        PROVE  ListBounded'
    BY <2>1 DEF places, history, ListBounded
  <2> QED BY <2>1, ListBoundedStep DEF Next, ReadStream, ReadList, ReadFile, Tick, vars, RecordInv
<1> QED BY <1>1, <1>2, RecordAlways, PTL DEF Spec

\* The calls whose record a torn line has swallowed, and the lines lost.
Swallowed == {c \in Calls : Written(c) /\ ~InFile(c)}
JunkLines == {i \in DOMAIN file : file[i] = Junk}
LostLines == {i \in DOMAIN file : file[i] \in {Torn, Junk}}

LEMMA SwallowedStep ==
  ASSUME TypeOK, CallsOK, FileOK, NEW c \in Calls,
         PlaceOrder(c) \/ Emergency(c) \/ Write(c) \/ Fails(c)
  PROVE  /\ Swallowed' \subseteq Swallowed \cup {c}
         /\ c \in Swallowed' /\ c \notin Swallowed =>
              file' = [file EXCEPT ![Len(file)] = Junk] /\ OpenLine /\ stage[c] = "file"
<1>1. ASSUME NEW d \in Calls, row'[d] = row[d], row[d] # NoRow, InFile(d)
      PROVE  InFile(d)'
  <2>1. PICK i \in DOMAIN file : file[i] = row[d]
    BY <1>1 DEF InFile
  <2>2. i \in Readable
    BY <1>1, <2>1 DEF Readable, TypeOK
  <2>3. i \in Readable' /\ file'[i] = row[d]
    BY <2>1, <2>2, ReadableStep
  <2> QED BY <1>1, <2>3 DEF InFile, Readable
<1>2. ASSUME NEW d \in Calls \ {c}, d \in Swallowed'
      PROVE  d \in Swallowed
  <2>1. Others(c)
    BY OneCall
  <2>2. Written(d) /\ row'[d] = row[d] /\ row[d] # NoRow /\ ~InFile(d)'
    BY <1>2, <2>1 DEF Swallowed, Written, Others
  <2> QED BY <1>1, <2>2 DEF Swallowed
<1>3. ASSUME c \in Swallowed', c \notin Swallowed
      PROVE  file' = [file EXCEPT ![Len(file)] = Junk] /\ OpenLine /\ stage[c] = "file"
  <2>1. row'[c] # NoRow /\ stage'[c] # "file" /\ c \notin noFile' /\ ~InFile(c)'
    BY <1>3 DEF Swallowed, Written
  <2>2. stage[c] # "new"
    <3>1. ~PlaceOrder(c)
      BY <2>1 DEF PlaceOrder, TypeOK
    <3>2. ~Emergency(c)
      BY <2>1 DEF Emergency, TypeOK
    <3>3. stage[c] = "new" => Crash(c)
      BY <3>1, <3>2 DEF Write, WriteFile, XAdd, LPush, LTrim, Fails, WriteFails, RedisFails
    <3>4. stage[c] = "new" => c \in noFile'
      BY <3>3 DEF Crash
    <3> QED BY <2>1, <3>4
  <2>3. row' = row
    BY <2>2, Progress
  <2>4. stage[c] = "file"
    <3>1. SUFFICES ASSUME stage[c] # "file" PROVE FALSE
      OBVIOUS
    <3>2. c \notin noFile
      BY Progress DEF CallsOK, CallOK
    <3>3. Written(c) /\ ~InFile(c)
      BY <1>1, <2>1, <2>3, <3>1, <3>2 DEF Written
    <3> QED BY <1>3, <3>3 DEF Swallowed
  <2>5. WriteFile(c)
    BY <2>1, <2>4 DEF PlaceOrder, Emergency, Write, XAdd, LPush, LTrim, Fails, WriteFails, RedisFails, Crash
  <2>6. CASE OpenLine
    BY <2>4, <2>5, <2>6 DEF WriteFile
  <2>7. CASE ~OpenLine
    <3>1. file' = Append(file, row[c])
      BY <2>5, <2>7 DEF WriteFile
    <3>2. file'[Len(file) + 1] = row[c] /\ Len(file) + 1 \in DOMAIN file'
      BY <3>1 DEF TypeOK
    <3> QED BY <2>1, <2>3, <3>2 DEF InFile
  <2> QED BY <2>6, <2>7
<1>4. Swallowed' \subseteq Calls
  BY DEF Swallowed
<1> QED BY <1>2, <1>3, <1>4

\* The lines lost, one by one.
LEMMA LostLinesStep ==
  ASSUME TypeOK, CallsOK, NEW c \in Calls,
         PlaceOrder(c) \/ Emergency(c) \/ Write(c) \/ Fails(c)
  PROVE  /\ JunkLines \subseteq JunkLines'
         /\ noFile \subseteq noFile'
         /\ file' = [file EXCEPT ![Len(file)] = Junk] /\ OpenLine =>
              /\ JunkLines' = JunkLines \cup {Len(file)} /\ Len(file) \notin JunkLines
              /\ LostLines' = LostLines
         /\ \/ LostLines' = LostLines
            \/ /\ LostLines' = LostLines \cup {Len(file) + 1} /\ Len(file) + 1 \notin LostLines
               /\ c \in noFile' /\ c \notin noFile
<1>1. file \in Seq(Rows \cup {Torn, Junk}) /\ Len(file) \in Nat
  BY DEF TypeOK
<1>2. noFile \subseteq noFile' /\ (stage[c] = "file" => c \notin noFile)
  BY DEF CallsOK, CallOK, PlaceOrder, Emergency, Write, WriteFile, XAdd, LPush, LTrim, history,
         Fails, WriteFails, RedisFails, Crash
<1>3. CASE file' = file
  BY <1>1, <1>2, <1>3, LinesDiffer DEF JunkLines, LostLines, OpenLine
<1>4. CASE file' = Append(file, row[c]) /\ ~OpenLine /\ stage[c] = "file"
  <2>1. row[c] \in Rows
    BY <1>4 DEF TypeOK, CallsOK, CallOK
  <2>2. DOMAIN file' = (DOMAIN file) \cup {Len(file) + 1} /\ file'[Len(file) + 1] = row[c]
    BY <1>1, <1>4
  <2>3. \A i \in DOMAIN file : file'[i] = file[i]
    BY <1>1, <1>4
  <2> QED BY <1>1, <1>2, <1>4, <2>1, <2>2, <2>3, LinesDiffer DEF JunkLines, LostLines
<1>5. CASE file' = Append(file, Torn) /\ ~OpenLine /\ stage[c] = "file" /\ stage'[c] = "done"
  <2>1. DOMAIN file' = (DOMAIN file) \cup {Len(file) + 1} /\ file'[Len(file) + 1] = Torn
    BY <1>1, <1>5
  <2>2. \A i \in DOMAIN file : file'[i] = file[i] /\ i # Len(file) + 1
    BY <1>1, <1>5
  <2>3. WriteFails(c)
    BY <1>5 DEF PlaceOrder, Emergency, Write, WriteFile, XAdd, LPush, LTrim, Reaches, TypeOK,
                Fails, RedisFails, Crash
  <2>4. c \in noFile' /\ c \notin noFile
    BY <1>2, <1>5, <2>3 DEF WriteFails
  <2> QED BY <1>2, <1>5, <2>1, <2>2, <2>4, LinesDiffer DEF JunkLines, LostLines
<1>6. CASE file' = [file EXCEPT ![Len(file)] = Junk] /\ OpenLine
  <2>1. Len(file) \in DOMAIN file /\ file[Len(file)] = Torn
    BY <1>1, <1>6 DEF OpenLine
  <2>2. /\ DOMAIN file' = DOMAIN file /\ file'[Len(file)] = Junk
        /\ \A i \in DOMAIN file : i # Len(file) => file'[i] = file[i]
    BY <1>1, <1>6, <2>1
  <2> QED BY <1>2, <2>1, <2>2, LinesDiffer DEF JunkLines, LostLines
<1> QED BY <1>3, <1>4, <1>5, <1>6, FileSteps DEF FileStep

\* TrailKept, with the torn lines that have swallowed nothing yet: each may
\* become a line of junk, and each write that failed has left one at most.
LinesInv ==
  /\ Cardinality(Swallowed) <= Cardinality(JunkLines)
  /\ Cardinality(LostLines) <= Cardinality(noFile)

LEMMA LinesFinite ==
  ASSUME TypeOK
  PROVE  /\ Swallowed \in SUBSET Calls /\ noFile \in SUBSET Calls /\ IsFiniteSet(Calls)
         /\ JunkLines \in SUBSET LostLines /\ IsFiniteSet(LostLines)
         /\ IsFiniteSet(Swallowed) /\ IsFiniteSet(JunkLines) /\ IsFiniteSet(noFile)
<1>1. Swallowed \in SUBSET Calls /\ noFile \in SUBSET Calls /\ IsFiniteSet(Calls)
  BY OrderAuditAssumption DEF Swallowed, TypeOK
<1>2. LostLines \in SUBSET (1..Len(file)) /\ IsFiniteSet(1..Len(file))
  <2>1. Len(file) \in Nat /\ DOMAIN file = 1..Len(file)
    BY DEF TypeOK
  <2>2. IsFiniteSet(1..Len(file))
    BY <2>1, FS_Interval
  <2> QED BY <2>1, <2>2 DEF LostLines
<1>3. JunkLines \in SUBSET LostLines
  BY DEF JunkLines, LostLines
<1>4. IsFiniteSet(LostLines)
  BY <1>2, FS_Subset
<1> QED BY <1>1, <1>3, <1>4, FS_Subset

LEMMA LinesStep ==
  ASSUME RecordInv, RecordInv', LinesInv, NEW c \in Calls,
         PlaceOrder(c) \/ Emergency(c) \/ Write(c) \/ Fails(c)
  PROVE  LinesInv'
<1>1. TypeOK /\ TypeOK' /\ CallsOK /\ FileOK
  BY DEF RecordInv, PlacesOK
<1>2. /\ IsFiniteSet(Swallowed) /\ IsFiniteSet(JunkLines) /\ IsFiniteSet(noFile) /\ IsFiniteSet(LostLines)
      /\ IsFiniteSet(Swallowed') /\ IsFiniteSet(JunkLines') /\ IsFiniteSet(noFile')
  <2>1. ASSUME TypeOK'
        PROVE  IsFiniteSet(Swallowed') /\ IsFiniteSet(JunkLines') /\ IsFiniteSet(noFile')
    <3>1. (TypeOK => IsFiniteSet(Swallowed) /\ IsFiniteSet(JunkLines) /\ IsFiniteSet(noFile))'
      BY LinesFinite, PTL
    <3> QED BY <2>1, <3>1
  <2> QED BY <1>1, <2>1, LinesFinite
<1>3. /\ Cardinality(Swallowed) \in Nat /\ Cardinality(JunkLines) \in Nat
      /\ Cardinality(noFile) \in Nat /\ Cardinality(LostLines) \in Nat
      /\ Cardinality(Swallowed') \in Nat /\ Cardinality(JunkLines') \in Nat
      /\ Cardinality(noFile') \in Nat
  BY <1>2, FS_CardinalityType
<1>4. Cardinality(JunkLines) <= Cardinality(JunkLines') /\ Cardinality(noFile) <= Cardinality(noFile')
  BY <1>1, <1>2, LostLinesStep, FS_Subset
<1>5. Cardinality(Swallowed') <= Cardinality(JunkLines')
  <2>1. CASE c \in Swallowed' /\ c \notin Swallowed
    <3>1. Swallowed' \in SUBSET (Swallowed \cup {c}) /\ IsFiniteSet(Swallowed \cup {c})
      BY <1>1, <1>2, SwallowedStep, FS_AddElement
    <3>2. Cardinality(Swallowed') <= Cardinality(Swallowed) + 1
      BY <1>2, <2>1, <3>1, FS_Subset, FS_AddElement
    <3>3. JunkLines' = JunkLines \cup {Len(file)} /\ Len(file) \notin JunkLines
      BY <1>1, <2>1, SwallowedStep, LostLinesStep
    <3>4. Cardinality(JunkLines') = Cardinality(JunkLines) + 1
      BY <1>2, <3>3, FS_AddElement
    <3> QED BY <1>3, <3>2, <3>4 DEF LinesInv
  <2>2. CASE ~ (c \in Swallowed' /\ c \notin Swallowed)
    <3>1. Swallowed' \in SUBSET Swallowed
      BY <1>1, <2>2, SwallowedStep
    <3>2. Cardinality(Swallowed') <= Cardinality(Swallowed)
      BY <1>2, <3>1, FS_Subset
    <3> QED BY <1>3, <1>4, <3>2 DEF LinesInv
  <2> QED BY <2>1, <2>2
<1>6. Cardinality(LostLines') <= Cardinality(noFile')
  <2>1. CASE LostLines' = LostLines
    BY <1>3, <1>4, <2>1 DEF LinesInv
  <2>2. CASE /\ LostLines' = LostLines \cup {Len(file) + 1} /\ Len(file) + 1 \notin LostLines
             /\ c \in noFile' /\ c \notin noFile
    <3>1. Cardinality(LostLines') = Cardinality(LostLines) + 1
      BY <1>2, <2>2, FS_AddElement
    <3>2. noFile \cup {c} \in SUBSET noFile'
      BY <1>1, <2>2, LostLinesStep
    <3>3. Cardinality(noFile \cup {c}) = Cardinality(noFile) + 1
      BY <1>2, <2>2, FS_AddElement
    <3>4. Cardinality(noFile) + 1 <= Cardinality(noFile')
      BY <1>2, <3>2, <3>3, FS_Subset
    <3> QED BY <1>3, <3>1, <3>4 DEF LinesInv
  <2> QED BY <1>1, <2>1, <2>2, LostLinesStep
<1> QED BY <1>5, <1>6 DEF LinesInv

\* TrailKept: what was written to the file can be read back, and a write that
\* failed half-way costs one other record at most, the one appended to its line.
THEOREM TrailKeptAlways == Spec => []TrailKept
<1>1. Init => LinesInv
  <2> SUFFICES ASSUME Init PROVE LinesInv
    OBVIOUS
  <2>1. Swallowed = {} /\ JunkLines = {} /\ LostLines = {} /\ noFile = {}
    BY DEF Init, Swallowed, Written, JunkLines, LostLines
  <2> QED BY <2>1, FS_EmptySet DEF LinesInv
<1>2. RecordInv /\ RecordInv' /\ LinesInv /\ [Next]_vars => LinesInv'
  <2> SUFFICES ASSUME RecordInv, RecordInv', LinesInv, [Next]_vars PROVE LinesInv'
    OBVIOUS
  <2>1. ASSUME UNCHANGED <<stage, row, places, history>>
        PROVE  LinesInv'
    BY <2>1 DEF places, history, LinesInv, Swallowed, Written, InFile, JunkLines, LostLines
  <2> QED BY <2>1, LinesStep DEF Next, ReadStream, ReadList, ReadFile, Tick, vars
<1>3. RecordInv /\ LinesInv => TrailKept
  <2> SUFFICES ASSUME RecordInv, LinesInv PROVE TrailKept
    OBVIOUS
  <2>1. JunkLines \in SUBSET LostLines /\ IsFiniteSet(LostLines) /\ IsFiniteSet(JunkLines) /\ IsFiniteSet(noFile)
    BY LinesFinite DEF RecordInv
  <2>2. Cardinality(JunkLines) <= Cardinality(LostLines)
    BY <2>1, FS_Subset
  <2>3. Cardinality(JunkLines) \in Nat /\ Cardinality(LostLines) \in Nat /\ Cardinality(noFile) \in Nat
    BY <2>1, FS_CardinalityType
  <2>4. Cardinality(JunkLines) <= Cardinality(noFile)
    BY <2>2, <2>3 DEF LinesInv
  <2> QED BY <2>4 DEF TrailKept, LinesInv, Swallowed, JunkLines
<1> QED BY <1>1, <1>2, <1>3, RecordAlways, PTL DEF Spec

-----------------------------------------------------------------------------
\* The first and the last of a set of positions.  Every set of natural numbers
\* that is not empty has a least element, by the library's finite sets.
LEMMA LeastElement ==
  ASSUME NEW T \in SUBSET Nat, T # {}
  PROVE  \E m \in T : \A k \in T : m <= k
<1> DEFINE R == StrictSubsetOrdering(Nat)
           S == FiniteSubsetsOf(Nat)
           U == {0..n : n \in T}
<1>1. IsWellFoundedOn(R, S)
  BY FS_StrictSubsetOrderingWellFounded
<1>2. U \subseteq S /\ U # {}
  <2>1. \A n \in T : IsFiniteSet(0..n) /\ 0..n \subseteq Nat
    BY FS_Interval
  <2> QED BY <2>1 DEF FiniteSubsetsOf
<1>3. ASSUME NEW x \in Nat, NEW y \in Nat, x < y
      PROVE  <<0..x, 0..y>> \in R
  <2>1. 0..x \subseteq 0..y /\ y \in 0..y /\ y \notin 0..x
    BY <1>3
  <2>2. 0..x \subseteq Nat /\ 0..y \subseteq Nat
    OBVIOUS
  <2> QED BY <2>1, <2>2, Zenon DEF StrictSubsetOrdering
<1> HIDE DEF R, S
<1>4. PICK M \in U : \A y \in U : ~ (<<y, M>> \in R)
  <2> HIDE DEF U
  <2> QED BY <1>1, <1>2, WFMin
<1>5. PICK m \in T : M = 0..m
  OBVIOUS
<1>6. ASSUME NEW k \in T, k < m
      PROVE  FALSE
  <2>1. k \in Nat /\ m \in Nat
    OBVIOUS
  <2>2. <<0..k, 0..m>> \in R
    BY <1>3, <1>6, <2>1
  <2>3. 0..k \in U
    OBVIOUS
  <2> QED BY <1>4, <1>5, <2>2, <2>3
<1>7. \A k \in T : k \in Nat /\ m \in Nat
  OBVIOUS
<1> QED BY <1>6, <1>7

LEMMA LastPosition ==
  ASSUME NEW n \in Nat, NEW T \in SUBSET (1..n), T # {}
  PROVE  \E m \in T : \A k \in T : k <= m
<1> DEFINE U == {n - k : k \in T}
<1>1. U \in SUBSET Nat /\ U # {}
  <2>1. \A k \in T : n - k \in Nat
    OBVIOUS
  <2>2. U \in SUBSET Nat
    BY <2>1
  <2>3. U # {}
    OBVIOUS
  <2> QED BY <2>2, <2>3
<1>2. PICK l \in U : \A u \in U : l <= u
  <2> HIDE DEF U
  <2> QED BY <1>1, LeastElement
<1>3. PICK m \in T : l = n - m
  OBVIOUS
<1>4. ASSUME NEW k \in T PROVE k <= m
  <2>1. n - m <= n - k
    BY <1>2, <1>3
  <2>2. k \in 1..n /\ m \in 1..n
    OBVIOUS
  <2> QED BY <2>1, <2>2
<1> QED BY <1>4

\* What the reads find: no id of a window is left out.
LEMMA StreamIds ==
  ASSUME stream \in Seq(Rows), NEW i \in Newest(stream)
  PROVE  stream[i].id \in IdsOf(StreamRows)
<1> DEFINE T == {j \in Newest(stream) : stream[j].id = stream[i].id}
<1>1. T \in SUBSET (1..Len(stream)) /\ T # {} /\ Len(stream) \in Nat
  BY DEF Newest
<1>2. PICK m \in T : \A k \in T : k <= m
  <2> HIDE DEF T
  <2> QED BY <1>1, LastPosition
<1>3. m \in Newest(stream) /\ stream[m].id = stream[i].id
  OBVIOUS
<1>4. ASSUME NEW j \in Newest(stream), j > m PROVE stream[j].id # stream[m].id
  <2>1. SUFFICES ASSUME stream[j].id = stream[m].id PROVE FALSE
    OBVIOUS
  <2>2. j \in T
    BY <1>3, <2>1
  <2>3. j \in 1..Len(stream) /\ m \in 1..Len(stream)
    BY DEF Newest
  <2> QED BY <1>1, <1>2, <1>4, <2>2, <2>3
<1>5. Parse(stream[m]) \in StreamRows
  BY <1>3, <1>4 DEF StreamRows
<1>6. stream[m] \in Rows
  BY <1>3 DEF Newest
<1>7. Parse(stream[m]) = stream[m]
  BY <1>6, ParseRow
<1> QED BY <1>3, <1>5, <1>7 DEF IdsOf

LEMMA ListIds ==
  ASSUME recent \in Seq(Rows), NEW k \in Nat, NEW i \in DOMAIN recent, i <= k
  PROVE  recent[i].id \in IdsOf(ListRows(k, {}))
<1> DEFINE T == {j \in DOMAIN recent : recent[j].id = recent[i].id}
<1>1. T \in SUBSET Nat /\ T # {} /\ DOMAIN recent = 1..Len(recent) /\ Len(recent) \in Nat
  OBVIOUS
<1>2. PICK m \in T : \A j \in T : m <= j
  <2> HIDE DEF T
  <2> QED BY <1>1, LeastElement
<1>3. m \in DOMAIN recent /\ recent[m].id = recent[i].id /\ m <= i
  <2>1. i \in T
    OBVIOUS
  <2>2. m \in DOMAIN recent /\ recent[m].id = recent[i].id
    OBVIOUS
  <2> HIDE DEF T
  <2> QED BY <1>2, <2>1, <2>2
<1>4. ASSUME NEW j \in 1..(m - 1) PROVE recent[j].id # recent[m].id
  <2>1. j \in DOMAIN recent /\ j < m
    BY <1>1, <1>3
  <2>2. j \in Nat /\ m \in Nat
    BY <1>1, <1>3, <2>1
  <2> QED BY <1>2, <1>3, <2>1, <2>2
<1>5. Parse(recent[m]) \in ListRows(k, {})
  <2>1. m <= k
    BY <1>1, <1>3
  <2> QED BY <1>3, <1>4, <2>1 DEF ListRows
<1>6. recent[m] \in Rows
  BY <1>3
<1>7. Parse(recent[m]) = recent[m]
  BY <1>6, ParseRow
<1> QED BY <1>3, <1>5, <1>7 DEF IdsOf

LEMMA FileIds ==
  ASSUME NEW i \in Readable, Cardinality({j \in Readable : j > i}) < Limit
  PROVE  file[i].id \in IdsOf(FileRows)
<1>1. Parse(file[i]) \in FileRows
  BY DEF FileRows
<1>2. Parse(file[i]) = file[i]
  BY ParseRow DEF Readable
<1> QED BY <1>1, <1>2 DEF IdsOf

LEMMA NoIds == IdsOf({}) = {}
  BY DEF IdsOf

LEMMA IdsGrow ==
  ASSUME NEW S, NEW T, S \subseteq T
  PROVE  IdsOf(S) \subseteq IdsOf(T)
  BY DEF IdsOf

-----------------------------------------------------------------------------
\* What a page shows.

\* A record that reached the stream, or the list, is still there unless as many
\* newer ones as it holds have come.
InStream(c) == (\E i \in DOMAIN stream : stream[i].call = c) \/ Len(stream) >= MaxLen
InList(c) == (\E i \in DOMAIN recent : recent[i].call = c) \/ Len(recent) >= MaxLen

Kept(c) ==
  row[c] # NoRow /\ c \notin noRedis =>
    /\ stage[c] \in {"list", "trim", "done"} => InStream(c)
    /\ stage[c] \in {"trim", "done"} => InList(c)

\* A page that has read the stream lacks no record it had to find there.
PageInv(p) ==
  /\ \A c \in read[p].before : stage[c] = "done" /\ row[c] # NoRow
  /\ read[p].stage = "list" =>
       \/ read[p].rows = {}
       \/ \A c \in read[p].before :
            c \in noRedis \/ PastStream(c) \/ row[c].id \in IdsOf(read[p].rows)

PagesInv == (\A c \in Calls : Kept(c)) /\ (\A p \in Pages : PageInv(p)) /\ ReadsBack

LEMMA PagesInit == Init => PagesInv
<1> SUFFICES ASSUME Init PROVE PagesInv
  OBVIOUS
<1>1. \A p \in Pages : read[p] = Blank
  BY DEF Init
<1> QED BY <1>1 DEF Init, PagesInv, Kept, PageInv, ReadsBack, Blank

\* An entry more in the stream: what was kept is kept, what is past stays past.
LEMMA StreamMoves ==
  ASSUME TypeOK, CallsOK, NEW c \in Calls,
         PlaceOrder(c) \/ Emergency(c) \/ Write(c) \/ Fails(c), NEW d \in Calls
  PROVE  /\ InStream(d) => InStream(d)'
         /\ d # c /\ PastStream(d) => PastStream(d)'
         /\ XAdd(c) => InStream(c)'
<1>1. stream \in Seq(Rows) /\ Len(stream) \in Nat /\ MaxLen \in Nat /\ Limit \in Nat /\ Limit <= MaxLen
  BY OrderAuditAssumption DEF TypeOK
<1>2. CASE stream' \in Added(c) /\ stage[c] = "stream"
  <2>1. row[c] \in Rows /\ row[c].call = c
    BY <1>2 DEF TypeOK, CallsOK, CallOK
  <2>2. PICK k \in 1..(Len(stream) + 1) :
          /\ stream' \in Seq(Rows) /\ Len(stream') = k /\ (k = Len(stream) + 1 \/ k >= MaxLen)
          /\ \A i \in 1..k : stream'[i] = IF i = k THEN row[c] ELSE stream[Len(stream) + 1 - k + i]
    BY <1>1, <1>2, <2>1, AddedShape
  <2>3. k \in DOMAIN stream' /\ stream'[k].call = c /\ DOMAIN stream' = 1..k
    BY <2>1, <2>2
  <2>4. InStream(c)'
    BY <2>3 DEF InStream
  <2>5. ASSUME InStream(d) PROVE InStream(d)'
    <3>1. CASE k >= MaxLen
      BY <2>2, <3>1 DEF InStream
    <3>2. CASE k = Len(stream) + 1 /\ Len(stream) >= MaxLen
      BY <1>1, <2>2, <3>2 DEF InStream
    <3>3. CASE k = Len(stream) + 1 /\ \E i \in DOMAIN stream : stream[i].call = d
      <4>1. PICK i \in DOMAIN stream : stream[i].call = d
        BY <3>3
      <4>2. i \in 1..k /\ i # k /\ Len(stream) + 1 - k + i = i
        BY <1>1, <3>3, <4>1
      <4>3. i \in DOMAIN stream' /\ stream'[i] = stream[i]
        BY <2>2, <2>3, <4>2
      <4> QED BY <4>1, <4>3 DEF InStream
    <3> QED BY <2>2, <2>5, <3>1, <3>2, <3>3 DEF InStream
  <2>6. ASSUME d # c, PastStream(d) PROVE PastStream(d)'
    <3>1. k >= Limit
      BY <1>1, <2>2, <2>6 DEF PastStream
    <3>2. ASSUME NEW i \in DOMAIN stream', stream'[i].call = d
          PROVE  i <= k - Limit
      <4>1. i \in 1..k /\ i # k
        BY <2>3, <2>6, <3>2
      <4>2. Len(stream) + 1 - k + i \in DOMAIN stream
        BY <1>1, <2>2, <4>1
      <4>3. stream[Len(stream) + 1 - k + i].call = d
        BY <2>2, <3>2, <4>1
      <4>4. Len(stream) + 1 - k + i <= Len(stream) - Limit
        BY <2>6, <4>2, <4>3 DEF PastStream
      <4> QED BY <1>1, <2>2, <4>1, <4>4
    <3> QED BY <2>2, <3>1, <3>2 DEF PastStream
  <2> QED BY <2>4, <2>5, <2>6
<1>3. CASE stream' = stream /\ ~XAdd(c)
  BY <1>3 DEF InStream, PastStream
<1> QED BY <1>2, <1>3, RedisSteps DEF XAdd

\* The same for the list, which is pushed at its head and trimmed at its end.
LEMMA ListMoves ==
  ASSUME TypeOK, CallsOK, NEW c \in Calls,
         PlaceOrder(c) \/ Emergency(c) \/ Write(c) \/ Fails(c), NEW d \in Calls
  PROVE  /\ InList(d) => InList(d)'
         /\ d # c /\ PastList(d) => PastList(d)'
         /\ LPush(c) => InList(c)'
<1>1. recent \in Seq(Rows) /\ Len(recent) \in Nat /\ MaxLen \in Nat /\ Limit \in Nat /\ Limit <= MaxLen
      /\ DOMAIN recent = 1..Len(recent)
  BY OrderAuditAssumption DEF TypeOK
<1>2. CASE recent' = <<row[c]>> \o recent /\ stage[c] = "list"
  <2>1. row[c] \in Rows /\ row[c].call = c
    BY <1>2 DEF TypeOK, CallsOK, CallOK
  <2>2. /\ Len(recent') = Len(recent) + 1 /\ recent' \in Seq(Rows)
        /\ \A i \in 1..(Len(recent) + 1) : recent'[i] = IF i = 1 THEN row[c] ELSE recent[i - 1]
    BY <1>1, <1>2, <2>1, PushShape
  <2>3. 1 \in DOMAIN recent' /\ recent'[1].call = c /\ DOMAIN recent' = 1..(Len(recent) + 1)
    BY <1>1, <2>1, <2>2
  <2>4. InList(c)'
    BY <2>3 DEF InList
  <2>5. ASSUME InList(d) PROVE InList(d)'
    <3>1. CASE Len(recent) >= MaxLen
      BY <1>1, <2>2, <3>1 DEF InList
    <3>2. CASE \E i \in DOMAIN recent : recent[i].call = d
      <4>1. PICK i \in DOMAIN recent : recent[i].call = d
        BY <3>2
      <4>2. i + 1 \in 1..(Len(recent) + 1) /\ i + 1 # 1 /\ (i + 1) - 1 = i
        BY <1>1, <4>1
      <4>3. i + 1 \in DOMAIN recent' /\ recent'[i + 1] = recent[i]
        BY <2>2, <2>3, <4>2
      <4> QED BY <4>1, <4>3 DEF InList
    <3> QED BY <2>5, <3>1, <3>2 DEF InList
  <2>6. ASSUME d # c, PastList(d) PROVE PastList(d)'
    <3>1. ASSUME NEW i \in DOMAIN recent', recent'[i].call = d
          PROVE  i > Limit
      <4>1. i \in 1..(Len(recent) + 1) /\ i # 1
        BY <2>3, <2>6, <3>1
      <4>2. i - 1 \in DOMAIN recent /\ recent[i - 1].call = d
        BY <1>1, <2>2, <3>1, <4>1
      <4>3. i - 1 > Limit
        BY <2>6, <4>2 DEF PastList
      <4> QED BY <1>1, <4>1, <4>3
    <3> QED BY <1>1, <2>2, <2>6, <3>1 DEF PastList
  <2> QED BY <2>4, <2>5, <2>6
<1>3. CASE recent' = SubSeq(recent, 1, IF Len(recent) > MaxLen THEN MaxLen ELSE Len(recent)) /\ ~LPush(c)
  <2>1. PICK n \in Nat : /\ recent' = SubSeq(recent, 1, n) /\ n \in 0..Len(recent)
                         /\ n = Len(recent) \/ n = MaxLen
                         /\ n >= MaxLen \/ n = Len(recent)
    <3>1. CASE Len(recent) > MaxLen
      <4>1. recent' = SubSeq(recent, 1, MaxLen)
        BY <1>3, <3>1
      <4>2. MaxLen \in Nat /\ MaxLen \in 0..Len(recent)
        BY <1>1, <3>1
      <4>3. MaxLen >= MaxLen
        BY <1>1
      <4> QED BY <4>1, <4>2, <4>3
    <3>2. CASE ~(Len(recent) > MaxLen)
      <4>1. recent' = SubSeq(recent, 1, Len(recent))
        BY <1>3, <3>2
      <4>2. Len(recent) \in Nat /\ Len(recent) \in 0..Len(recent)
        BY <1>1
      <4>3. Len(recent) >= Len(recent)
        BY <1>1
      <4> QED BY <4>1, <4>2
    <3> QED BY <3>1, <3>2
  <2>2. recent' \in Seq(Rows) /\ Len(recent') = n /\ \A i \in 1..n : recent'[i] = recent[i]
    BY <1>1, <2>1, TrimShape
  <2>3. DOMAIN recent' = 1..n /\ DOMAIN recent' \subseteq DOMAIN recent
    <3>1. DOMAIN recent' = 1..n
      BY <2>2
    <3>2. n \in Nat /\ n <= Len(recent)
      <4>1. n \in 0..Len(recent) /\ Len(recent) \in Nat
        BY <1>1, <2>1, Zenon
      <4> QED BY <4>1
    <3>3. 1..n \subseteq 1..Len(recent)
      BY <1>1, <3>2
    <3> QED BY <1>1, <3>1, <3>3
  <2>4. ASSUME InList(d) PROVE InList(d)'
    <3>1. CASE n >= MaxLen
      BY <2>2, <3>1 DEF InList
    <3>2. CASE n = Len(recent)
      <4>1. DOMAIN recent' = DOMAIN recent /\ \A i \in DOMAIN recent : recent'[i] = recent[i]
        BY <1>1, <2>2, <2>3, <3>2
      <4> QED BY <2>2, <2>4, <3>2, <4>1 DEF InList
    <3> QED BY <2>1, <3>1, <3>2
  <2>5. ASSUME PastList(d) PROVE PastList(d)'
    <3>1. n >= Limit
      <4>1. Len(recent) >= Limit
        BY <2>5 DEF PastList
      <4> QED BY <1>1, <2>1, <4>1
    <3>2. \A i \in DOMAIN recent' : recent'[i].call = d => i > Limit
      BY <2>2, <2>3, <2>5 DEF PastList
    <3> QED BY <2>2, <3>1, <3>2 DEF PastList
  <2> QED BY <1>3, <2>4, <2>5
<1>4. CASE recent' = recent /\ ~LPush(c)
  BY <1>4 DEF InList, PastList
<1> QED BY <1>2, <1>3, <1>4, RedisSteps DEF LPush

\* And for the file.
LEMMA FileMoves ==
  ASSUME TypeOK, CallsOK, NEW c \in Calls,
         PlaceOrder(c) \/ Emergency(c) \/ Write(c) \/ Fails(c), NEW d \in Calls, d # c, PastFile(d)
  PROVE  PastFile(d)'
<1>1. /\ \A i \in Readable : file'[i] = file[i] /\ i \in 1..Len(file)
      /\ \/ Readable' = Readable
         \/ /\ Readable' = Readable \cup {Len(file) + 1}
            /\ file'[Len(file) + 1] = row[c] /\ stage[c] = "file"
  BY ReadableStep
<1>2. CASE Readable' = Readable
  BY <1>1, <1>2 DEF PastFile
<1>3. CASE /\ Readable' = Readable \cup {Len(file) + 1}
           /\ file'[Len(file) + 1] = row[c] /\ stage[c] = "file"
  <2>1. row[c].call = c /\ Len(file) \in Nat
    BY <1>3 DEF TypeOK, CallsOK, CallOK
  <2>2. SUFFICES ASSUME NEW i \in Readable', file'[i].call = d
                 PROVE  Cardinality({j \in Readable' : j > i}) >= Limit
    BY DEF PastFile
  <2>3. i \in Readable /\ file[i].call = d
    BY <1>1, <1>3, <2>1, <2>2
  <2>4. Cardinality({j \in Readable : j > i}) >= Limit
    BY <2>3 DEF PastFile
  <2>5. {j \in Readable : j > i} \in SUBSET {j \in Readable' : j > i}
    BY <1>3
  <2>6. {j \in Readable' : j > i} \in SUBSET (1..(Len(file) + 1))
    BY <1>1, <1>3, <2>1
  <2>7. IsFiniteSet({j \in Readable' : j > i})
    <3>1. IsFiniteSet(1..(Len(file) + 1))
      BY <2>1, FS_Interval
    <3> QED BY <2>6, <3>1, FS_Subset, Zenon
  <2>8. /\ Cardinality({j \in Readable : j > i}) <= Cardinality({j \in Readable' : j > i})
        /\ Cardinality({j \in Readable : j > i}) \in Nat /\ Cardinality({j \in Readable' : j > i}) \in Nat
    BY <2>5, <2>7, FS_Subset, FS_CardinalityType
  <2> QED BY <2>4, <2>8, OrderAuditAssumption
<1> QED BY <1>1, <1>2, <1>3

LEMMA KeptStep ==
  ASSUME TypeOK, CallsOK, \A d \in Calls : Kept(d), NEW c \in Calls,
         PlaceOrder(c) \/ Emergency(c) \/ Write(c) \/ Fails(c), NEW d \in Calls
  PROVE  Kept(d)'
<1>1. /\ InStream(d) => InStream(d)'
      /\ InList(d) => InList(d)'
      /\ XAdd(c) => InStream(c)'
      /\ LPush(c) => InList(c)'
  BY StreamMoves, ListMoves
<1>2. CASE d # c
  BY <1>1, <1>2, OneCall DEF Others, Kept
<1>3. CASE d = c /\ (PlaceOrder(c) \/ Emergency(c))
  BY <1>3 DEF PlaceOrder, Emergency, Kept, TypeOK
<1>4. CASE d = c /\ WriteFile(c)
  BY <1>4 DEF WriteFile, Reaches, Kept, TypeOK
<1>5. CASE d = c /\ XAdd(c)
  <2>1. stage'[c] = "list"
    BY <1>5 DEF XAdd, Reaches, TypeOK
  <2>2. InStream(c)'
    BY <1>1, <1>5
  <2>3. InStream(d)'
    BY <1>5, <2>2 DEF InStream
  <2> QED BY <1>5, <2>1, <2>3 DEF Kept
<1>6. CASE d = c /\ LPush(c)
  <2>1. stage[c] = "list" /\ stage'[c] = "trim" /\ row' = row /\ noRedis' = noRedis
    BY <1>6 DEF LPush, Reaches, TypeOK, history
  <2>2. InStream(d) => InStream(d)'
    BY <1>1
  <2>3. InList(c)'
    BY <1>1, <1>6
  <2>4. InList(d)'
    BY <1>6, <2>3 DEF InList
  <2>5. Kept(d) /\ stage[d] = "list"
    BY <1>6, <2>1
  <2>6. row'[d] # NoRow /\ d \notin noRedis' => InStream(d)'
    BY <2>1, <2>2, <2>5 DEF Kept
  <2> QED BY <2>4, <2>6 DEF Kept
<1>7. CASE d = c /\ LTrim(c)
  <2>1. stage[c] = "trim" /\ stage'[c] = "done" /\ row' = row /\ noRedis' = noRedis
    BY <1>7 DEF LTrim, Reaches, TypeOK, history
  <2>2. Kept(c)
    OBVIOUS
  <2> QED BY <1>1, <1>7, <2>1, <2>2 DEF Kept
<1>8. CASE d = c /\ Fails(c)
  BY <1>8 DEF Fails, WriteFails, RedisFails, Crash, Kept
<1> QED BY <1>2, <1>3, <1>4, <1>5, <1>6, <1>7, <1>8 DEF Write

\* Writers do not disturb what a page has seen.
LEMMA PagesWrites ==
  ASSUME TypeOK, CallsOK, PagesInv, NEW c \in Calls,
         PlaceOrder(c) \/ Emergency(c) \/ Write(c) \/ Fails(c)
  PROVE  PagesInv'
<1>1. read' = read /\ noRedis \subseteq noRedis'
  BY DEF PlaceOrder, Emergency, Write, WriteFile, XAdd, LPush, LTrim, history,
         Fails, WriteFails, RedisFails, Crash
<1>2. ASSUME NEW p \in Pages, NEW d \in read[p].before
      PROVE  /\ d \in Calls /\ d # c /\ stage'[d] = "done" /\ row'[d] = row[d] /\ row[d] # NoRow
             /\ PastStream(d) => PastStream(d)'
             /\ PastList(d) => PastList(d)'
             /\ PastFile(d) => PastFile(d)'
  <2>1. d \in Calls
    BY DEF TypeOK, Reads
  <2>2. stage[d] = "done" /\ row[d] # NoRow
    BY DEF PagesInv, PageInv
  <2>3. d # c /\ stage'[d] = "done" /\ row'[d] = row[d]
    BY <2>1, <2>2, StaysPast
  <2> QED BY <2>1, <2>2, <2>3, StreamMoves, ListMoves, FileMoves
<1>3. \A d \in Calls : Kept(d)'
  BY KeptStep DEF PagesInv
<1>4. ASSUME NEW p \in Pages PROVE PageInv(p)'
  <2>1. PageInv(p)
    BY DEF PagesInv
  <2> QED BY <1>1, <1>2, <2>1 DEF PageInv
<1>5. ReadsBack'
  <2>1. ReadsBack
    BY DEF PagesInv
  <2>2. SUFFICES ASSUME NEW p \in Pages, read[p].stage = "shown", NEW d \in read[p].before
                 PROVE  \/ row'[d].id \in IdsOf(read[p].rows)
                        \/ read[p].source = "redis" /\ (d \in noRedis' \/ PastStream(d)' \/ PastList(d)')
                        \/ read[p].source # "redis" /\ (read[p].error \/ PastFile(d)')
    BY <1>1 DEF ReadsBack
  <2>3. \/ row[d].id \in IdsOf(read[p].rows)
        \/ read[p].source = "redis" /\ (d \in noRedis \/ PastStream(d) \/ PastList(d))
        \/ read[p].source # "redis" /\ (read[p].error \/ PastFile(d))
    BY <2>1, <2>2 DEF ReadsBack
  <2> QED BY <1>1, <1>2, <2>3
<1> QED BY <1>3, <1>4, <1>5 DEF PagesInv

\* What a page has to show of the record of d.
Shown(p, d) ==
  \/ row[d].id \in IdsOf(read[p].rows)
  \/ read[p].source = "redis" /\ (d \in noRedis \/ PastStream(d) \/ PastList(d))
  \/ read[p].source # "redis" /\ (read[p].error \/ PastFile(d))

LEMMA FoundInStream ==
  ASSUME RecordInv, NEW d \in Calls, stage[d] = "done", row[d] # NoRow, Kept(d)
  PROVE  d \in noRedis \/ PastStream(d) \/ row[d].id \in IdsOf(StreamRows)
<1>1. SUFFICES ASSUME d \notin noRedis, row[d].id \notin IdsOf(StreamRows) PROVE PastStream(d)
  OBVIOUS
<1>2. stream \in Seq(Rows) /\ Len(stream) \in Nat /\ Limit \in Nat \ {0} /\ MaxLen \in Nat /\ Limit <= MaxLen
  BY OrderAuditAssumption DEF RecordInv, TypeOK
<1>3. ASSUME NEW i \in DOMAIN stream, stream[i].call = d
      PROVE  i <= Len(stream) - Limit
  <2>1. stream[i] = row[d]
    BY <1>3 DEF RecordInv, PlacesOK, StreamOK
  <2>2. i \notin Newest(stream)
    BY <1>1, <1>2, <2>1, StreamIds
  <2>3. i \in 1..Len(stream) /\ ~(i > Len(stream) - Limit)
    BY <1>2, <2>2 DEF Newest
  <2> QED BY <1>2, <2>3
<1>4. Len(stream) >= Limit
  <2>1. CASE \E i \in DOMAIN stream : stream[i].call = d
    <3>1. PICK i \in DOMAIN stream : i <= Len(stream) - Limit
      BY <1>3, <2>1
    <3>2. i \in 1..Len(stream)
      BY <1>2
    <3> QED BY <1>2, <3>1, <3>2
  <2>2. CASE Len(stream) >= MaxLen
    BY <1>2, <2>2
  <2> QED BY <1>1, <2>1, <2>2 DEF Kept, InStream
<1> QED BY <1>3, <1>4 DEF PastStream

LEMMA FoundInList ==
  ASSUME RecordInv, NEW d \in Calls, stage[d] = "done", row[d] # NoRow, Kept(d)
  PROVE  d \in noRedis \/ PastList(d) \/ row[d].id \in IdsOf(ListRows(Limit, {}))
<1>1. SUFFICES ASSUME d \notin noRedis, row[d].id \notin IdsOf(ListRows(Limit, {})) PROVE PastList(d)
  OBVIOUS
<1>2. recent \in Seq(Rows) /\ Len(recent) \in Nat /\ Limit \in Nat \ {0} /\ MaxLen \in Nat /\ Limit <= MaxLen
  BY OrderAuditAssumption DEF RecordInv, TypeOK
<1>3. ASSUME NEW i \in DOMAIN recent, recent[i].call = d
      PROVE  i > Limit
  <2>1. recent[i] = row[d]
    BY <1>3 DEF RecordInv, PlacesOK, RecentOK
  <2>2. ~(i <= Limit)
    BY <1>1, <1>2, <2>1, ListIds
  <2>3. i \in 1..Len(recent)
    BY <1>2
  <2> QED BY <1>2, <2>2, <2>3
<1>4. Len(recent) >= Limit
  <2>1. CASE \E i \in DOMAIN recent : recent[i].call = d
    <3>1. PICK i \in DOMAIN recent : i > Limit
      BY <1>3, <2>1
    <3>2. i \in 1..Len(recent)
      BY <1>2
    <3> QED BY <1>2, <3>1, <3>2
  <2>2. CASE Len(recent) >= MaxLen
    BY <1>2, <2>2
  <2> QED BY <1>1, <2>1, <2>2 DEF Kept, InList
<1> QED BY <1>3, <1>4 DEF PastList

LEMMA FoundInFile ==
  ASSUME RecordInv, NEW d \in Calls
  PROVE  PastFile(d) \/ row[d].id \in IdsOf(FileRows)
<1>1. SUFFICES ASSUME row[d].id \notin IdsOf(FileRows), NEW i \in Readable, file[i].call = d
               PROVE  Cardinality({j \in Readable : j > i}) >= Limit
  BY DEF PastFile
<1>2. file[i] = row[d]
  BY <1>1 DEF RecordInv, PlacesOK, FileOK, Readable
<1>3. ~(Cardinality({j \in Readable : j > i}) < Limit)
  BY <1>1, <1>2, FileIds
<1>4. {j \in Readable : j > i} \in SUBSET (1..Len(file)) /\ IsFiniteSet(1..Len(file))
  <2>1. file \in Seq(Rows \cup {Torn, Junk})
    BY DEF RecordInv, TypeOK
  <2>2. Len(file) \in Nat /\ DOMAIN file = 1..Len(file)
    BY <2>1
  <2>3. IsFiniteSet(1..Len(file))
    BY <2>2, FS_Interval
  <2> QED BY <2>2, <2>3 DEF Readable
<1>5. Cardinality({j \in Readable : j > i}) \in Nat
  BY <1>4, FS_Subset, FS_CardinalityType
<1> QED BY <1>3, <1>5, OrderAuditAssumption

\* A page reads: stream and list, or list and file, or all three.
LEMMA PagesReads ==
  ASSUME RecordInv, PagesInv, NEW p \in Pages, ReadStream(p) \/ ReadList(p) \/ ReadFile(p)
  PROVE  PagesInv'
<1> DEFINE B == read[p].before
<1>1. UNCHANGED <<stage, row, file, stream, recent, taken, noFile, noRedis>>
  BY DEF ReadStream, ReadList, ReadFile, places, history
<1>2. /\ \A d : Kept(d)' <=> Kept(d)
      /\ \A d : PastStream(d)' <=> PastStream(d)
      /\ \A d : PastList(d)' <=> PastList(d)
      /\ \A d : PastFile(d)' <=> PastFile(d)
  BY <1>1 DEF Kept, InStream, InList, PastStream, PastList, PastFile, Readable
<1>3. read \in [Pages -> Reads] /\ read[p] \in Reads /\ read[p].before \subseteq Calls
  BY DEF RecordInv, TypeOK, Reads
<1>4. ASSUME NEW q \in Pages \ {p} PROVE read'[q] = read[q]
  BY <1>3, <1>4 DEF ReadStream, ReadList, ReadFile
<1>5. ASSUME NEW d \in B
      PROVE  d \in Calls /\ stage[d] = "done" /\ row[d] # NoRow /\ Kept(d)
  BY <1>3, <1>5 DEF PagesInv, PageInv
<1>6. PageInv(p)' /\ (read'[p].stage = "shown" => \A d \in read'[p].before : Shown(p, d)')
  <2>1. CASE ReadStream(p)
    <3>1. PICK rows \in {StreamRows, {}} :
             read'[p] =
               [stage |-> IF Cardinality(rows) < Limit THEN "list" ELSE "shown",
                rows |-> rows,
                source |-> IF Cardinality(rows) < Limit THEN "none" ELSE "redis",
                error |-> FALSE,
                before |-> {c \in Calls : stage[c] = "done" /\ row[c] # NoRow}]
      BY <1>3, <2>1 DEF ReadStream
    <3>2. /\ read'[p].rows = rows
          /\ read'[p].before = {c \in Calls : stage[c] = "done" /\ row[c] # NoRow}
          /\ read'[p].stage = IF Cardinality(rows) < Limit THEN "list" ELSE "shown"
          /\ read'[p].source = IF Cardinality(rows) < Limit THEN "none" ELSE "redis"
      BY <3>1
    <3>3. \A d \in read'[p].before :
             d \in noRedis \/ PastStream(d) \/ row[d].id \in IdsOf(StreamRows)
      BY <3>2, FoundInStream DEF PagesInv
    <3>4. PageInv(p)'
      BY <1>1, <1>2, <3>1, <3>2, <3>3 DEF PageInv
    <3>5. ASSUME read'[p].stage = "shown"
          PROVE  rows = StreamRows /\ read'[p].source = "redis"
      <4>1. ~(Cardinality(rows) < Limit)
        BY <3>2, <3>5
      <4>2. rows # {}
        BY <4>1, FS_EmptySet, OrderAuditAssumption
      <4> QED BY <3>1, <3>2, <4>1, <4>2
    <3> QED BY <1>1, <1>2, <3>2, <3>3, <3>4, <3>5 DEF Shown
  <2>2. CASE ReadList(p)
    <3>1. PICK found \in {read[p].rows \cup ListRows(Limit - Cardinality(read[p].rows), IdsOf(read[p].rows)), read[p].rows} :
             read' = [read EXCEPT ![p].stage = IF found = {} THEN "file" ELSE "shown",
                                  ![p].rows = found,
                                  ![p].source = IF found = {} THEN "none" ELSE "redis"]
      BY <2>2 DEF ReadList
    <3>2. /\ read'[p].rows = found /\ read'[p].before = B
          /\ read'[p].stage = IF found = {} THEN "file" ELSE "shown"
          /\ read'[p].source = IF found = {} THEN "none" ELSE "redis"
      BY <1>3, <3>1 DEF Reads
    <3>3. PageInv(p)'
      BY <1>1, <1>5, <3>2 DEF PageInv
    <3>4. ASSUME found # {}, NEW d \in B
          PROVE  d \in noRedis \/ PastStream(d) \/ PastList(d) \/ row[d].id \in IdsOf(found)
      <4>1. CASE read[p].rows = {}
        <5>1. found = ListRows(Limit, {})
          <6>1. Limit - Cardinality(read[p].rows) = Limit
            BY <4>1, FS_EmptySet, OrderAuditAssumption
          <6>2. IdsOf(read[p].rows) = {}
            BY <4>1, NoIds
          <6> QED BY <3>1, <3>4, <4>1, <6>1, <6>2
        <5> QED BY <1>5, <3>4, <5>1, FoundInList
      <4>2. CASE read[p].rows # {}
        <5>1. d \in noRedis \/ PastStream(d) \/ row[d].id \in IdsOf(read[p].rows)
          BY <2>2, <3>4, <4>2 DEF PagesInv, PageInv, ReadList
        <5>2. IdsOf(read[p].rows) \subseteq IdsOf(found)
          BY <3>1, IdsGrow
        <5> QED BY <5>1, <5>2
      <4> QED BY <4>1, <4>2
    <3>5. read'[p].stage = "shown" => found # {} /\ read'[p].source = "redis"
      BY <3>2
    <3> HIDE DEF B
    <3> QED BY <1>1, <1>2, <3>2, <3>3, <3>4, <3>5 DEF Shown
  <2>3. CASE ReadFile(p)
    <3>1. PICK found \in {FileRows, {}}, error \in BOOLEAN :
             /\ error \/ found = FileRows
             /\ read' = [read EXCEPT ![p].stage = "shown", ![p].rows = found, ![p].error = error,
                                     ![p].source = IF found = {} THEN "none" ELSE "file"]
      BY <2>3 DEF ReadFile
    <3>2. /\ read'[p].rows = found /\ read'[p].before = B /\ read'[p].error = error
          /\ read'[p].stage = "shown"
          /\ read'[p].source = IF found = {} THEN "none" ELSE "file"
      BY <1>3, <3>1 DEF Reads
    <3>3. PageInv(p)'
      BY <1>1, <1>5, <3>2 DEF PageInv
    <3>4. ASSUME NEW d \in B
          PROVE  error \/ PastFile(d) \/ row[d].id \in IdsOf(found)
      BY <1>5, <3>1, <3>4, FoundInFile
    <3> HIDE DEF B
    <3> QED BY <1>1, <1>2, <3>2, <3>3, <3>4 DEF Shown
  <2> QED BY <2>1, <2>2, <2>3
<1>7. ASSUME NEW q \in Pages
      PROVE  PageInv(q)' /\ (read'[q].stage = "shown" => \A d \in read'[q].before : Shown(q, d)')
  <2>1. CASE q # p
    <3>1. read'[q] = read[q]
      BY <1>4, <2>1
    <3>2. PageInv(q) /\ (read[q].stage = "shown" => \A d \in read[q].before : Shown(q, d))
      BY DEF PagesInv, ReadsBack, Shown
    <3> QED BY <1>1, <1>2, <3>1, <3>2 DEF PageInv, Shown
  <2> QED BY <1>6, <2>1
<1>8. ReadsBack'
  BY <1>7 DEF ReadsBack, Shown
<1> QED BY <1>2, <1>7, <1>8 DEF PagesInv

\* ReadsBack: whatever fails and whoever writes while a page reads, the page
\* shows what was over before it began, from Redis unless a Redis command of
\* that call failed, from the file unless its line was lost.
THEOREM ReadsBackAlways == Spec => []ReadsBack
<1>1. RecordInv /\ PagesInv /\ [Next]_vars => PagesInv'
  <2> SUFFICES ASSUME RecordInv, PagesInv, [Next]_vars PROVE PagesInv'
    OBVIOUS
  <2>1. ASSUME UNCHANGED <<stage, row, places, read, history>>
        PROVE  PagesInv'
    BY <2>1 DEF places, history, PagesInv, Kept, InStream, InList, PageInv, ReadsBack,
                PastStream, PastList, PastFile, Readable
  <2> QED BY <2>1, PagesWrites, PagesReads DEF Next, Tick, vars, RecordInv
<1>2. PagesInv => ReadsBack
  BY DEF PagesInv
<1> QED BY <1>1, <1>2, PagesInit, RecordAlways, PTL DEF Spec
=============================================================================
