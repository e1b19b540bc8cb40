-------------------------- MODULE SignalPath_proofs --------------------------
(***************************************************************************)
(* Proofs about SignalPath, for any signals, instruments, environments and *)
(* bounds: its types, that a signal is placed at most once per attempt,    *)
(* that the answer to a signal is honest, and that the paper book stays    *)
(* within the gate's cap up to the signals in doubt.                       *)
(***************************************************************************)
EXTENDS SignalPath, FiniteSetTheorems, WellFoundedInduction, TLAPS

USE ExecWorkerAssumption, SignalPathAssumption

PlaceRequest(r, g) == r.path = "place" /\ r.sig = g
NoLate(g) == \A r \in net : ~PlaceRequest(r, g)
Placing(g) == call[Engine].path = "place" /\ call[Engine].sig = g

\* Who waits for what, and what is on the link.
CallShape ==
  /\ \A c \in Clients : inbox[c] # NoAnswer => call[c] # Idle
  /\ call[Engine] # Idle =>
       /\ call[Engine].path \in {"positions", "place"} /\ call[Engine].sig \in Signals
       /\ result[call[Engine].sig] = "new"
  /\ call[Panel] # Idle => call[Panel].path = "square_off" /\ call[Panel].sig = NoSignal
  /\ \A r \in net : r.path = "place" => r.client = Engine /\ r.sig \in Signals
  /\ \A g \in Signals :
       /\ call[Engine].sig = g \/ g \in doubtful \/ ~NoLate(g) => sig[g] \in SignalTypes
       /\ g \in doubtful => result[g] # "new" \/ call[Engine].sig = g
  /\ IsFiniteSet(net) /\ IsFiniteSet(doubtful)

\* A signal that is not yet being placed has no order and no request for one.
FreshInv ==
  \A g \in Signals : result[g] = "new" /\ ~Placing(g) => placed[g] = 0 /\ NoLate(g)

\* Placing is only tried again after an attempt in doubt.
RetryInv ==
  call[Engine].path = "place" /\ call[Engine].attempt > 1 => call[Engine].sig \in doubtful

\* What the engine's last answer says of a signal being placed: a 200 is an
\* order booked, and without doubt anything else but a 5xx is none, unless the
\* broker took it and reported a failure, with no request left on the link.
AnswerInv ==
  \A g \in Signals : Placing(g) /\ inbox[Engine] # NoAnswer =>
    /\ inbox[Engine].status = 200 => placed[g] > 0
    /\ inbox[Engine].status \in 200..499 /\ g \notin doubtful =>
         NoLate(g) /\ (inbox[Engine].status # 200 /\ g \notin masked => placed[g] = 0)

\* What holds of a signal that is over.
ResultInv ==
  \A g \in Signals :
    /\ result[g] = "ok" => placed[g] > 0
    /\ result[g] # "new" /\ g \notin doubtful => NoLate(g)
    /\ result[g] = "aborted" /\ g \notin doubtful \cup masked => placed[g] = 0
    /\ result[g] = "dry_run" => placed[g] = 0 /\ NoLate(g)

\* The positions in book that no signal in d accounts for.
SureOf(book, s, d) == Open(book) \ {s[g].sym : g \in d}
Sure == SureOf(pos, sig, doubtful)

\* The paper book, the count the gate has been told, and the order the gate has
\* let through: none of them passes the cap but for the signals in doubt.
PaperInv ==
  Paper =>
    /\ \A i \in DOMAIN orders : orders[i].status # "SUBMITTED"
    /\ ~Authorized => Open(pos) = {}
    /\ Cardinality(Sure) <= MaxOpenPositions
    /\ call[Engine].path = "positions" /\ call[Engine].sig \notin doubtful /\ inbox[Engine] # NoAnswer =>
         /\ inbox[Engine].status = 200 => Cardinality(Sure) <= inbox[Engine].count
         /\ inbox[Engine].status \in 201..499 => ~Authorized
    /\ call[Engine].path = "place" /\ call[Engine].sig \notin doubtful /\ Authorized
         /\ placed[call[Engine].sig] = 0 => Cardinality(Sure) < MaxOpenPositions

\* The inductive invariant.
IInv ==
  /\ TypeOK /\ CallShape /\ FreshInv /\ RetryInv
  /\ PlacedPerAttempt /\ AnswerInv /\ ResultInv /\ PaperInv

-----------------------------------------------------------------------------
Gives(o, p, b, st, n) ==
  /\ o.pos = p /\ o.orders = b
  /\ o.answer \in Answers /\ o.answer.status = st /\ o.answer.count = n

\* A sequence with one more element.
LEMMA AppendOne ==
  ASSUME NEW S, NEW t \in Seq(S), NEW x \in S
  PROVE  /\ Append(t, x) \in Seq(S) /\ Len(Append(t, x)) = Len(t) + 1
         /\ Len(t) \in Nat
OBVIOUS

\* A function on 1..n is a sequence of length n.
LEMMA SeqOfFunction ==
  ASSUME NEW n \in Nat, NEW S, NEW f \in [1..n -> S]
  PROVE  f \in Seq(S) /\ Len(f) = n
OBVIOUS

\* SetToSeq numbers the elements of a finite set.
LEMMA SeqOfSet ==
  ASSUME NEW S, IsFiniteSet(S)
  PROVE  SetToSeq(S) \in [1..Cardinality(S) -> S]
<1>1. \E f \in [1..Cardinality(S) -> S] : IsInjective(f)
  <2>1. ExistsBijection(1..Cardinality(S), S)
    BY FS_CardinalityType
  <2> QED BY <2>1 DEF ExistsBijection, Bijection, Injection
<1> QED BY <1>1 DEF SetToSeq

\* The open positions of a book are finitely many.
LEMMA OpenFinite ==
  ASSUME NEW book
  PROVE  IsFiniteSet(Open(book)) /\ Cardinality(Open(book)) \in Nat
<1>1. Open(book) \in SUBSET Syms
  BY DEF Open
<1> QED BY <1>1, FS_Subset, FS_CardinalityType

\* What square_off_all sends are orders.
LEMMA FlattenOrdersTyped ==
  ASSUME TypeOK, NEW closed \in SUBSET Open(pos), NEW status \in OrderStatus
  PROVE  FlattenOrders(closed, status) \in Seq(Orders)
<1>1. IsFiniteSet(closed) /\ Cardinality(closed) \in Nat
  BY OpenFinite, FS_Subset, FS_CardinalityType
<1>2. SetToSeq(closed) \in [1..Cardinality(closed) -> closed]
  BY <1>1, SeqOfSet
<1>3. \A s \in closed : s \in Syms /\ Flatten(s) \in Int
  BY DEF Open, Flatten, TypeOK
<1>4. \A i \in 1..Cardinality(closed) :
        Order(SetToSeq(closed)[i], Flatten(SetToSeq(closed)[i]), status, TRUE) \in Orders
  BY <1>2, <1>3 DEF Order, Orders
<1>5. [i \in 1..Cardinality(closed) |->
         LET s == SetToSeq(closed)[i] IN Order(s, Flatten(s), status, TRUE)] \in Seq(Orders)
  <2> DEFINE f == [i \in 1..Cardinality(closed) |->
         LET s == SetToSeq(closed)[i] IN Order(s, Flatten(s), status, TRUE)]
  <2>1. f \in [1..Cardinality(closed) -> Orders]
    BY <1>4
  <2> HIDE DEF f
  <2>2. f \in Seq(Orders)
    BY <1>1, <2>1
  <2> QED BY <2>2 DEF f
<1> QED BY <1>5 DEF FlattenOrders, TypeOK

\* A request without the token changes nothing.
LEMMA UnauthorizedAnswer ==
  ASSUME NEW o \in {Unauthorized}
  PROVE  /\ \E st \in {401, 503} : Gives(o, pos, orders, st, 0)
         /\ ~o.raised
<1>1. PICK st \in {401, 503} : o = Outcome(pos, orders, Answer(st, FALSE, 0), FALSE)
  BY ZenonT(60) DEF Unauthorized, Unchanged
<1>2. st \in Nat /\ 0 \in Nat /\ FALSE \in BOOLEAN
  BY <1>1
<1> QED BY <1>1, <1>2 DEF Gives, Outcome, Answer, Answers

\* A booked order is one more order.
LEMMA BookedTyped ==
  ASSUME TypeOK, NEW s \in Syms, NEW q \in Int, NEW status \in OrderStatus
  PROVE  /\ Booked(s, q, status) \in Seq(Orders)
         /\ Len(Booked(s, q, status)) = Len(orders) + 1
<1>1. Order(s, q, status, FALSE) \in Orders
  BY DEF Order, Orders
<1>2. orders \in Seq(Orders)
  BY DEF TypeOK
<1> QED BY <1>1, <1>2, AppendOne DEF Booked

\* What POST /order/place does to the account and answers: without the
\* token, in the paper book, and at a broker.
LEMMA PlaceRefused ==
  ASSUME ~Authorized, NEW s, NEW q, NEW o \in PlaceOrder(s, q)
  PROVE  \E st \in {401, 503} : Gives(o, pos, orders, st, 0)
BY UnauthorizedAnswer DEF PlaceOrder

\* ... in the paper book,
LEMMA PlacePaper ==
  ASSUME Authorized, Paper, NEW s, NEW q, NEW o \in PlaceOrder(s, q)
  PROVE  Gives(o, [pos EXCEPT ![s] = @ + q], Booked(s, q, "FILLED"), 200, 0)
<1>1. o = Outcome(PaperPlace(pos, s, q), Booked(s, q, "FILLED"), Answer(200, TRUE, 0), FALSE)
  BY DEF PlaceOrder, Ready
<1>2. PaperPlace(pos, s, q) = [pos EXCEPT ![s] = @ + q]
  BY DEF PaperPlace
<1> QED BY <1>1, <1>2 DEF Gives, Outcome, Answer, Answers

\* ... and at a broker.
LEMMA PlaceAtBroker ==
  ASSUME Authorized, ~Paper, NEW s, NEW q, NEW o \in PlaceOrder(s, q)
  PROVE  \/ \E st \in {200, 400, 500} : Gives(o, pos, Booked(s, q, "SUBMITTED"), st, 0)
         \/ \E st \in {400, 500} : Gives(o, pos, orders, st, 0)
<1>r. CASE ~Ready
  <2>1. o = Outcome(pos, orders, Answer(400, FALSE, 0), FALSE)
    BY <1>r DEF PlaceOrder, Refused, Unchanged
  <2>2. Gives(o, pos, orders, 400, 0)
    BY <2>1 DEF Gives, Outcome, Answer, Answers
  <2> QED BY <2>2
<1> SUFFICES ASSUME Ready
             PROVE  \/ \E st \in {200, 400, 500} : Gives(o, pos, Booked(s, q, "SUBMITTED"), st, 0)
                    \/ \E st \in {400, 500} : Gives(o, pos, orders, st, 0)
  BY <1>r
<1> DEFINE b == Booked(s, q, "SUBMITTED")
<1>1. o \in PlaceLive(s, q)
  BY DEF PlaceOrder
<1>2. \/ o = Outcome(pos, b, Answer(200, TRUE, 0), FALSE)
      \/ o = Outcome(pos, b, Answer(500, FALSE, 0), TRUE)
      \/ o = Outcome(pos, orders, Answer(500, FALSE, 0), TRUE)
      \/ o = Outcome(pos, orders, Answer(400, FALSE, 0), FALSE)
      \/ o = Outcome(pos, b, Answer(400, FALSE, 0), TRUE)
  <2>1. CASE cfg.broker = "dhan" /\ s \notin NumericSyms
    <3>1. PlaceLive(s, q) = {Unchanged(Answer(400, FALSE, 0), FALSE)}
      BY <2>1 DEF PlaceLive, Refused
    <3> QED BY <1>1, <3>1 DEF Unchanged
  <2>2. CASE ~(cfg.broker = "dhan" /\ s \notin NumericSyms)
    <3>1. PlaceLive(s, q) =
            {Outcome(pos, b, Answer(200, TRUE, 0), FALSE),
             Unchanged(Answer(500, FALSE, 0), TRUE),
             Outcome(pos, b, Answer(500, FALSE, 0), TRUE)}
            \cup {x \in {Unchanged(Answer(400, FALSE, 0), FALSE),
                          Outcome(pos, b, Answer(400, FALSE, 0), TRUE)} : cfg.broker = "dhan"}
      BY ZenonT(60), <2>2 DEF PlaceLive, Refused
    <3> HIDE DEF b
    <3> QED BY ZenonT(60), <1>1, <3>1 DEF Unchanged
  <2> QED BY <2>1, <2>2
<1> HIDE DEF b
<1>3. CASE o = Outcome(pos, b, Answer(200, TRUE, 0), FALSE)
  BY <1>3 DEF b, Gives, Outcome, Answer, Answers
<1>4. CASE o = Outcome(pos, b, Answer(500, FALSE, 0), TRUE)
  BY <1>4 DEF b, Gives, Outcome, Answer, Answers
<1>5. CASE o = Outcome(pos, orders, Answer(500, FALSE, 0), TRUE)
  BY <1>5 DEF Gives, Outcome, Answer, Answers
<1>6. CASE o = Outcome(pos, orders, Answer(400, FALSE, 0), FALSE)
  BY <1>6 DEF Gives, Outcome, Answer, Answers
<1>7. CASE o = Outcome(pos, b, Answer(400, FALSE, 0), TRUE)
  BY <1>7 DEF b, Gives, Outcome, Answer, Answers
<1> QED BY ZenonT(60), <1>2, <1>3, <1>4, <1>5, <1>6, <1>7

\* What GET /order/positions answers; it changes nothing.
LEMMA PositionsOutcomes ==
  ASSUME NEW o \in GetPositions
  PROVE  /\ ~Authorized => \E st \in {401, 503} : Gives(o, pos, orders, st, 0)
         /\ Authorized => \/ Gives(o, pos, orders, 200, Cardinality(Open(pos)))
                          \/ ~Paper /\ \E st \in {200, 400, 500} : Gives(o, pos, orders, st, 0)
<1>n. /\ 0 \in Nat /\ 200 \in Nat /\ 400 \in Nat /\ 500 \in Nat /\ TRUE \in BOOLEAN /\ FALSE \in BOOLEAN
      /\ Cardinality(Open(pos)) \in Nat
  BY OpenFinite
<1>1. CASE ~Authorized
  BY <1>1, UnauthorizedAnswer DEF GetPositions
<1>2. CASE Authorized
  <2>1. \/ o = Outcome(pos, orders, Answer(200, TRUE, Cardinality(Open(pos))), FALSE)
        \/ ~Paper /\ \/ o = Outcome(pos, orders, Answer(500, FALSE, 0), TRUE)
                     \/ o = Outcome(pos, orders, Answer(200, TRUE, 0), TRUE)
                     \/ o = Outcome(pos, orders, Answer(400, FALSE, 0), FALSE)
    <3>1. cfg.broker = "dhan" => ~Paper
      BY DEF Paper
    <3>2. ~Ready => ~Paper
      BY DEF Ready
    <3> QED BY ZenonT(60), <1>2, <3>1, <3>2 DEF GetPositions, Unchanged, Refused
  <2>2. CASE o = Outcome(pos, orders, Answer(200, TRUE, Cardinality(Open(pos))), FALSE)
    <3> DEFINE n == Cardinality(Open(pos))
    <3>1. n \in Nat /\ o = Outcome(pos, orders, Answer(200, TRUE, n), FALSE)
      BY <1>n, <2>2
    <3> HIDE DEF n
    <3>2. Gives(o, pos, orders, 200, n)
      BY <3>1 DEF Gives, Outcome, Answer, Answers
    <3> QED BY <3>2, <1>2 DEF n
  <2>3. CASE ~Paper /\ o = Outcome(pos, orders, Answer(500, FALSE, 0), TRUE)
    <3>1. Gives(o, pos, orders, 500, 0)
      BY <2>3 DEF Gives, Outcome, Answer, Answers
    <3> QED BY <1>2, <2>3, <3>1
  <2>4. CASE ~Paper /\ o = Outcome(pos, orders, Answer(200, TRUE, 0), TRUE)
    <3>1. Gives(o, pos, orders, 200, 0)
      BY <2>4 DEF Gives, Outcome, Answer, Answers
    <3> QED BY <1>2, <2>4, <3>1
  <2>5. CASE ~Paper /\ o = Outcome(pos, orders, Answer(400, FALSE, 0), FALSE)
    <3>1. Gives(o, pos, orders, 400, 0)
      BY <2>5 DEF Gives, Outcome, Answer, Answers
    <3> QED BY <1>2, <2>5, <3>1
  <2> QED BY <2>1, <2>2, <2>3, <2>4, <2>5
<1> QED BY <1>1, <1>2

\* What POST /order/square_off_all does to the account and answers.
LEMMA SquareOffOutcomes ==
  ASSUME TypeOK, NEW o \in SquareOffAll
  PROVE  /\ o.pos \in [Syms -> Int] /\ o.orders \in Seq(Orders) /\ o.answer \in Answers
         /\ Paper => \/ o.pos = pos /\ o.orders = orders
                     \/ Open(o.pos) = {} /\ o.orders = FlattenOrders(Open(pos), "FILLED")
<1>n. 0 \in Nat /\ 200 \in Nat /\ 500 \in Nat /\ TRUE \in BOOLEAN /\ FALSE \in BOOLEAN
  OBVIOUS
<1>f. \A closed \in SUBSET Open(pos) : /\ FlattenOrders(closed, "FILLED") \in Seq(Orders)
                                       /\ FlattenOrders(closed, "SUBMITTED") \in Seq(Orders)
  BY FlattenOrdersTyped DEF OrderStatus
<1>p. pos \in [Syms -> Int] /\ orders \in Seq(Orders)
  BY DEF TypeOK
<1>1. CASE ~Authorized
  <2>1. o \in {Unauthorized}
    BY <1>1 DEF SquareOffAll
  <2> QED BY <2>1, <1>p, UnauthorizedAnswer DEF Gives
<1>r. CASE Authorized /\ ~Ready
  <2>1. o = Outcome(pos, orders, Answer(400, FALSE, 0), FALSE)
    BY <1>r DEF SquareOffAll, Refused, Unchanged
  <2>2. Gives(o, pos, orders, 400, 0)
    BY <2>1 DEF Gives, Outcome, Answer, Answers
  <2> QED BY <2>2, <1>p DEF Gives
<1>2. CASE Authorized /\ Paper
  <2> DEFINE p == [s \in Syms |-> pos[s] + IF pos[s] = 0 THEN 0 ELSE Flatten(s)]
             b == FlattenOrders(Open(pos), "FILLED")
  <2>1. o = Outcome(p, b, Answer(200, TRUE, 0), FALSE)
    BY <1>2 DEF SquareOffAll, Paper, Ready
  <2>2. \A s \in Syms : p[s] = 0
    BY <1>p DEF Flatten
  <2>3. p \in [Syms -> Int] /\ Open(p) = {}
    BY <2>2 DEF Open
  <2>4. b \in Seq(Orders)
    BY <1>f
  <2> HIDE DEF p
  <2>5. Gives(o, p, b, 200, 0)
    BY <2>1 DEF Gives, Outcome, Answer, Answers
  <2> QED BY <2>3, <2>4, <2>5 DEF Gives
<1>3. CASE Authorized /\ Ready /\ cfg.broker = "dhan"
  <2> DEFINE done == Open(pos) = {}
  <2>0. done \in BOOLEAN /\ ~Paper
    BY <1>3 DEF Paper
  <2>1. \/ o = Outcome(pos, orders, Answer(200, done, 0), FALSE)
        \/ o = Outcome(pos, orders, Answer(200, TRUE, 0), TRUE)
        \/ o = Outcome(pos, orders, Answer(500, FALSE, 0), TRUE)
    BY <1>3 DEF SquareOffAll, Paper, Unchanged
  <2> HIDE DEF done
  <2>2. Gives(o, pos, orders, 200, 0) \/ Gives(o, pos, orders, 500, 0)
    <3>1. CASE o = Outcome(pos, orders, Answer(200, done, 0), FALSE)
      BY <3>1, <2>0 DEF Gives, Outcome, Answer, Answers
    <3>2. CASE o = Outcome(pos, orders, Answer(500, FALSE, 0), TRUE)
      BY <3>2 DEF Gives, Outcome, Answer, Answers
    <3>3. CASE o = Outcome(pos, orders, Answer(200, TRUE, 0), TRUE)
      BY <3>3 DEF Gives, Outcome, Answer, Answers
    <3> QED BY <2>1, <3>1, <3>2, <3>3
  <2> QED BY <2>0, <2>2, <1>p DEF Gives
<1>4. CASE Authorized /\ Ready /\ cfg.broker = "zerodha"
  <2> DEFINE all  == Outcome(pos, FlattenOrders(Open(pos), "SUBMITTED"), Answer(200, TRUE, 0), FALSE)
             some(c) == Outcome(pos, FlattenOrders(c, "SUBMITTED"), Answer(500, FALSE, 0), TRUE)
  <2>0. ~Paper
    BY <1>4 DEF Paper
  <2>1. SquareOffAll = {all} \cup {some(closed) : closed \in SUBSET Open(pos)}
    BY <1>4 DEF SquareOffAll, Paper
  <2>2. CASE o = all
    <3>1. Gives(o, pos, FlattenOrders(Open(pos), "SUBMITTED"), 200, 0)
      BY <2>2 DEF Gives, Outcome, Answer, Answers
    <3> QED BY <2>0, <3>1, <1>f, <1>p DEF Gives
  <2>3. ASSUME NEW closed \in SUBSET Open(pos), o = some(closed)
        PROVE  Gives(o, pos, FlattenOrders(closed, "SUBMITTED"), 500, 0)
    BY <2>3 DEF Gives, Outcome, Answer, Answers
  <2>4. o = all \/ \E closed \in SUBSET Open(pos) : o = some(closed)
    <3> HIDE DEF all, some
    <3> QED BY <2>1
  <2>5. CASE \E closed \in SUBSET Open(pos) : o = some(closed)
    <3>1. PICK closed \in SUBSET Open(pos) : o = some(closed)
      BY <2>5
    <3>2. Gives(o, pos, FlattenOrders(closed, "SUBMITTED"), 500, 0)
      BY <2>3, <3>1
    <3>3. FlattenOrders(closed, "SUBMITTED") \in Seq(Orders)
      BY <1>f
    <3> QED BY <2>0, <3>2, <3>3, <1>p DEF Gives
  <2> QED BY <2>2, <2>4, <2>5
<1> QED BY <1>1, <1>r, <1>2, <1>3, <1>4 DEF TypeOK, Paper, Brokers, SignalPathAssumption

\* Calls and requests, field by field.
LEMMA CallFields ==
  /\ \A k \in Calls : /\ k.path \in Paths /\ k.sig \in Signals \cup {NoSignal}
                      /\ k.attempt \in 1..MaxRetries /\ k # Idle
  /\ Idle.path = "none" /\ Idle.sig = NoSignal /\ Idle.attempt = 0
  /\ \A path \in Paths, g \in Signals \cup {NoSignal} :
       /\ Call(path, g) \in Calls
       /\ Call(path, g).path = path /\ Call(path, g).sig = g /\ Call(path, g).attempt = 1
<1>1. ASSUME NEW k \in Calls
      PROVE  /\ k.path \in Paths /\ k.sig \in Signals \cup {NoSignal}
             /\ k.attempt \in 1..MaxRetries /\ k # Idle
  <2>1. /\ k.path \in Paths /\ k.sig \in Signals \cup {NoSignal}
        /\ k.attempt \in 1..MaxRetries
    BY DEF Calls
  <2>2. Idle.path = "none"
    BY DEF Idle
  <2> QED BY <2>1, <2>2 DEF Paths
<1>2. Idle.path = "none" /\ Idle.sig = NoSignal /\ Idle.attempt = 0
  BY DEF Idle
<1>3. ASSUME NEW path \in Paths, NEW g \in Signals \cup {NoSignal}
      PROVE  /\ Call(path, g) \in Calls
             /\ Call(path, g).path = path /\ Call(path, g).sig = g /\ Call(path, g).attempt = 1
  BY DEF Call, Calls, MaxRetries
<1> QED BY <1>1, <1>2, <1>3

\* The same call, one attempt later.
LEMMA NextAttempt ==
  ASSUME NEW k \in Calls, k.attempt < MaxRetries
  PROVE  LET n == [k EXCEPT !.attempt = @ + 1]
         IN  /\ n \in Calls /\ n.path = k.path /\ n.sig = k.sig
             /\ n.attempt = k.attempt + 1
BY DEF Calls, MaxRetries

\* A request carries its call.
LEMMA RequestFields ==
  ASSUME NEW c, NEW k
  PROVE  /\ Request(c, k).client = c /\ Request(c, k).path = k.path
         /\ Request(c, k).sig = k.sig
BY DEF Request

\* The place requests of g among n, and how many there are.
LateIn(n, g) == {r \in n : r.path = "place" /\ r.sig = g}

\* Late placements are finitely many, and none when there is no request.
LEMMA LateCount ==
  ASSUME NEW n, IsFiniteSet(n), NEW g
  PROVE  /\ IsFiniteSet(LateIn(n, g)) /\ Cardinality(LateIn(n, g)) \in Nat
         /\ Cardinality(LateIn(n, g)) = 0 <=> \A r \in n : ~PlaceRequest(r, g)
<1>1. LateIn(n, g) \in SUBSET n
  BY DEF LateIn
<1>2. IsFiniteSet(LateIn(n, g))
  BY <1>1, FS_Subset
<1>3. LateIn(n, g) = {} <=> \A r \in n : ~PlaceRequest(r, g)
  BY DEF LateIn, PlaceRequest
<1> QED BY <1>2, <1>3, FS_CardinalityType, FS_EmptySet

\* Fewer requests, fewer late placements.
LEMMA LateSubset ==
  ASSUME NEW n, IsFiniteSet(n), NEW m \in SUBSET n, NEW g
  PROVE  IsFiniteSet(m) /\ Cardinality(LateIn(m, g)) <= Cardinality(LateIn(n, g))
<1>1. LateIn(m, g) \in SUBSET LateIn(n, g)
  BY DEF LateIn
<1> QED BY <1>1, LateCount, FS_Subset

\* One request is at most one late placement.
LEMMA LateAdd ==
  ASSUME NEW n, IsFiniteSet(n), NEW r, NEW g
  PROVE  /\ IsFiniteSet(n \cup {r})
         /\ Cardinality(LateIn(n \cup {r}, g)) <= Cardinality(LateIn(n, g)) + 1
         /\ ~PlaceRequest(r, g) =>
              Cardinality(LateIn(n \cup {r}, g)) = Cardinality(LateIn(n, g))
<1>0. IsFiniteSet(LateIn(n, g)) /\ Cardinality(LateIn(n, g)) \in Nat
  BY LateCount
<1>1. CASE PlaceRequest(r, g)
  <2>1. LateIn(n \cup {r}, g) = LateIn(n, g) \cup {r}
    BY <1>1 DEF LateIn, PlaceRequest
  <2> DEFINE L == LateIn(n, g)
  <2>2. Cardinality(L \cup {r}) = IF r \in L THEN Cardinality(L) ELSE Cardinality(L) + 1
    BY <1>0, FS_AddElement
  <2>3. IsFiniteSet(n \cup {r})
    BY FS_AddElement
  <2>4. Cardinality(L) \in Nat
    BY <1>0
  <2>5. Cardinality(LateIn(n \cup {r}, g)) <= Cardinality(L) + 1
    <3> HIDE DEF L
    <3>1. LateIn(n \cup {r}, g) = L \cup {r}
      BY <2>1 DEF L
    <3>2. Cardinality(L \cup {r}) <= Cardinality(L) + 1
      BY <2>2, <2>4
    <3> QED BY <3>1, <3>2
  <2> QED BY <1>1, <2>3, <2>5
<1>2. CASE ~PlaceRequest(r, g)
  <2>1. LateIn(n \cup {r}, g) = LateIn(n, g)
    BY <1>2 DEF LateIn, PlaceRequest
  <2> QED BY <1>0, <1>2, <2>1, FS_AddElement
<1> QED BY <1>1, <1>2

\* A place request served is one late placement less.
LEMMA LateRemove ==
  ASSUME NEW n, IsFiniteSet(n), NEW r \in n, NEW g, PlaceRequest(r, g)
  PROVE  /\ IsFiniteSet(n \ {r})
         /\ Cardinality(LateIn(n \ {r}, g)) = Cardinality(LateIn(n, g)) - 1
<1>1. LateIn(n \ {r}, g) = LateIn(n, g) \ {r} /\ r \in LateIn(n, g)
  BY DEF LateIn, PlaceRequest
<1>2. IsFiniteSet(LateIn(n, g))
  BY LateCount
<1>3. Cardinality(LateIn(n, g) \ {r}) = Cardinality(LateIn(n, g)) - 1
  BY <1>1, <1>2, FS_RemoveElement
<1>4. IsFiniteSet(n \ {r})
  BY FS_RemoveElement
<1> QED BY <1>1, <1>3, <1>4

\* The positions not in doubt are finitely many.
LEMMA SureFinite ==
  ASSUME NEW book, NEW s, NEW d
  PROVE  /\ IsFiniteSet(SureOf(book, s, d)) /\ Cardinality(SureOf(book, s, d)) \in Nat
         /\ Cardinality(SureOf(book, s, d)) <= Cardinality(Open(book))
<1>1. SureOf(book, s, d) \in SUBSET Open(book)
  BY DEF SureOf
<1> QED BY <1>1, OpenFinite, FS_Subset, FS_CardinalityType

\* Fewer positions, a lower count.
LEMMA SureSubset ==
  ASSUME NEW book, NEW s, NEW d, NEW book2, NEW s2, NEW d2,
         SureOf(book2, s2, d2) \subseteq SureOf(book, s, d)
  PROVE  Cardinality(SureOf(book2, s2, d2)) <= Cardinality(SureOf(book, s, d))
BY SureFinite, FS_Subset

\* One position more, a count higher by at most one.
LEMMA SurePlusOne ==
  ASSUME NEW book, NEW s, NEW d, NEW book2, NEW x,
         SureOf(book2, s, d) \subseteq SureOf(book, s, d) \cup {x}
  PROVE  Cardinality(SureOf(book2, s, d)) <= Cardinality(SureOf(book, s, d)) + 1
<1> DEFINE S == SureOf(book, s, d)
           T == SureOf(book2, s, d)
<1>0. IsFiniteSet(S) /\ Cardinality(S) \in Nat /\ IsFiniteSet(T) /\ Cardinality(T) \in Nat
  BY SureFinite
<1>1. T \subseteq S \cup {x}
  OBVIOUS
<1> HIDE DEF S, T
<1>2. /\ IsFiniteSet(S \cup {x})
      /\ Cardinality(S \cup {x}) = IF x \in S THEN Cardinality(S) ELSE Cardinality(S) + 1
  BY <1>0, FS_AddElement
<1>3. Cardinality(T) <= Cardinality(S \cup {x})
  BY <1>1, <1>2, FS_Subset
<1>4. Cardinality(T) <= Cardinality(S) + 1
  BY <1>0, <1>2, <1>3
<1> QED BY <1>4 DEF S, T

\* There are two clients.
LEMMA ClientsTwo == Engine \in Clients /\ Panel \in Clients /\ Engine # Panel
                    /\ \A c \in Clients : c = Engine \/ c = Panel
BY DEF Clients

\* The inductive invariant holds initially.
LEMMA InitIInv == Init => IInv
<1> SUFFICES ASSUME Init PROVE IInv
  OBVIOUS
<1>0. /\ cfg \in Configs /\ pos = Flat /\ orders = <<>>
      /\ sig = [g \in Signals |-> NoSignal] /\ result = [g \in Signals |-> "new"]
      /\ call = [c \in Clients |-> Idle] /\ inbox = [c \in Clients |-> NoAnswer]
      /\ net = {} /\ faults = 0 /\ acts = 0
      /\ placed = [g \in Signals |-> 0] /\ masked = {} /\ doubtful = {}
  BY DEF Init
<1>1. TypeOK
  <2>1. pos \in [Syms -> Int]
    BY <1>0 DEF Flat
  <2>2. orders \in Seq(Orders)
    BY <1>0
  <2> QED BY <1>0, <2>1, <2>2 DEF TypeOK
<1>2. call[Engine] = Idle /\ call[Panel] = Idle /\ call[Engine].path = "none"
      /\ call[Engine].sig = NoSignal /\ inbox[Engine] = NoAnswer /\ inbox[Panel] = NoAnswer
  BY <1>0, ClientsTwo, CallFields
<1>3. CallShape
  BY <1>0, <1>2, ClientsTwo, FS_EmptySet DEF CallShape, NoLate, PlaceRequest
<1>4. FreshInv /\ RetryInv /\ AnswerInv /\ ResultInv
  BY <1>0, <1>2 DEF FreshInv, NoLate, RetryInv, AnswerInv, ResultInv, Placing
<1>5. PlacedPerAttempt
  <2>1. \A g \in Signals : Cardinality(LateIn(net, g)) = 0
    BY <1>0, FS_EmptySet, LateCount
  <2>2. \A g \in Signals : Late(g) = 0 /\ placed[g] = 0 /\ Attempts(g) = 1
    BY <1>0, <1>2, <2>1 DEF Late, LateIn, Attempts
  <2> QED BY <2>2 DEF PlacedPerAttempt
<1>6. PaperInv
  <2>1. Open(pos) = {}
    BY <1>0 DEF Open, Flat
  <2>2. Cardinality(Sure) = 0
    BY <2>1, FS_EmptySet DEF Sure, SureOf
  <2> QED BY <1>0, <1>2, <2>1, <2>2 DEF PaperInv
<1> QED BY <1>1, <1>3, <1>4, <1>5, <1>6 DEF IInv

\* A signal has a number of attempts.
LEMMA AttemptsNat ==
  ASSUME TypeOK, NEW h
  PROVE  Attempts(h) \in Nat
<1>1. call[Engine] \in Calls \/ call[Engine] = Idle
  BY ClientsTwo DEF TypeOK
<1>2. call[Engine].attempt \in Nat
  BY <1>1, CallFields DEF MaxRetries
<1> QED BY <1>2 DEF Attempts, MaxRetries

\* What the invariant says of a signal no call is about.
LEMMA EngineIdle ==
  ASSUME IInv, call[Engine] = Idle
  PROVE  /\ inbox[Engine] = NoAnswer /\ call[Engine].path = "none"
         /\ \A g \in Signals : /\ call[Engine].sig # g /\ ~Placing(g)
                               /\ result[g] = "new" => /\ g \notin doubtful /\ placed[g] = 0
                                                       /\ NoLate(g)
<1>1. inbox[Engine] = NoAnswer
  BY ClientsTwo DEF IInv, CallShape
<1>2. call[Engine].path = "none" /\ call[Engine].sig = NoSignal
  BY CallFields
<1>3. \A g \in Signals : call[Engine].sig # g /\ ~Placing(g)
  BY <1>2 DEF Placing
<1> QED BY <1>1, <1>2, <1>3 DEF IInv, CallShape, FreshInv

\* A request that places nothing leaves what is late as it is.
LEMMA LateUnchanged ==
  ASSUME IsFiniteSet(net), NEW r, r.path # "place",
         net' = net \cup {r} \/ net' = net \/ net' = net \ {r}
  PROVE  /\ IsFiniteSet(net')
         /\ \A g : Late(g)' = Late(g) /\ (NoLate(g)' <=> NoLate(g))
<1>1. IsFiniteSet(net')
  BY FS_AddElement, FS_RemoveElement
<1>2. \A g : LateIn(net', g) = LateIn(net, g)
  BY DEF LateIn
<1>3. \A g : NoLate(g)' <=> NoLate(g)
  BY DEF NoLate, PlaceRequest
<1> QED BY <1>1, <1>2, <1>3 DEF Late, LateIn

\* A signal that starts keeps the invariant.
LEMMA ExecuteSignalStep ==
  ASSUME IInv, NEW g \in Signals, ExecuteSignal(g)
  PROVE  IInv'
<1>0. /\ call[Engine] = Idle /\ result[g] = "new"
      /\ UNCHANGED <<pos, orders, cfg, inbox, faults, acts, placed, masked, doubtful>>
  BY DEF ExecuteSignal, account, bounds
<1>i. /\ inbox[Engine] = NoAnswer /\ call[Engine].path = "none"
      /\ \A h \in Signals : /\ call[Engine].sig # h /\ ~Placing(h)
                            /\ result[h] = "new" => /\ h \notin doubtful /\ placed[h] = 0
                                                    /\ NoLate(h)
  BY <1>0, EngineIdle
<1>t. TypeOK /\ CallShape /\ FreshInv /\ ResultInv /\ PlacedPerAttempt /\ PaperInv
  BY DEF IInv
<1>1. CASE /\ call' = [call EXCEPT ![Engine] = Call("positions", g)]
           /\ net' = net \cup {Request(Engine, Call("positions", g))}
           /\ \E s \in Syms, side \in {"BUY", "SELL"}, qty \in Quantities :
                sig' = [sig EXCEPT ![g] = [sym |-> s, side |-> side, qty |-> qty]]
           /\ UNCHANGED result
  <2> DEFINE k == Call("positions", g)
             r == Request(Engine, k)
  <2>1. /\ k \in Calls /\ k.path = "positions" /\ k.sig = g /\ k.attempt = 1 /\ k # Idle
        /\ r.client = Engine /\ r.path = "positions"
    BY CallFields, RequestFields DEF Paths
  <2> HIDE DEF k, r
  <2>2. call' = [call EXCEPT ![Engine] = k] /\ net' = net \cup {r}
    BY <1>1 DEF k, r
  <2>3. PICK sg \in SignalTypes : sig' = [sig EXCEPT ![g] = sg]
    BY <1>1 DEF SignalTypes
  <2>4. call'[Engine] = k /\ call'[Panel] = call[Panel]
    BY <1>t, <2>2, ClientsTwo DEF TypeOK
  <2>5. IsFiniteSet(net') /\ \A h : Late(h)' = Late(h) /\ (NoLate(h)' <=> NoLate(h))
    BY <1>t, <2>1, <2>2, LateUnchanged DEF CallShape
  <2>6. sig'[g] = sg /\ \A h \in Signals : h # g => sig'[h] = sig[h]
    BY <1>t, <2>3 DEF TypeOK
  <2>7. TypeOK'
    <3>1. sig' \in [Signals -> SignalTypes \cup {NoSignal}]
      BY <1>t, <2>3 DEF TypeOK
    <3>2. call' \in [Clients -> Calls \cup {Idle}]
      BY <1>t, <2>1, <2>2 DEF TypeOK
    <3>3. \A q \in net' : q.client \in Clients /\ q.path \in Paths
      BY <1>t, <2>1, <2>2, ClientsTwo DEF TypeOK, Paths
    <3> QED BY <1>t, <1>0, <1>1, <3>1, <3>2, <3>3 DEF TypeOK
  <2>8. CallShape'
    <3>1. \A c \in Clients : inbox'[c] # NoAnswer => call'[c] # Idle
      BY <1>t, <1>0, <1>i, <2>4, ClientsTwo DEF CallShape
    <3>2. \A q \in net' : q.path = "place" => q.client = Engine /\ q.sig \in Signals
      BY <1>t, <2>1, <2>2 DEF CallShape
    <3>3. \A h \in Signals :
            /\ (call'[Engine].sig = h \/ h \in doubtful' \/ ~NoLate(h)') => sig'[h] \in SignalTypes
            /\ h \in doubtful' => (result'[h] # "new" \/ call'[Engine].sig = h)
      BY <1>t, <1>0, <1>1, <1>i, <2>1, <2>4, <2>5, <2>6 DEF CallShape
    <3> QED BY <1>t, <1>0, <1>1, <2>1, <2>4, <2>5, <3>1, <3>2, <3>3 DEF CallShape
  <2>9. FreshInv' /\ RetryInv' /\ AnswerInv' /\ ResultInv'
    BY <1>t, <1>0, <1>1, <1>i, <2>1, <2>4, <2>5
    DEF FreshInv, RetryInv, AnswerInv, ResultInv, Placing
  <2>10. PlacedPerAttempt'
    <3>1. \A h \in Signals : Attempts(h)' = Attempts(h)
      BY <1>0, <1>i, <2>1, <2>4 DEF Attempts
    <3> QED BY <1>t, <1>0, <2>5, <3>1 DEF PlacedPerAttempt
  <2>11. PaperInv'
    <3>1. Sure' = Sure
      <4>1. \A h \in doubtful : sig'[h] = sig[h]
        BY <1>t, <1>0, <1>i, <2>6 DEF TypeOK
      <4>2. {sig'[h].sym : h \in doubtful} = {sig[h].sym : h \in doubtful}
        BY <4>1
      <4> QED BY <1>0, <4>2 DEF Sure, SureOf
    <3> QED BY <1>t, <1>0, <1>i, <2>1, <2>4, <3>1 DEF PaperInv, Paper, Authorized
  <2> QED BY <2>7, <2>8, <2>9, <2>10, <2>11 DEF IInv
<1>2. CASE result' = [result EXCEPT ![g] = "aborted"] /\ UNCHANGED <<sig, call, net>>
  <2>1. result'[g] = "aborted" /\ \A h \in Signals : h # g => result'[h] = result[h]
    BY <1>t, <1>2 DEF TypeOK
  <2>2. TypeOK'
    BY <1>t, <1>0, <1>2 DEF TypeOK
  <2>3. CallShape'
    BY <1>t, <1>0, <1>2, <1>i, <2>1 DEF CallShape, NoLate
  <2>4. FreshInv' /\ RetryInv' /\ AnswerInv' /\ ResultInv'
    BY <1>t, <1>0, <1>2, <1>i, <2>1
    DEF IInv, FreshInv, RetryInv, AnswerInv, ResultInv, Placing, NoLate
  <2>5. PlacedPerAttempt'
    BY <1>t, <1>0, <1>2 DEF PlacedPerAttempt, Attempts, Late
  <2>6. PaperInv'
    BY SMTT(30), <1>t, <1>0, <1>2 DEF PaperInv, Paper, Authorized, Sure, SureOf, Open
  <2> QED BY <2>2, <2>3, <2>4, <2>5, <2>6 DEF IInv
<1> QED BY <1>1, <1>2 DEF ExecuteSignal, Dispatch

\* The engine's call when its attempt has ended: what the invariant says of it.
LEMMA EngineCalls ==
  ASSUME IInv, inbox[Engine] # NoAnswer
  PROVE  /\ call[Engine] \in Calls /\ inbox[Engine] \in Answers
         /\ call[Engine].path \in {"positions", "place"}
         /\ call[Engine].sig \in Signals /\ call[Engine].sig # NoSignal
         /\ call[Engine].attempt \in 1..MaxRetries
         /\ result[call[Engine].sig] = "new"
<1>1. call[Engine] # Idle
  BY ClientsTwo DEF IInv, CallShape
<1>2. call[Engine] \in Calls /\ inbox[Engine] \in Answers
  BY <1>1, ClientsTwo DEF IInv, TypeOK
<1> QED BY <1>1, <1>2, CallFields DEF IInv, CallShape

\* A retry is made only of an attempt that was not answered, or 5xx.
LEMMA RetryableDoubtful ==
  ASSUME NEW a \in Answers, Retryable(a)
  PROVE  a.status \notin 200..499
<1>1. CASE a.status >= 500
  BY <1>1 DEF Answers
<1>2. CASE a = TimedOut
  BY <1>2 DEF TimedOut, Answer
<1> QED BY <1>1, <1>2 DEF Retryable

\* How the engine's attempt can end.
LEMMA EngineEnds ==
  ASSUME IInv, AttemptEnds(Engine)
  PROVE
    LET g == call[Engine].sig
        st == inbox[Engine].status
        k == [call[Engine] EXCEPT !.attempt = @ + 1]
    IN  /\ inbox[Engine] # NoAnswer /\ inbox' = [inbox EXCEPT ![Engine] = NoAnswer]
        /\ UNCHANGED <<pos, orders, cfg, sig, faults, acts, placed, masked>>
        /\ doubtful' = IF st \in 200..499 THEN doubtful ELSE doubtful \cup {g}
        /\ \/ /\ st \notin 200..499 /\ call[Engine].attempt < MaxRetries
              /\ call' = [call EXCEPT ![Engine] = k]
              /\ net' = net \cup {Request(Engine, k)}
              /\ UNCHANGED result
           \/ /\ call[Engine].path = "positions"
              /\ (IF st = 200 THEN inbox[Engine].count ELSE 0) < MaxOpenPositions
              /\ call' = [call EXCEPT ![Engine] = Call("place", g)]
              /\ net' = net \cup {Request(Engine, Call("place", g))}
              /\ UNCHANGED result
           \/ /\ \E v \in {"ok", "dry_run", "aborted"} :
                   /\ result' = [result EXCEPT ![g] = v]
                   /\ call[Engine].path = "positions" => v # "ok"
                   /\ call[Engine].path = "place" =>
                        /\ v # "dry_run"
                        /\ v = "ok" <=> st = 200
              /\ call' = [call EXCEPT ![Engine] = Idle]
              /\ UNCHANGED net
<1> DEFINE g == call[Engine].sig
           st == inbox[Engine].status
           k == [call[Engine] EXCEPT !.attempt = @ + 1]
           a == inbox[Engine]
<1>1. /\ a # NoAnswer /\ inbox' = [inbox EXCEPT ![Engine] = NoAnswer]
      /\ doubtful' = IF st \in 200..499 THEN doubtful ELSE doubtful \cup ({g} \ {NoSignal})
      /\ IF Retryable(a) /\ call[Engine].attempt < MaxRetries
         THEN Retry(Engine) ELSE Completed(Engine, a)
  BY DEF AttemptEnds
<1>2. /\ call[Engine] \in Calls /\ a \in Answers
      /\ call[Engine].path \in {"positions", "place"} /\ g \in Signals /\ g # NoSignal
  BY <1>1, EngineCalls
<1>3. doubtful' = IF st \in 200..499 THEN doubtful ELSE doubtful \cup {g}
  BY <1>1, <1>2
<1>4. CASE Retryable(a) /\ call[Engine].attempt < MaxRetries
  <2>1. Retry(Engine) /\ st \notin 200..499
    BY <1>1, <1>2, <1>4, RetryableDoubtful
  <2>2. /\ call' = [call EXCEPT ![Engine] = k]
        /\ net' = net \cup {Request(Engine, k)}
        /\ UNCHANGED <<pos, orders, cfg, sig, result, faults, acts, placed, masked>>
    BY <2>1 DEF Retry, Dispatch, account, bounds
  <2> HIDE DEF k
  <2> QED BY <1>1, <1>3, <1>4, <2>1, <2>2 DEF k
<1>5. CASE ~(Retryable(a) /\ call[Engine].attempt < MaxRetries)
  <2>0. Completed(Engine, a)
    BY <1>1, <1>5
  <2>1. CASE call[Engine].path = "positions"
    <3>1. AuthorizeExecution(g, IF Good(a) THEN a.count ELSE 0)
      BY <2>0, <2>1, ClientsTwo DEF Completed
    <3>2. PICK pnl \in PnlReadings :
            LET ok == RiskOk(pnl, IF Good(a) THEN a.count ELSE 0, sig[g].qty)
            IN  IF ok /\ ~cfg.dry
                THEN Dispatch(Engine, Call("place", g)) /\ UNCHANGED result
                ELSE /\ result' = [result EXCEPT ![g] = IF ok THEN "dry_run" ELSE "aborted"]
                     /\ call' = [call EXCEPT ![Engine] = Idle]
                     /\ UNCHANGED net
      BY <3>1 DEF AuthorizeExecution
    <3>3. UNCHANGED <<pos, orders, cfg, sig, faults, acts, placed, masked>>
      BY <3>1 DEF AuthorizeExecution, account, bounds
    <3> DEFINE ok == RiskOk(pnl, IF Good(a) THEN a.count ELSE 0, sig[g].qty)
    <3>4. CASE ok /\ ~cfg.dry
      <4>1. /\ call' = [call EXCEPT ![Engine] = Call("place", g)]
            /\ net' = net \cup {Request(Engine, Call("place", g))}
            /\ UNCHANGED result
        BY <3>2, <3>4 DEF Dispatch
      <4>2. (IF st = 200 THEN a.count ELSE 0) < MaxOpenPositions
        BY <3>4 DEF RiskOk, Good
      <4> QED BY <1>1, <1>3, <2>1, <3>3, <4>1, <4>2
    <3>5. CASE ~(ok /\ ~cfg.dry)
      <4>1. /\ result' = [result EXCEPT ![g] = IF ok THEN "dry_run" ELSE "aborted"]
            /\ call' = [call EXCEPT ![Engine] = Idle]
            /\ UNCHANGED net
        BY <3>2, <3>5
      <4>2. \E v \in {"ok", "dry_run", "aborted"} : result' = [result EXCEPT ![g] = v] /\ v # "ok"
        <5> HIDE DEF ok
        <5> QED BY <4>1
      <4> HIDE DEF ok
      <4> QED BY <1>1, <1>3, <2>1, <3>3, <4>1, <4>2
    <3> QED BY <3>4, <3>5
  <2>2. CASE call[Engine].path = "place"
    <3>1. /\ result' = [result EXCEPT ![g] = IF st = 200 THEN "ok" ELSE "aborted"]
          /\ call' = [call EXCEPT ![Engine] = Idle]
          /\ UNCHANGED <<pos, orders, cfg, sig, net, faults, acts, placed, masked>>
      BY <2>0, <2>2, ClientsTwo DEF Completed, Good, account, bounds
    <3>2. \E v \in {"ok", "dry_run", "aborted"} :
            /\ result' = [result EXCEPT ![g] = v] /\ v # "dry_run"
            /\ v = "ok" <=> st = 200
      BY <3>1
    <3> QED BY <1>1, <1>3, <2>2, <3>1, <3>2
  <2> QED BY <1>2, <2>1, <2>2
<1> HIDE DEF k
<1> QED BY <1>4, <1>5 DEF k

\* An attempt's end may put its signal among the doubtful.
DoubtGrows(g) == doubtful' = doubtful \/ doubtful' = doubtful \cup {g}

\* What the end of the engine's attempt makes of the doubtful, and the count
\* the gate goes by.
DoubtEnds(g) ==
  doubtful' = IF inbox[Engine].status \in 200..499 THEN doubtful ELSE doubtful \cup {g}
GateCount == IF inbox[Engine].status = 200 THEN inbox[Engine].count ELSE 0

\* More doubt, fewer positions that are not in doubt.
LEMMA DoubtFacts ==
  ASSUME TypeOK, CallShape, NEW g \in Signals, DoubtGrows(g), UNCHANGED <<pos, sig>>
  PROVE  /\ doubtful' \subseteq Signals /\ IsFiniteSet(doubtful') /\ doubtful \subseteq doubtful'
         /\ \A h \in Signals : h # g => (h \in doubtful' <=> h \in doubtful)
         /\ Cardinality(Sure') <= Cardinality(Sure)
         /\ Cardinality(Sure) \in Nat /\ Cardinality(Sure') \in Nat
<1>1. doubtful' \subseteq Signals /\ doubtful \subseteq doubtful'
  BY DEF TypeOK, DoubtGrows
<1>2. IsFiniteSet(doubtful')
  BY FS_AddElement DEF CallShape, DoubtGrows
<1>3. \A h \in Signals : h # g => (h \in doubtful' <=> h \in doubtful)
  BY DEF DoubtGrows
<1>4. Sure = SureOf(pos, sig, doubtful) /\ Sure' = SureOf(pos, sig, doubtful')
  BY DEF Sure, SureOf, Open
<1>5. SureOf(pos, sig, doubtful') \subseteq SureOf(pos, sig, doubtful)
  BY <1>1 DEF SureOf
<1> QED BY <1>1, <1>2, <1>3, <1>4, <1>5, SureFinite, SureSubset

\* One more request on the link is at most one more late placement.
LEMMA LateGrows ==
  ASSUME IsFiniteSet(net), NEW r, net' = net \cup {r}
  PROVE  /\ IsFiniteSet(net')
         /\ \A h : Late(h) \in Nat /\ Late(h)' \in Nat /\ Late(h)' <= Late(h) + 1
         /\ \A h : ~PlaceRequest(r, h) => Late(h)' = Late(h) /\ (NoLate(h)' <=> NoLate(h))
         /\ \A h : NoLate(h) <=> Late(h) = 0
<1>1. IsFiniteSet(net')
  BY FS_AddElement
<1>2. \A h : /\ Cardinality(LateIn(net, h)) \in Nat
             /\ Cardinality(LateIn(net', h)) \in Nat
             /\ Cardinality(LateIn(net', h)) <= Cardinality(LateIn(net, h)) + 1
             /\ ~PlaceRequest(r, h) => Cardinality(LateIn(net', h)) = Cardinality(LateIn(net, h))
             /\ Cardinality(LateIn(net, h)) = 0 <=> NoLate(h)
  <2> TAKE h
  <2>1. /\ Cardinality(LateIn(net \cup {r}, h)) <= Cardinality(LateIn(net, h)) + 1
        /\ ~PlaceRequest(r, h) =>
             Cardinality(LateIn(net \cup {r}, h)) = Cardinality(LateIn(net, h))
    BY LateAdd
  <2>2. Cardinality(LateIn(net, h)) \in Nat /\ Cardinality(LateIn(net', h)) \in Nat
    BY <1>1, LateCount
  <2>3. Cardinality(LateIn(net, h)) = 0 <=> NoLate(h)
    BY LateCount DEF NoLate
  <2> QED BY <2>1, <2>2, <2>3
<1>3. \A h : ~PlaceRequest(r, h) => (NoLate(h)' <=> NoLate(h))
  BY DEF NoLate
<1>4. \A h : Late(h) = Cardinality(LateIn(net, h)) /\ Late(h)' = Cardinality(LateIn(net', h))
  BY DEF Late, LateIn
<1> QED BY <1>1, <1>2, <1>3, <1>4

\* The engine tries again: one more request, and the signal is in doubt.
LEMMA EngineRetries ==
  ASSUME IInv, NEW g \in Signals, g = call[Engine].sig,
         NEW k, k = [call[Engine] EXCEPT !.attempt = @ + 1],
         inbox[Engine] # NoAnswer, call[Engine].attempt < MaxRetries,
         inbox' = [inbox EXCEPT ![Engine] = NoAnswer],
         UNCHANGED <<pos, orders, cfg, sig, faults, acts, placed, masked, result>>,
         doubtful' = doubtful \cup {g},
         call' = [call EXCEPT ![Engine] = k], net' = net \cup {Request(Engine, k)}
  PROVE  IInv'
<1> DEFINE r == Request(Engine, k)
<1>t. /\ TypeOK /\ CallShape /\ FreshInv /\ RetryInv /\ PlacedPerAttempt /\ ResultInv /\ PaperInv
  BY DEF IInv
<1>1. /\ call[Engine] \in Calls /\ call[Engine].path \in {"positions", "place"}
      /\ call[Engine].attempt \in 1..MaxRetries /\ result[g] = "new"
  BY EngineCalls
<1>2. /\ k \in Calls /\ k.path = call[Engine].path /\ k.sig = g
      /\ k.attempt = call[Engine].attempt + 1 /\ k # Idle
  BY <1>1, NextAttempt, CallFields
<1>3. r.client = Engine /\ r.path = k.path /\ r.sig = g
  BY <1>2 DEF r, Request
<1>4. net' = net \cup {r}
  BY DEF r
<1> HIDE DEF r
<1>5. call'[Engine] = k /\ call'[Panel] = call[Panel]
      /\ inbox'[Engine] = NoAnswer /\ inbox'[Panel] = inbox[Panel]
  BY <1>t, ClientsTwo DEF TypeOK
<1>6. DoubtGrows(g)
  BY DEF DoubtGrows
<1>7. /\ doubtful' \subseteq Signals /\ IsFiniteSet(doubtful') /\ g \in doubtful'
      /\ \A h \in Signals : h # g => (h \in doubtful' <=> h \in doubtful)
      /\ Cardinality(Sure') <= Cardinality(Sure)
      /\ Cardinality(Sure) \in Nat /\ Cardinality(Sure') \in Nat
  BY <1>t, <1>6, DoubtFacts
<1>8. /\ IsFiniteSet(net) /\ IsFiniteSet(net')
      /\ \A h : h # g \/ k.path # "place" => Late(h)' = Late(h) /\ (NoLate(h)' <=> NoLate(h))
      /\ \A h : Late(h) \in Nat /\ Late(h)' \in Nat /\ Late(h)' <= Late(h) + 1
  <2>1. IsFiniteSet(net)
    BY <1>t DEF CallShape
  <2>2. \A h : h # g \/ k.path # "place" => ~PlaceRequest(r, h)
    BY <1>3 DEF PlaceRequest
  <2> QED BY <1>4, <2>1, <2>2, LateGrows
<1>9. TypeOK'
  <2>1. call' \in [Clients -> Calls \cup {Idle}]
    BY <1>t, <1>2 DEF TypeOK
  <2>2. inbox' \in [Clients -> Answers \cup {NoAnswer}]
    BY <1>t DEF TypeOK
  <2>3. \A q \in net' : q.client \in Clients /\ q.path \in Paths
    BY <1>t, <1>2, <1>3, <1>4, ClientsTwo, CallFields DEF TypeOK
  <2> QED BY <1>t, <1>7, <2>1, <2>2, <2>3 DEF TypeOK
<1>10. CallShape'
  <2>1. \A c \in Clients : inbox'[c] # NoAnswer => call'[c] # Idle
    BY <1>t, <1>5, ClientsTwo DEF CallShape
  <2>2. \A q \in net' : q.path = "place" => q.client = Engine /\ q.sig \in Signals
    BY <1>t, <1>3, <1>4 DEF CallShape
  <2>3. sig[g] \in SignalTypes
    BY <1>t DEF CallShape
  <2>4. \A h \in Signals :
          /\ (call'[Engine].sig = h \/ h \in doubtful' \/ ~NoLate(h)') => sig'[h] \in SignalTypes
          /\ h \in doubtful' => (result'[h] # "new" \/ call'[Engine].sig = h)
    BY <1>t, <1>2, <1>5, <1>7, <1>8, <2>3 DEF CallShape
  <2> QED BY <1>t, <1>1, <1>2, <1>5, <1>7, <1>8, <2>1, <2>2, <2>4 DEF CallShape
<1>11. \A h \in Signals : Placing(h)' <=> Placing(h)
  BY <1>2, <1>5 DEF Placing
<1>12. FreshInv' /\ RetryInv' /\ AnswerInv' /\ ResultInv'
  <2>1. FreshInv'
    <3>1. \A h \in Signals : ~Placing(h) => h # g \/ k.path # "place"
      BY <1>2 DEF Placing
    <3> QED BY <1>t, <1>8, <1>11, <3>1 DEF FreshInv
  <2>2. RetryInv' /\ AnswerInv'
    BY <1>2, <1>5, <1>7 DEF RetryInv, AnswerInv
  <2>3. ResultInv'
    BY <1>t, <1>1, <1>7, <1>8 DEF ResultInv
  <2> QED BY <2>1, <2>2, <2>3
<1>13. PlacedPerAttempt'
  <2> SUFFICES ASSUME NEW h \in Signals PROVE placed[h] + Late(h)' <= Attempts(h)'
    BY DEF PlacedPerAttempt
  <2>1. placed[h] \in Nat /\ placed[h] + Late(h) <= Attempts(h)
    BY <1>t DEF PlacedPerAttempt, TypeOK
  <2>2. CASE h = g /\ k.path = "place"
    <3>1. Attempts(h) = call[Engine].attempt /\ Attempts(h)' = call[Engine].attempt + 1
      BY <2>2, <1>2, <1>5 DEF Attempts
    <3> QED BY <2>1, <3>1, <1>8, <1>1
  <2>3. CASE h # g \/ k.path # "place"
    <3>1. ~(call[Engine].path = "place" /\ call[Engine].sig = h)
          /\ ~(call'[Engine].path = "place" /\ call'[Engine].sig = h)
      BY <2>3, <1>2, <1>5
    <3>2. h \in doubtful => h \in doubtful'
      OBVIOUS
    <3>3. Attempts(h) <= Attempts(h)' /\ Attempts(h) \in Nat /\ Attempts(h)' \in Nat
      BY <3>1, <3>2 DEF Attempts, MaxRetries
    <3> QED BY <2>1, <2>3, <3>3, <1>8
  <2> QED BY <2>2, <2>3
<1>14. PaperInv'
  <2>1. Open(pos)' = Open(pos)
    BY DEF Open
  <2> QED BY <1>t, <1>2, <1>5, <1>7, <2>1 DEF PaperInv, Paper, Authorized
<1> QED BY <1>9, <1>10, <1>12, <1>13, <1>14 DEF IInv

\* The gate lets the signal through: the first attempt to place it.
LEMMA EnginePlaces ==
  ASSUME IInv, NEW g \in Signals, g = call[Engine].sig,
         inbox[Engine] # NoAnswer, call[Engine].path = "positions",
         GateCount < MaxOpenPositions,
         inbox' = [inbox EXCEPT ![Engine] = NoAnswer],
         UNCHANGED <<pos, orders, cfg, sig, faults, acts, placed, masked, result>>,
         DoubtEnds(g),
         call' = [call EXCEPT ![Engine] = Call("place", g)],
         net' = net \cup {Request(Engine, Call("place", g))}
  PROVE  IInv'
<1> DEFINE k == Call("place", g)
           r == Request(Engine, k)
<1>t. /\ TypeOK /\ CallShape /\ FreshInv /\ RetryInv /\ PlacedPerAttempt /\ ResultInv /\ PaperInv
  BY DEF IInv
<1>1. result[g] = "new" /\ inbox[Engine] \in Answers
  BY EngineCalls
<1>2. k \in Calls /\ k.path = "place" /\ k.sig = g /\ k.attempt = 1 /\ k # Idle
  BY CallFields DEF Paths
<1>3. r.client = Engine /\ r.path = "place" /\ r.sig = g
  BY <1>2 DEF r, Request
<1>4. net' = net \cup {r} /\ call' = [call EXCEPT ![Engine] = k]
  BY DEF r
<1> HIDE DEF r, k
<1>5. call'[Engine] = k /\ call'[Panel] = call[Panel]
      /\ inbox'[Engine] = NoAnswer /\ inbox'[Panel] = inbox[Panel]
  BY <1>t, <1>4, ClientsTwo DEF TypeOK
<1>6. DoubtGrows(g)
  BY DEF DoubtGrows, DoubtEnds
<1>7. /\ doubtful' \subseteq Signals /\ IsFiniteSet(doubtful')
      /\ \A h \in Signals : h # g => (h \in doubtful' <=> h \in doubtful)
      /\ Cardinality(Sure') <= Cardinality(Sure)
      /\ Cardinality(Sure) \in Nat /\ Cardinality(Sure') \in Nat
  BY <1>t, <1>6, DoubtFacts
<1>8. /\ IsFiniteSet(net')
      /\ \A h : h # g => Late(h)' = Late(h) /\ (NoLate(h)' <=> NoLate(h))
      /\ \A h : Late(h) \in Nat /\ Late(h)' \in Nat /\ Late(h)' <= Late(h) + 1
      /\ \A h : NoLate(h) <=> Late(h) = 0
  <2>1. IsFiniteSet(net)
    BY <1>t DEF CallShape
  <2>2. \A h : h # g => ~PlaceRequest(r, h)
    BY <1>3 DEF PlaceRequest
  <2> QED BY <1>4, <2>1, <2>2, LateGrows
<1>9. TypeOK'
  <2>1. call' \in [Clients -> Calls \cup {Idle}]
    BY <1>t, <1>2, <1>4 DEF TypeOK
  <2>2. inbox' \in [Clients -> Answers \cup {NoAnswer}]
    BY <1>t DEF TypeOK
  <2>3. \A q \in net' : q.client \in Clients /\ q.path \in Paths
    BY <1>t, <1>3, <1>4, ClientsTwo DEF TypeOK, Paths
  <2> QED BY <1>t, <1>7, <2>1, <2>2, <2>3 DEF TypeOK
<1>10. CallShape'
  <2>1. \A c \in Clients : inbox'[c] # NoAnswer => call'[c] # Idle
    BY <1>t, <1>5, ClientsTwo DEF CallShape
  <2>2. \A q \in net' : q.path = "place" => q.client = Engine /\ q.sig \in Signals
    BY <1>t, <1>3, <1>4 DEF CallShape
  <2>3. sig[g] \in SignalTypes
    BY <1>t DEF CallShape
  <2>4. \A h \in Signals :
          /\ (call'[Engine].sig = h \/ h \in doubtful' \/ ~NoLate(h)') => sig'[h] \in SignalTypes
          /\ h \in doubtful' => (result'[h] # "new" \/ call'[Engine].sig = h)
    BY <1>t, <1>2, <1>5, <1>7, <1>8, <2>3 DEF CallShape
  <2> QED BY <1>t, <1>1, <1>2, <1>5, <1>7, <1>8, <2>1, <2>2, <2>4 DEF CallShape
<1>11. placed[g] = 0 /\ NoLate(g) /\ Late(g) = 0
  <2>1. ~Placing(g)
    BY DEF Placing
  <2> QED BY <1>t, <1>1, <1>8, <2>1 DEF FreshInv
<1>12. FreshInv' /\ RetryInv' /\ AnswerInv' /\ ResultInv'
  <2>1. \A h \in Signals : ~Placing(h) /\ (Placing(h)' <=> h = g)
    BY <1>2, <1>5 DEF Placing
  <2>2. FreshInv'
    BY <1>t, <1>8, <2>1 DEF FreshInv
  <2>3. RetryInv' /\ AnswerInv'
    BY <1>2, <1>5 DEF RetryInv, AnswerInv
  <2>4. ResultInv'
    BY <1>t, <1>1, <1>7, <1>8 DEF ResultInv
  <2> QED BY <2>2, <2>3, <2>4
<1>13. PlacedPerAttempt'
  <2> SUFFICES ASSUME NEW h \in Signals PROVE placed[h] + Late(h)' <= Attempts(h)'
    BY DEF PlacedPerAttempt
  <2>1. placed[h] \in Nat /\ placed[h] + Late(h) <= Attempts(h)
    BY <1>t DEF PlacedPerAttempt, TypeOK
  <2>2. CASE h = g
    <3>1. Attempts(h)' = 1
      BY <2>2, <1>2, <1>5 DEF Attempts
    <3>2. placed[h] = 0 /\ Late(h)' <= 1
      BY <2>2, <1>8, <1>11
    <3> QED BY <3>1, <3>2, <1>8
  <2>3. CASE h # g
    <3>1. h \in doubtful' <=> h \in doubtful
      BY <2>3, <1>7
    <3>2. Attempts(h)' = Attempts(h)
      BY <2>3, <3>1, <1>2, <1>5 DEF Attempts
    <3> QED BY <2>1, <2>3, <3>2, <1>8
  <2> QED BY <2>2, <2>3
<1>14. PaperInv'
  <2>1. Open(pos)' = Open(pos)
    BY DEF Open
  <2>2. ASSUME Paper, g \notin doubtful', Authorized
        PROVE  Cardinality(Sure) < MaxOpenPositions
    <3>1. inbox[Engine].status \in 200..499 /\ g \notin doubtful
      BY <2>2, <1>1 DEF Answers, DoubtEnds
    <3>2. inbox[Engine].status = 200 \/ inbox[Engine].status \in 201..499
      BY SMTT(30), <3>1
    <3>3. inbox[Engine].status = 200 /\ Cardinality(Sure) <= inbox[Engine].count
      BY SMTT(30), <1>t, <2>2, <3>1, <3>2 DEF PaperInv
    <3>4. inbox[Engine].count \in Nat /\ inbox[Engine].count < MaxOpenPositions
      BY <1>1, <3>3 DEF Answers, GateCount
    <3> QED BY <3>3, <3>4, <1>7
  <2> QED BY SMTT(30), <1>t, <1>2, <1>5, <1>7, <2>1, <2>2 DEF PaperInv, Paper, Authorized
<1> QED BY <1>9, <1>10, <1>12, <1>13, <1>14 DEF IInv

\* The answer to the signal, given what its last attempt brought.
Answered(g, v) ==
  /\ result' = [result EXCEPT ![g] = v]
  /\ call[Engine].path = "positions" => v # "ok"
  /\ call[Engine].path = "place" =>
       /\ v # "dry_run"
       /\ v = "ok" <=> inbox[Engine].status = 200

\* The engine has its answer: the signal is over.
LEMMA EngineStops ==
  ASSUME IInv, NEW g \in Signals, g = call[Engine].sig,
         inbox[Engine] # NoAnswer, NEW v \in {"ok", "dry_run", "aborted"}, Answered(g, v),
         inbox' = [inbox EXCEPT ![Engine] = NoAnswer],
         UNCHANGED <<pos, orders, cfg, sig, faults, acts, placed, masked, net>>,
         DoubtEnds(g), call' = [call EXCEPT ![Engine] = Idle]
  PROVE  IInv'
<1>t. /\ TypeOK /\ CallShape /\ FreshInv /\ RetryInv /\ PlacedPerAttempt /\ AnswerInv
      /\ ResultInv /\ PaperInv
  BY DEF IInv
<1>1. /\ result[g] = "new" /\ inbox[Engine] \in Answers
      /\ call[Engine].path \in {"positions", "place"} /\ call[Engine].attempt \in 1..MaxRetries
  BY EngineCalls
<1>2. result'[g] = v /\ \A h \in Signals : h # g => result'[h] = result[h]
  BY <1>t DEF TypeOK, Answered
<1>3. /\ call'[Engine] = Idle /\ call'[Panel] = call[Panel]
      /\ inbox'[Engine] = NoAnswer /\ inbox'[Panel] = inbox[Panel]
      /\ call'[Engine].path = "none" /\ call'[Engine].sig = NoSignal
  BY <1>t, ClientsTwo, CallFields DEF TypeOK
<1>4. /\ \A h : Late(h)' = Late(h) /\ (NoLate(h)' <=> NoLate(h))
      /\ Open(pos)' = Open(pos)
  BY DEF Late, NoLate, Open
<1>5. DoubtGrows(g)
  BY DEF DoubtGrows, DoubtEnds
<1>6. /\ doubtful' \subseteq Signals /\ IsFiniteSet(doubtful') /\ doubtful \subseteq doubtful'
      /\ \A h \in Signals : h # g => (h \in doubtful' <=> h \in doubtful)
      /\ Cardinality(Sure') <= Cardinality(Sure)
      /\ Cardinality(Sure) \in Nat /\ Cardinality(Sure') \in Nat
  BY <1>t, <1>5, DoubtFacts
<1>7. \A h \in Signals : ~Placing(h)' /\ (Placing(h) => h = g)
  BY <1>3 DEF Placing
<1>8. TypeOK'
  <2>1. call' \in [Clients -> Calls \cup {Idle}] /\ inbox' \in [Clients -> Answers \cup {NoAnswer}]
    BY <1>t DEF TypeOK
  <2>2. result' \in [Signals -> {"new", "ok", "dry_run", "aborted"}]
    BY <1>t DEF TypeOK, Answered
  <2> QED BY <1>t, <1>6, <2>1, <2>2 DEF TypeOK
<1>9. CallShape'
  <2>1. \A c \in Clients : inbox'[c] # NoAnswer => call'[c] # Idle
    BY <1>t, <1>3, ClientsTwo DEF CallShape
  <2>2. sig[g] \in SignalTypes
    BY <1>t DEF CallShape
  <2>3. \A h \in Signals :
          /\ (call'[Engine].sig = h \/ h \in doubtful' \/ ~NoLate(h)') => sig'[h] \in SignalTypes
          /\ h \in doubtful' => (result'[h] # "new" \/ call'[Engine].sig = h)
    BY <1>t, <1>2, <1>3, <1>4, <1>6, <2>2 DEF CallShape
  <2> QED BY <1>t, <1>3, <1>6, <2>1, <2>3 DEF CallShape
<1>10. FreshInv' /\ RetryInv' /\ AnswerInv'
  <2>1. FreshInv'
    BY <1>t, <1>2, <1>4, <1>7 DEF FreshInv
  <2> QED BY <1>3, <1>7, <2>1 DEF RetryInv, AnswerInv
<1>11. PlacedPerAttempt'
  <2> SUFFICES ASSUME NEW h \in Signals PROVE placed[h] + Late(h) <= Attempts(h)'
    BY <1>4 DEF PlacedPerAttempt
  <2>1. placed[h] \in Nat /\ placed[h] + Late(h) <= Attempts(h) /\ Late(h) \in Nat
    <3>1. IsFiniteSet(net)
      BY <1>t DEF CallShape
    <3>2. Late(h) \in Nat
      BY <3>1, LateCount DEF Late, LateIn
    <3> QED BY <1>t, <3>2 DEF PlacedPerAttempt, TypeOK
  <2>2. Attempts(h)' = IF h \in doubtful' THEN 3 ELSE 1
    BY <1>3 DEF Attempts, MaxRetries
  <2>3. CASE Placing(h) /\ h \in doubtful'
    <3>1. Attempts(h) = call[Engine].attempt
      BY <2>3 DEF Attempts, Placing
    <3> QED BY <1>1, <2>1, <2>2, <2>3, <3>1 DEF MaxRetries
  <2>4. CASE Placing(h) /\ h \notin doubtful'
    <3>1. h \notin doubtful /\ Attempts(h) = call[Engine].attempt
      BY <1>6, <2>4 DEF Attempts, Placing
    <3>2. call[Engine].attempt = 1
      BY <1>t, <1>1, <2>4, <3>1 DEF RetryInv, Placing, MaxRetries
    <3> QED BY <2>1, <2>2, <2>4, <3>1, <3>2
  <2>5. CASE ~Placing(h)
    <3>1. Attempts(h) = IF h \in doubtful THEN 3 ELSE 1
      BY <2>5 DEF Attempts, Placing, MaxRetries
    <3>2. h \in doubtful => h \in doubtful'
      BY <1>6
    <3> QED BY <2>1, <2>2, <3>1, <3>2
  <2> QED BY <2>3, <2>4, <2>5
<1>12. ResultInv'
  <2>1. ASSUME NEW h \in Signals, h # g
        PROVE  /\ result'[h] = "ok" => placed[h] > 0
               /\ result'[h] # "new" /\ h \notin doubtful' => NoLate(h)
               /\ result'[h] = "aborted" /\ h \notin doubtful' \cup masked => placed[h] = 0
               /\ result'[h] = "dry_run" => placed[h] = 0 /\ NoLate(h)
    BY <1>t, <1>2, <1>6, <2>1 DEF ResultInv
  <2>2. CASE call[Engine].path = "positions"
    <3>1. ~Placing(g) /\ v # "ok"
      BY <2>2 DEF Placing, Answered
    <3>2. placed[g] = 0 /\ NoLate(g)
      BY <1>t, <1>1, <3>1 DEF FreshInv
    <3> QED BY <1>2, <1>4, <2>1, <3>1, <3>2 DEF ResultInv
  <2>3. CASE call[Engine].path = "place"
    <3>1. Placing(g) /\ v # "dry_run" /\ (v = "ok" <=> inbox[Engine].status = 200)
      BY <2>3 DEF Placing, Answered
    <3>2. g \notin doubtful' => inbox[Engine].status \in 200..499 /\ g \notin doubtful
      BY DEF DoubtEnds
    <3>3. /\ inbox[Engine].status = 200 => placed[g] > 0
          /\ g \notin doubtful' =>
               NoLate(g) /\ (inbox[Engine].status # 200 /\ g \notin masked => placed[g] = 0)
      BY SMTT(30), <1>t, <3>1, <3>2 DEF AnswerInv
    <3>4. /\ v = "ok" => placed[g] > 0
          /\ g \notin doubtful' => NoLate(g)
          /\ v = "aborted" /\ g \notin doubtful' \cup masked => placed[g] = 0
      BY <3>1, <3>3
    <3> QED BY <1>2, <1>4, <2>1, <3>1, <3>4 DEF ResultInv
  <2> QED BY <1>1, <2>2, <2>3
<1>13. PaperInv'
  BY SMTT(30), <1>t, <1>3, <1>4, <1>6 DEF PaperInv, Paper, Authorized
<1> QED BY <1>8, <1>9, <1>10, <1>11, <1>12, <1>13 DEF IInv

\* The panel waits on square-offs only: the end of its attempt says nothing
\* of a signal.
LEMMA PanelEnds ==
  ASSUME IInv, AttemptEnds(Panel)
  PROVE  IInv'
<1>t. /\ TypeOK /\ CallShape /\ FreshInv /\ RetryInv /\ PlacedPerAttempt /\ AnswerInv
      /\ ResultInv /\ PaperInv
  BY DEF IInv
<1>1. /\ inbox[Panel] # NoAnswer /\ inbox' = [inbox EXCEPT ![Panel] = NoAnswer]
      /\ doubtful' = IF inbox[Panel].status \in 200..499 THEN doubtful
                     ELSE doubtful \cup ({call[Panel].sig} \ {NoSignal})
      /\ IF Retryable(inbox[Panel]) /\ call[Panel].attempt < MaxRetries
         THEN Retry(Panel) ELSE Completed(Panel, inbox[Panel])
  BY DEF AttemptEnds
<1>2. call[Panel] # Idle /\ call[Panel].path = "square_off" /\ call[Panel].sig = NoSignal
      /\ call[Panel] \in Calls
  BY <1>t, <1>1, ClientsTwo DEF CallShape, TypeOK
<1>3. doubtful' = doubtful
  BY <1>1, <1>2
<1> DEFINE k == [call[Panel] EXCEPT !.attempt = @ + 1]
           r == Request(Panel, k)
<1>4. /\ UNCHANGED <<pos, orders, cfg, sig, faults, acts, placed, masked, result>>
      /\ \/ call' = [call EXCEPT ![Panel] = Idle] /\ net' = net
         \/ call[Panel].attempt < MaxRetries /\ call' = [call EXCEPT ![Panel] = k] /\ net' = net \cup {r}
  <2>1. CASE Retryable(inbox[Panel]) /\ call[Panel].attempt < MaxRetries
    BY <1>1, <2>1 DEF Retry, Dispatch, account, bounds
  <2>2. CASE ~(Retryable(inbox[Panel]) /\ call[Panel].attempt < MaxRetries)
    BY <1>1, <2>2, ClientsTwo DEF Completed, account, bounds
  <2> QED BY <2>1, <2>2
<1>5. call[Panel].attempt < MaxRetries =>
        /\ k \in Calls /\ k.path = "square_off" /\ k.sig = NoSignal /\ k # Idle
        /\ r.client = Panel /\ r.path = "square_off"
  <2> SUFFICES ASSUME call[Panel].attempt < MaxRetries
               PROVE  /\ k \in Calls /\ k.path = "square_off" /\ k.sig = NoSignal /\ k # Idle
                      /\ r.client = Panel /\ r.path = "square_off"
    OBVIOUS
  <2>1. k \in Calls /\ k.path = "square_off" /\ k.sig = NoSignal
    BY <1>2, NextAttempt
  <2>2. k # Idle
    BY <2>1, CallFields
  <2>3. r.client = Panel /\ r.path = "square_off"
    <3> HIDE DEF k
    <3> QED BY <2>1 DEF Request
  <2> QED BY <2>1, <2>2, <2>3
<1> HIDE DEF k, r
<1>6. /\ call' \in [Clients -> Calls \cup {Idle}] /\ call'[Engine] = call[Engine]
      /\ call'[Panel] # Idle => call'[Panel].path = "square_off" /\ call'[Panel].sig = NoSignal
  BY ZenonT(60), <1>t, <1>4, <1>5, ClientsTwo DEF TypeOK
<1>7. inbox'[Engine] = inbox[Engine] /\ inbox'[Panel] = NoAnswer
      /\ inbox' \in [Clients -> Answers \cup {NoAnswer}]
  BY <1>t, <1>1, ClientsTwo DEF TypeOK
<1>8. /\ IsFiniteSet(net') /\ \A h : Late(h)' = Late(h) /\ (NoLate(h)' <=> NoLate(h))
      /\ \A q \in net' : q \in net \/ (q.client = Panel /\ q.path = "square_off")
  <2>1. CASE net' = net
    BY <1>t, <2>1 DEF CallShape, Late, NoLate
  <2>2. CASE net' = net \cup {r} /\ call[Panel].attempt < MaxRetries
    <3>1. r.path # "place"
      BY <1>5, <2>2
    <3> QED BY <1>t, <1>5, <2>2, <3>1, LateUnchanged DEF CallShape
  <2> QED BY <1>4, <2>1, <2>2
<1>9. TypeOK'
  <2>1. \A q \in net' : q.client \in Clients /\ q.path \in Paths
    BY <1>t, <1>8, ClientsTwo DEF TypeOK, Paths
  <2> QED BY <1>t, <1>3, <1>4, <1>6, <1>7, <2>1 DEF TypeOK
<1>10. CallShape'
  <2>1. \A c \in Clients : inbox'[c] # NoAnswer => call'[c] # Idle
    BY <1>t, <1>6, <1>7, ClientsTwo DEF CallShape
  <2>2. \A q \in net' : q.path = "place" => q.client = Engine /\ q.sig \in Signals
    BY <1>t, <1>8 DEF CallShape
  <2> QED BY <1>t, <1>3, <1>4, <1>6, <1>8, <2>1, <2>2 DEF CallShape
<1>11. FreshInv' /\ RetryInv' /\ AnswerInv' /\ ResultInv'
  BY SMTT(30), <1>t, <1>3, <1>4, <1>6, <1>7, <1>8 DEF FreshInv, RetryInv, AnswerInv, ResultInv, Placing
<1>12. PlacedPerAttempt'
  BY <1>t, <1>3, <1>4, <1>6, <1>8 DEF PlacedPerAttempt, Attempts
<1>13. PaperInv'
  <2>1. Sure' = Sure /\ Open(pos)' = Open(pos)
    BY <1>3, <1>4 DEF Sure, SureOf, Open
  <2> QED BY SMTT(30), <1>t, <1>3, <1>4, <1>6, <1>7, <2>1 DEF PaperInv, Paper, Authorized
<1> QED BY <1>9, <1>10, <1>11, <1>12, <1>13 DEF IInv

\* The end of an attempt keeps the invariant, whoever's it is.
LEMMA AttemptEndsStep ==
  ASSUME IInv, NEW c \in Clients, AttemptEnds(c)
  PROVE  IInv'
<1>1. CASE c = Panel
  BY <1>1, PanelEnds
<1>2. CASE c = Engine
  <2> DEFINE g == call[Engine].sig
             st == inbox[Engine].status
             k == [call[Engine] EXCEPT !.attempt = @ + 1]
  <2>0. AttemptEnds(Engine)
    BY <1>2
  <2>1. /\ inbox[Engine] # NoAnswer /\ inbox' = [inbox EXCEPT ![Engine] = NoAnswer]
        /\ UNCHANGED <<pos, orders, cfg, sig, faults, acts, placed, masked>>
        /\ doubtful' = IF st \in 200..499 THEN doubtful ELSE doubtful \cup {g}
    BY <2>0, EngineEnds
  <2>g. g \in Signals
    BY <2>1, EngineCalls
  <2>d. DoubtEnds(g)
    BY <2>1 DEF DoubtEnds
  <2>2. CASE /\ st \notin 200..499 /\ call[Engine].attempt < MaxRetries
             /\ call' = [call EXCEPT ![Engine] = k]
             /\ net' = net \cup {Request(Engine, k)}
             /\ UNCHANGED result
    <3>1. doubtful' = doubtful \cup {g}
      BY <2>1, <2>2
    <3> QED BY <2>1, <2>2, <2>g, <3>1, EngineRetries
  <2>3. CASE /\ call[Engine].path = "positions"
             /\ (IF st = 200 THEN inbox[Engine].count ELSE 0) < MaxOpenPositions
             /\ call' = [call EXCEPT ![Engine] = Call("place", g)]
             /\ net' = net \cup {Request(Engine, Call("place", g))}
             /\ UNCHANGED result
    <3>1. GateCount < MaxOpenPositions
      BY <2>3 DEF GateCount
    <3> QED BY <2>1, <2>3, <2>g, <2>d, <3>1, EnginePlaces
  <2>4. ASSUME NEW v \in {"ok", "dry_run", "aborted"}, result' = [result EXCEPT ![g] = v],
               call[Engine].path = "positions" => v # "ok",
               call[Engine].path = "place" => v # "dry_run" /\ (v = "ok" <=> st = 200),
               call' = [call EXCEPT ![Engine] = Idle], UNCHANGED net
        PROVE  IInv'
    <3>1. Answered(g, v)
      BY <2>4 DEF Answered
    <3> QED BY <2>1, <2>4, <2>g, <2>d, <3>1, EngineStops
  <2> HIDE DEF k
  <2> QED BY SMTT(30), <2>0, <2>2, <2>3, <2>4, EngineEnds DEF k
<1> QED BY <1>1, <1>2, ClientsTwo

\* An attempt given up keeps the invariant: its request may be lost or late.
LEMMA GiveUpStep ==
  ASSUME IInv, NEW c \in Clients, GiveUp(c)
  PROVE  IInv'
<1>t. /\ TypeOK /\ CallShape /\ FreshInv /\ RetryInv /\ PlacedPerAttempt /\ AnswerInv
      /\ ResultInv /\ PaperInv
  BY DEF IInv
<1>1. /\ call[c] # Idle /\ inbox[c] = NoAnswer
      /\ UNCHANGED <<pos, orders, cfg, sig, result, call, placed, masked, doubtful, acts>>
      /\ faults < MaxFaults /\ faults' = faults + 1
  BY DEF GiveUp, Fault, account
<1>2. PICK a \in {TimedOut, Disconnected} : inbox' = [inbox EXCEPT ![c] = a]
  BY DEF GiveUp
<1>3. a \in Answers /\ a.status \in {0, 1}
  <2>1. a = Answer(0, FALSE, 0) \/ a = Answer(1, FALSE, 0)
    BY <1>2 DEF TimedOut, Disconnected
  <2>2. \A n \in {0, 1} : Answer(n, FALSE, 0) \in Answers /\ Answer(n, FALSE, 0).status = n
    BY DEF Answer, Answers
  <2> QED BY <2>1, <2>2
<1>4. net' \subseteq net
  BY DEF GiveUp
<1>5. inbox' \in [Clients -> Answers \cup {NoAnswer}] /\ inbox'[c] = a
      /\ \A d \in Clients : d # c => inbox'[d] = inbox[d]
  BY <1>t, <1>2, <1>3 DEF TypeOK
<1>6. IsFiniteSet(net) /\ IsFiniteSet(net')
  BY <1>t, <1>4, FS_Subset DEF CallShape
<1>7. \A h : /\ Late(h) \in Nat /\ Late(h)' \in Nat /\ Late(h)' <= Late(h)
             /\ NoLate(h) => NoLate(h)'
  <2> TAKE h
  <2>1. /\ Cardinality(LateIn(net, h)) \in Nat /\ Cardinality(LateIn(net', h)) \in Nat
        /\ Cardinality(LateIn(net', h)) <= Cardinality(LateIn(net, h))
    BY <1>4, <1>6, LateSubset, LateCount
  <2>2. NoLate(h) => NoLate(h)'
    BY <1>4 DEF NoLate
  <2> QED BY <2>1, <2>2 DEF Late, LateIn
<1>8. TypeOK'
  <2>1. faults' \in 0..MaxFaults
    BY <1>t, <1>1 DEF TypeOK
  <2> QED BY <1>t, <1>1, <1>4, <1>5, <2>1 DEF TypeOK
<1>9. CallShape'
  <2>1. \A d \in Clients : inbox'[d] # NoAnswer => call'[d] # Idle
    BY <1>t, <1>1, <1>5 DEF CallShape
  <2>2. \A h : ~NoLate(h)' => ~NoLate(h)
    BY <1>7
  <2> QED BY <1>t, <1>1, <1>4, <1>6, <2>1, <2>2 DEF CallShape
<1>10. FreshInv' /\ RetryInv' /\ ResultInv'
  BY <1>t, <1>1, <1>7 DEF FreshInv, RetryInv, ResultInv, Placing
<1>11. PlacedPerAttempt'
  <2> SUFFICES ASSUME NEW h \in Signals PROVE placed[h] + Late(h)' <= Attempts(h)
    BY <1>1 DEF PlacedPerAttempt, Attempts
  <2>1. placed[h] \in Nat /\ placed[h] + Late(h) <= Attempts(h)
    BY <1>t DEF PlacedPerAttempt, TypeOK
  <2>2. Attempts(h) \in Nat
    BY <1>t, AttemptsNat
  <2> QED BY <1>7, <2>1, <2>2
<1>12. AnswerInv'
  <2>1. CASE c = Engine
    BY <1>3, <1>5, <2>1 DEF AnswerInv
  <2>2. CASE c # Engine
    <3>1. inbox'[Engine] = inbox[Engine]
      BY <1>5, <2>2, ClientsTwo
    <3> QED BY <1>t, <1>1, <1>7, <3>1 DEF AnswerInv, Placing
  <2> QED BY <2>1, <2>2
<1>13. PaperInv'
  <2>1. Sure' = Sure /\ Open(pos)' = Open(pos)
    BY <1>1 DEF Sure, SureOf, Open
  <2>2. CASE c = Engine
    BY SMTT(30), <1>t, <1>1, <1>3, <1>5, <2>1, <2>2 DEF PaperInv, Paper, Authorized
  <2>3. CASE c # Engine
    <3>1. inbox'[Engine] = inbox[Engine]
      BY <1>5, <2>3, ClientsTwo
    <3> QED BY <1>t, <1>1, <2>1, <3>1 DEF PaperInv, Paper, Authorized
  <2> QED BY <2>2, <2>3
<1> QED BY <1>8, <1>9, <1>10, <1>11, <1>12, <1>13 DEF IInv

\* The panel's button keeps the invariant.
LEMMA PanelSquareOffStep ==
  ASSUME IInv, PanelSquareOff
  PROVE  IInv'
<1>t. /\ TypeOK /\ CallShape /\ FreshInv /\ RetryInv /\ PlacedPerAttempt /\ AnswerInv
      /\ ResultInv /\ PaperInv
  BY DEF IInv
<1> DEFINE k == Call("square_off", NoSignal)
           r == Request(Panel, k)
<1>1. /\ call[Panel] = Idle /\ call' = [call EXCEPT ![Panel] = k] /\ net' = net \cup {r}
      /\ UNCHANGED <<pos, orders, cfg, sig, result, inbox, placed, masked, doubtful, faults>>
      /\ acts < MaxActs /\ acts' = acts + 1
  BY DEF PanelSquareOff, Dispatch, Act, account
<1>2. k \in Calls /\ k.path = "square_off" /\ k.sig = NoSignal /\ k # Idle
  BY CallFields DEF Paths
<1>3. r.client = Panel /\ r.path = "square_off"
  BY <1>2 DEF Request
<1> HIDE DEF k, r
<1>4. /\ call' \in [Clients -> Calls \cup {Idle}]
      /\ call'[Engine] = call[Engine] /\ call'[Panel] = k
  BY <1>t, <1>1, <1>2, ClientsTwo DEF TypeOK
<1>5. IsFiniteSet(net') /\ \A h : Late(h)' = Late(h) /\ (NoLate(h)' <=> NoLate(h))
  <2>1. r.path # "place"
    BY <1>3
  <2> QED BY <1>t, <1>1, <2>1, LateUnchanged DEF CallShape
<1>6. TypeOK'
  <2>1. acts' \in 0..MaxActs
    BY <1>t, <1>1 DEF TypeOK
  <2>2. \A q \in net' : q.client \in Clients /\ q.path \in Paths
    BY <1>t, <1>1, <1>3, ClientsTwo DEF TypeOK, Paths
  <2> QED BY <1>t, <1>1, <1>4, <2>1, <2>2 DEF TypeOK
<1>7. CallShape'
  <2>1. \A d \in Clients : inbox'[d] # NoAnswer => call'[d] # Idle
    BY <1>t, <1>1, <1>4, ClientsTwo DEF CallShape
  <2>2. \A q \in net' : q.path = "place" => q.client = Engine /\ q.sig \in Signals
    BY <1>t, <1>1, <1>3 DEF CallShape
  <2> QED BY <1>t, <1>1, <1>2, <1>4, <1>5, <2>1, <2>2 DEF CallShape
<1>8. FreshInv' /\ RetryInv' /\ AnswerInv' /\ ResultInv'
  BY SMTT(30), <1>t, <1>1, <1>4, <1>5 DEF FreshInv, RetryInv, AnswerInv, ResultInv, Placing
<1>9. PlacedPerAttempt'
  BY <1>t, <1>1, <1>4, <1>5 DEF PlacedPerAttempt, Attempts
<1>10. PaperInv'
  <2>1. Sure' = Sure /\ Open(pos)' = Open(pos)
    BY <1>1 DEF Sure, SureOf, Open
  <2> QED BY SMTT(30), <1>t, <1>1, <1>4, <2>1 DEF PaperInv, Paper, Authorized
<1> QED BY <1>6, <1>7, <1>8, <1>9, <1>10 DEF IInv

\* What the account does by itself changes nothing of what clients know.
LEMMA AccountOnly ==
  ASSUME IInv, UNCHANGED <<cfg, sig, result, call, inbox, net, placed, masked, doubtful>>
  PROVE  CallShape' /\ FreshInv' /\ RetryInv' /\ PlacedPerAttempt' /\ AnswerInv' /\ ResultInv'
<1>1. \A h : Late(h)' = Late(h) /\ (NoLate(h)' <=> NoLate(h)) /\ (Placing(h)' <=> Placing(h))
             /\ Attempts(h)' = Attempts(h)
  BY DEF Late, NoLate, Placing, Attempts
<1>2. CallShape'
  BY <1>1 DEF IInv, CallShape
<1>3. FreshInv' /\ RetryInv' /\ PlacedPerAttempt' /\ AnswerInv' /\ ResultInv'
  BY <1>1 DEF IInv, FreshInv, RetryInv, PlacedPerAttempt, AnswerInv, ResultInv
<1> QED BY <1>2, <1>3

\* An empty paper book is within every bound the gate has seen.
LEMMA EmptyBook ==
  ASSUME IInv, Paper, Open(pos)' = {},
         \A i \in DOMAIN orders' : orders'[i].status # "SUBMITTED",
         inbox'[Engine] = inbox[Engine], UNCHANGED <<cfg, sig, call, placed, masked, doubtful>>
  PROVE  PaperInv'
<1>t. TypeOK /\ PaperInv
  BY DEF IInv
<1>1. Cardinality(Sure') = 0
  BY FS_EmptySet DEF Sure, SureOf
<1>2. Cardinality(Sure) \in Nat /\ MaxOpenPositions \in Nat
  BY SureFinite DEF Sure
<1>3. inbox[Engine] # NoAnswer => inbox[Engine].count \in Nat
  BY <1>t, ClientsTwo DEF TypeOK, Answers
<1>4. Paper' = Paper /\ Authorized' = Authorized
  BY DEF Paper, Authorized
<1>5. /\ Cardinality(Sure') <= MaxOpenPositions
      /\ Cardinality(Sure) < MaxOpenPositions => Cardinality(Sure') < MaxOpenPositions
      /\ inbox[Engine] # NoAnswer => Cardinality(Sure') <= inbox[Engine].count
  BY <1>1, <1>2, <1>3
<1> HIDE DEF Paper, Authorized
<1> QED BY <1>t, <1>4, <1>5 DEF PaperInv

\* A restart of the worker keeps the invariant: the paper book is empty.
LEMMA RestartStep ==
  ASSUME IInv, Restart
  PROVE  IInv'
<1>t. TypeOK /\ PaperInv
  BY DEF IInv
<1>1. /\ UNCHANGED <<cfg, sig, result, call, inbox, net, placed, masked, doubtful, acts>>
      /\ faults < MaxFaults /\ faults' = faults + 1
      /\ pos' = (IF Paper THEN Flat ELSE pos) /\ orders' = (IF Paper THEN <<>> ELSE orders)
  BY DEF Restart, Fault, WorkerRestart
<1>2. TypeOK'
  <2>1. faults' \in 0..MaxFaults
    BY <1>t, <1>1 DEF TypeOK
  <2>2. pos' \in [Syms -> Int]
    BY <1>t, <1>1 DEF TypeOK, Flat
  <2>3. orders' \in Seq(Orders)
    <3>1. <<>> \in Seq(Orders) /\ orders \in Seq(Orders)
      BY <1>t DEF TypeOK
    <3> QED BY <1>1, <3>1
  <2> QED BY <1>t, <1>1, <2>1, <2>2, <2>3 DEF TypeOK
<1>3. PaperInv'
  <2>1. CASE Paper
    <3>1. pos' = Flat /\ orders' = <<>>
      BY <1>1, <2>1
    <3>2. Open(pos)' = {} /\ \A i \in DOMAIN orders' : orders'[i].status # "SUBMITTED"
      BY <3>1 DEF Open, Flat
    <3> QED BY <1>1, <2>1, <3>2, EmptyBook
  <2>2. CASE ~Paper
    BY <1>1, <2>2 DEF PaperInv, Paper
  <2> QED BY <2>1, <2>2
<1> QED BY <1>1, <1>2, <1>3, AccountOnly DEF IInv

\* An order that changes its status stays an order.
LEMMA StatusChange ==
  ASSUME TypeOK, NEW i \in DOMAIN orders, NEW st \in OrderStatus
  PROVE  LET b == [orders EXCEPT ![i].status = st]
         IN  /\ b \in Seq(Orders) /\ DOMAIN b = DOMAIN orders
             /\ b[i].status = st /\ \A j \in DOMAIN orders : j # i => b[j] = orders[j]
<1> DEFINE x == [orders[i] EXCEPT !.status = st]
           b == [orders EXCEPT ![i] = x]
<1>1. orders \in Seq(Orders)
  BY DEF TypeOK
<1>2. orders[i] \in Orders
  BY <1>1
<1>3. x \in Orders /\ x.status = st
  BY <1>2 DEF Orders
<1> HIDE DEF x
<1>4. b \in Seq(Orders)
  BY <1>1, <1>3
<1>5. DOMAIN b = DOMAIN orders /\ b[i] = x /\ \A j \in DOMAIN orders : j # i => b[j] = orders[j]
  BY <1>1
<1> QED BY <1>3, <1>4, <1>5 DEF x

\* A fill keeps the invariant: it is not of the paper book.
LEMMA FillStep ==
  ASSUME IInv, NEW i \in DOMAIN orders, Fill(i)
  PROVE  IInv'
<1>t. TypeOK /\ PaperInv
  BY DEF IInv
<1>1. /\ UNCHANGED <<cfg, sig, result, call, inbox, net, placed, masked, doubtful, faults, acts>>
      /\ orders[i].status = "SUBMITTED"
      /\ orders' = [orders EXCEPT ![i].status = "FILLED"]
      /\ pos' = [pos EXCEPT ![orders[i].sym] = @ + orders[i].qty]
  BY DEF Fill, ExchangeFills, bounds
<1>2. ~Paper
  BY <1>t, <1>1 DEF PaperInv
<1>3. TypeOK'
  <2>1. "FILLED" \in OrderStatus
    BY DEF OrderStatus
  <2>2. orders' \in Seq(Orders)
    BY <1>t, <1>1, <2>1, StatusChange
  <2>3. orders[i] \in Orders
    BY <1>t DEF TypeOK
  <2>4. orders[i].sym \in Syms /\ orders[i].qty \in Int
    BY <2>3 DEF Orders
  <2>5. pos' \in [Syms -> Int]
    BY <1>t, <1>1, <2>4 DEF TypeOK
  <2> QED BY <1>t, <1>1, <2>2, <2>5 DEF TypeOK
<1>4. PaperInv'
  BY <1>1, <1>2 DEF PaperInv, Paper
<1> QED BY <1>1, <1>3, <1>4, AccountOnly DEF IInv

\* A cancel keeps the invariant.
LEMMA CancelStep ==
  ASSUME IInv, NEW i \in DOMAIN orders, CancelOrder(i)
  PROVE  IInv'
<1>t. TypeOK /\ PaperInv
  BY DEF IInv
<1>1. /\ UNCHANGED <<cfg, pos, sig, result, call, inbox, net, placed, masked, doubtful, faults>>
      /\ acts < MaxActs /\ acts' = acts + 1
      /\ orders' = [orders EXCEPT ![i].status = "CANCELLED"]
  BY DEF CancelOrder, Cancel, PaperCancel, LiveCancel, Act
<1>2. /\ orders' \in Seq(Orders) /\ DOMAIN orders' = DOMAIN orders
      /\ orders'[i].status = "CANCELLED" /\ \A j \in DOMAIN orders : j # i => orders'[j] = orders[j]
  <2>1. "CANCELLED" \in OrderStatus
    BY DEF OrderStatus
  <2> QED BY <1>t, <1>1, <2>1, StatusChange
<1>3. TypeOK'
  <2>1. acts' \in 0..MaxActs
    BY <1>t, <1>1 DEF TypeOK
  <2> QED BY <1>t, <1>1, <1>2, <2>1 DEF TypeOK
<1>4. PaperInv'
  <2>1. Sure' = Sure /\ Open(pos)' = Open(pos)
    BY <1>1 DEF Sure, SureOf, Open
  <2>2. (\A j \in DOMAIN orders : orders[j].status # "SUBMITTED")
          => \A j \in DOMAIN orders' : orders'[j].status # "SUBMITTED"
    BY <1>2
  <2> QED BY <1>t, <1>1, <2>1, <2>2 DEF PaperInv, Paper, Authorized
<1> QED BY <1>1, <1>3, <1>4, AccountOnly DEF IInv

\* Request r is served with answer a: what the link and the clients see of it.
Replied(r, a) ==
  /\ net' = net \ {r}
  /\ inbox' = IF Request(r.client, call[r.client]) = r /\ inbox[r.client] = NoAnswer
              THEN [inbox EXCEPT ![r.client] = a] ELSE inbox
  /\ UNCHANGED <<cfg, sig, result, call, doubtful>>

EngineHears(r, a) ==
  /\ r.client = Engine /\ call[Engine].path = r.path /\ call[Engine].sig = r.sig
  /\ inbox[Engine] = NoAnswer /\ inbox'[Engine] = a

\* What serving a request leaves of the link and of what clients wait for.
LEMMA RepliedFacts ==
  ASSUME TypeOK, CallShape, NEW r \in net, NEW a \in Answers, Replied(r, a)
  PROVE  /\ inbox' \in [Clients -> Answers \cup {NoAnswer}]
         /\ \A q \in net' : q.client \in Clients /\ q.path \in Paths
         /\ inbox'[Engine] = inbox[Engine] \/ EngineHears(r, a)
         /\ CallShape'
         /\ \A h : /\ Late(h) \in Nat /\ Late(h)' \in Nat /\ Late(h)' <= Late(h)
                   /\ NoLate(h) => NoLate(h)'
                   /\ NoLate(h)' <=> Late(h)' = 0
                   /\ PlaceRequest(r, h) => Late(h)' = Late(h) - 1 /\ ~NoLate(h)
                   /\ Attempts(h)' = Attempts(h)
                   /\ Placing(h)' <=> Placing(h)
<1>0. /\ net' = net \ {r} /\ UNCHANGED <<cfg, sig, result, call, doubtful>>
      /\ r.client \in Clients /\ r.path \in Paths
  BY DEF Replied, TypeOK
<1>1. \/ inbox' = inbox
      \/ /\ Request(r.client, call[r.client]) = r /\ inbox[r.client] = NoAnswer
         /\ inbox' = [inbox EXCEPT ![r.client] = a]
  BY DEF Replied
<1>2. Request(r.client, call[r.client]) = r
        => call[r.client].path = r.path /\ call[r.client].sig = r.sig /\ call[r.client] # Idle
  <2> SUFFICES ASSUME Request(r.client, call[r.client]) = r
               PROVE  call[r.client].path = r.path /\ call[r.client].sig = r.sig
                      /\ call[r.client] # Idle
    OBVIOUS
  <2>1. /\ Request(r.client, call[r.client]).path = call[r.client].path
        /\ Request(r.client, call[r.client]).sig = call[r.client].sig
    BY DEF Request
  <2>2. call[r.client].path = r.path /\ call[r.client].sig = r.sig
    BY <2>1
  <2>3. Idle.path \notin Paths
    BY DEF Idle, Paths
  <2> QED BY <1>0, <2>2, <2>3
<1>3. inbox' \in [Clients -> Answers \cup {NoAnswer}]
  BY <1>0, <1>1 DEF TypeOK
<1>4. inbox'[Engine] = inbox[Engine] \/ EngineHears(r, a)
  <2>1. CASE inbox' = inbox
    BY <2>1
  <2>2. CASE /\ Request(r.client, call[r.client]) = r /\ inbox[r.client] = NoAnswer
             /\ inbox' = [inbox EXCEPT ![r.client] = a]
    <3>1. CASE r.client = Engine
      <4>1. call[Engine].path = r.path /\ call[Engine].sig = r.sig
        BY <1>2, <2>2, <3>1
      <4>2. inbox[Engine] = NoAnswer /\ inbox'[Engine] = a
        BY <2>2, <3>1, ClientsTwo DEF TypeOK
      <4> QED BY <3>1, <4>1, <4>2 DEF EngineHears
    <3>2. CASE r.client # Engine
      BY <2>2, <3>2, ClientsTwo DEF TypeOK
    <3> QED BY <3>1, <3>2
  <2> QED BY <1>1, <2>1, <2>2
<1>5. IsFiniteSet(net) /\ IsFiniteSet(net')
  BY <1>0, FS_RemoveElement DEF CallShape
<1>6. \A h : /\ Late(h) \in Nat /\ Late(h)' \in Nat /\ Late(h)' <= Late(h)
             /\ NoLate(h) => NoLate(h)'
             /\ NoLate(h)' <=> Late(h)' = 0
             /\ PlaceRequest(r, h) => Late(h)' = Late(h) - 1 /\ ~NoLate(h)
  <2> TAKE h
  <2>1. /\ Cardinality(LateIn(net, h)) \in Nat /\ Cardinality(LateIn(net', h)) \in Nat
        /\ Cardinality(LateIn(net', h)) <= Cardinality(LateIn(net, h))
    BY <1>0, <1>5, LateSubset, LateCount
  <2>2. Cardinality(LateIn(net', h)) = 0 <=> NoLate(h)'
    BY <1>5, LateCount DEF NoLate
  <2>3. PlaceRequest(r, h) => Cardinality(LateIn(net', h)) = Cardinality(LateIn(net, h)) - 1
    BY <1>0, <1>5, LateRemove
  <2>4. (NoLate(h) => NoLate(h)') /\ (PlaceRequest(r, h) => ~NoLate(h))
    BY <1>0 DEF NoLate
  <2> QED BY <2>1, <2>2, <2>3, <2>4 DEF Late, LateIn
<1>7. \A h : Attempts(h)' = Attempts(h) /\ (Placing(h)' <=> Placing(h))
  BY <1>0 DEF Attempts, Placing
<1>8. CallShape'
  <2>1. \A d \in Clients : inbox'[d] # NoAnswer => call'[d] # Idle
    <3>1. ASSUME NEW d \in Clients, inbox'[d] # NoAnswer, inbox[d] = NoAnswer PROVE call[d] # Idle
      <4>1. d = r.client /\ Request(r.client, call[r.client]) = r
        BY <1>0, <1>1, <3>1 DEF TypeOK
      <4> QED BY <1>2, <4>1
    <3> QED BY <1>0, <3>1 DEF CallShape
  <2>2. \A h : ~NoLate(h)' => ~NoLate(h)
    BY <1>6
  <2> QED BY <1>0, <1>5, <2>1, <2>2 DEF CallShape
<1>9. \A q \in net' : q.client \in Clients /\ q.path \in Paths
  BY <1>0 DEF TypeOK
<1> QED BY <1>3, <1>4, <1>6, <1>7, <1>8, <1>9

\* Served with an answer that does not count as one to a placing signal.
LEMMA OtherReply ==
  ASSUME IInv, NEW r \in net, NEW a \in Answers, Replied(r, a), r.path # "place",
         UNCHANGED <<placed, masked>>
  PROVE  CallShape' /\ FreshInv' /\ RetryInv' /\ PlacedPerAttempt' /\ AnswerInv' /\ ResultInv'
<1>t. /\ TypeOK /\ CallShape /\ FreshInv /\ RetryInv /\ PlacedPerAttempt /\ AnswerInv /\ ResultInv
  BY DEF IInv
<1>0. UNCHANGED <<cfg, sig, result, call, doubtful>>
  BY DEF Replied
<1>1. CallShape' /\ (inbox'[Engine] = inbox[Engine] \/ EngineHears(r, a))
  BY <1>t, RepliedFacts
<1>2. \A h : /\ Late(h) \in Nat /\ Late(h)' \in Nat /\ Late(h)' <= Late(h)
             /\ NoLate(h) => NoLate(h)'
             /\ Attempts(h)' = Attempts(h) /\ (Placing(h)' <=> Placing(h))
  BY <1>t, RepliedFacts
<1>3. FreshInv' /\ RetryInv' /\ ResultInv'
  BY <1>t, <1>0, <1>2 DEF FreshInv, RetryInv, ResultInv
<1>4. PlacedPerAttempt'
  <2> SUFFICES ASSUME NEW h \in Signals PROVE placed[h] + Late(h)' <= Attempts(h)'
    BY DEF PlacedPerAttempt
  <2>1. placed[h] \in Nat /\ placed[h] + Late(h) <= Attempts(h)
    BY <1>t DEF PlacedPerAttempt, TypeOK
  <2>2. Attempts(h) \in Nat
    BY <1>t, AttemptsNat
  <2> QED BY <1>2, <2>1, <2>2
<1>5. AnswerInv'
  <2>1. CASE inbox'[Engine] = inbox[Engine]
    BY <1>t, <1>0, <1>2, <2>1 DEF AnswerInv
  <2>2. CASE EngineHears(r, a)
    <3>1. call[Engine].path # "place"
      BY <2>2 DEF EngineHears
    <3> QED BY <1>2, <3>1 DEF AnswerInv, Placing
  <2> QED BY <1>1, <2>1, <2>2
<1> QED BY <1>1, <1>3, <1>4, <1>5

\* How a request is served.
LEMMA ServeFacts ==
  ASSUME TypeOK, NEW r \in net, Serve(r)
  PROVE  \E o \in Served(r) :
           /\ Replied(r, o.answer) /\ pos' = o.pos /\ orders' = o.orders
           /\ placed' = IF r.path = "place"
                        THEN [placed EXCEPT ![r.sig] = @ + Len(o.orders) - Len(orders)]
                        ELSE placed
           /\ masked' = IF r.path = "place" /\ o.answer.status = 400 /\ o.orders # orders
                        THEN masked \cup {r.sig} ELSE masked
           /\ faults' \in 0..MaxFaults /\ acts' \in 0..MaxActs
<1>1. PICK o \in Served(r) :
        /\ IF o.raised THEN Fault ELSE UNCHANGED bounds
        /\ pos' = o.pos /\ orders' = o.orders
        /\ placed' = IF r.path = "place"
                     THEN [placed EXCEPT ![r.sig] = @ + Len(o.orders) - Len(orders)]
                     ELSE placed
        /\ masked' = IF r.path = "place" /\ o.answer.status = 400 /\ o.orders # orders
                     THEN masked \cup {r.sig} ELSE masked
        /\ inbox' = IF Request(r.client, call[r.client]) = r /\ inbox[r.client] = NoAnswer
                    THEN [inbox EXCEPT ![r.client] = o.answer] ELSE inbox
  BY DEF Serve
<1>2. faults' \in 0..MaxFaults /\ acts' \in 0..MaxActs
  <2>1. (faults < MaxFaults /\ faults' = faults + 1 /\ acts' = acts) \/ (faults' = faults /\ acts' = acts)
    BY <1>1 DEF Fault, bounds
  <2> QED BY <2>1 DEF TypeOK
<1>3. Replied(r, o.answer)
  BY <1>1 DEF Serve, Replied
<1> QED BY <1>1, <1>2, <1>3

\* Serving a positions request keeps the invariant: the count is of now.
LEMMA ServePositions ==
  ASSUME IInv, NEW r \in net, r.path = "positions", NEW o \in GetPositions,
         Replied(r, o.answer), pos' = o.pos, orders' = o.orders, UNCHANGED <<placed, masked>>,
         faults' \in 0..MaxFaults, acts' \in 0..MaxActs
  PROVE  IInv'
<1>t. TypeOK /\ CallShape /\ PaperInv
  BY DEF IInv
<1>0. UNCHANGED <<cfg, sig, result, call, doubtful>>
  BY DEF Replied
<1>1. /\ pos' = pos /\ orders' = orders /\ o.answer \in Answers
      /\ Paper => \/ ~Authorized /\ o.answer.status \in {401, 503}
                  \/ o.answer.status = 200 /\ o.answer.count = Cardinality(Open(pos))
  BY PositionsOutcomes DEF Gives
<1>2. /\ inbox' \in [Clients -> Answers \cup {NoAnswer}]
      /\ \A q \in net' : q.client \in Clients /\ q.path \in Paths
      /\ inbox'[Engine] = inbox[Engine] \/ EngineHears(r, o.answer)
  BY <1>t, <1>1, RepliedFacts
<1>3. TypeOK'
  BY <1>t, <1>0, <1>1, <1>2 DEF TypeOK
<1>4. CallShape' /\ FreshInv' /\ RetryInv' /\ PlacedPerAttempt' /\ AnswerInv' /\ ResultInv'
  <2>1. r.path # "place"
    OBVIOUS
  <2> QED BY <1>1, <2>1, OtherReply
<1>5. PaperInv'
  <2>1. Sure' = Sure /\ Open(pos)' = Open(pos) /\ Paper' = Paper /\ Authorized' = Authorized
    BY <1>0, <1>1 DEF Sure, SureOf, Open, Paper, Authorized
  <2>2. CASE inbox'[Engine] = inbox[Engine]
    BY SMTT(30), <1>t, <1>0, <1>1, <2>1, <2>2 DEF PaperInv
  <2>3. CASE EngineHears(r, o.answer)
    <3>1. inbox'[Engine] = o.answer /\ call[Engine].path = "positions"
      BY <2>3 DEF EngineHears
    <3>2. Cardinality(Sure) <= Cardinality(Open(pos))
      BY SureFinite DEF Sure
    <3>3. Paper => /\ o.answer.status = 200 => Cardinality(Sure) <= o.answer.count
                   /\ o.answer.status \in 201..499 => ~Authorized
      BY <1>1, <3>2
    <3> QED BY SMTT(30), <1>t, <1>0, <1>1, <2>1, <3>1, <3>3 DEF PaperInv
  <2> QED BY <1>2, <2>2, <2>3
<1> QED BY <1>3, <1>4, <1>5 DEF IInv

\* What square_off_all books in paper is filled.
LEMMA FlattenFilled ==
  ASSUME TypeOK, \A i \in DOMAIN orders : orders[i].status # "SUBMITTED"
  PROVE  \A i \in DOMAIN FlattenOrders(Open(pos), "FILLED") :
           FlattenOrders(Open(pos), "FILLED")[i].status # "SUBMITTED"
<1> DEFINE n == Cardinality(Open(pos))
           f == [i \in 1..n |-> LET s == SetToSeq(Open(pos))[i] IN Order(s, Flatten(s), "FILLED", TRUE)]
           b == FlattenOrders(Open(pos), "FILLED")
<1>1. n \in Nat /\ orders \in Seq(Orders)
  BY OpenFinite DEF TypeOK
<1>2. \A i \in 1..n : f[i].status = "FILLED"
  BY DEF Order
<1>3. b = orders \o f
  BY DEF FlattenOrders
<1>4. f \in Seq({f[i] : i \in 1..n}) /\ Len(f) = n
  <2> HIDE DEF n
  <2>1. f \in [1..n -> {f[i] : i \in 1..n}]
    OBVIOUS
  <2> HIDE DEF f
  <2> QED BY <1>1, <2>1, SeqOfFunction
<1> HIDE DEF n, f, b
<1>5. \A i \in DOMAIN b : (i \in DOMAIN orders /\ b[i] = orders[i]) \/ \E j \in 1..n : b[i] = f[j]
  <2> DEFINE T == {f[i] : i \in 1..n}
  <2>0. f \in Seq(T)
    BY <1>4
  <2> HIDE DEF T
  <2> SUFFICES ASSUME NEW i \in DOMAIN b
               PROVE  (i \in DOMAIN orders /\ b[i] = orders[i]) \/ \E j \in 1..n : b[i] = f[j]
    OBVIOUS
  <2>1. i \in 1..(Len(orders) + n) /\ DOMAIN orders = 1..Len(orders) /\ Len(orders) \in Nat
    BY <1>1, <1>3, <1>4, <2>0
  <2>2. CASE i <= Len(orders)
    BY <1>1, <1>3, <2>0, <2>1, <2>2
  <2>3. CASE i > Len(orders)
    <3>1. i - Len(orders) \in 1..n /\ b[i] = f[i - Len(orders)]
      BY <1>1, <1>3, <1>4, <2>0, <2>1, <2>3
    <3> QED BY <3>1
  <2> QED BY <2>1, <2>2, <2>3
<1>6. \A i \in DOMAIN b : b[i].status # "SUBMITTED"
  BY <1>2, <1>5
<1> QED BY <1>6 DEF b

\* Serving a square-off keeps the invariant.
LEMMA ServeSquareOff ==
  ASSUME IInv, NEW r \in net, r.path = "square_off", NEW o \in SquareOffAll,
         Replied(r, o.answer), pos' = o.pos, orders' = o.orders, UNCHANGED <<placed, masked>>,
         faults' \in 0..MaxFaults, acts' \in 0..MaxActs
  PROVE  IInv'
<1>t. TypeOK /\ CallShape /\ PaperInv
  BY DEF IInv
<1>0. UNCHANGED <<cfg, sig, result, call, doubtful>>
  BY DEF Replied
<1>1. /\ pos' \in [Syms -> Int] /\ orders' \in Seq(Orders) /\ o.answer \in Answers
      /\ Paper => \/ pos' = pos /\ orders' = orders
                  \/ Open(pos') = {} /\ orders' = FlattenOrders(Open(pos), "FILLED")
  BY <1>t, SquareOffOutcomes
<1>2. /\ inbox' \in [Clients -> Answers \cup {NoAnswer}]
      /\ \A q \in net' : q.client \in Clients /\ q.path \in Paths
      /\ inbox'[Engine] = inbox[Engine] \/ EngineHears(r, o.answer)
  BY <1>t, <1>1, RepliedFacts
<1>3. inbox'[Engine] = inbox[Engine]
  <2>1. ~EngineHears(r, o.answer)
    BY <1>t, CallFields DEF EngineHears, CallShape
  <2> QED BY <1>2, <2>1
<1>4. TypeOK'
  BY <1>t, <1>0, <1>1, <1>2 DEF TypeOK
<1>5. CallShape' /\ FreshInv' /\ RetryInv' /\ PlacedPerAttempt' /\ AnswerInv' /\ ResultInv'
  <2>1. r.path # "place"
    OBVIOUS
  <2> QED BY <1>1, <2>1, OtherReply
<1>6. PaperInv'
  <2>0. Paper' = Paper /\ Authorized' = Authorized
    BY <1>0 DEF Paper, Authorized
  <2>1. CASE ~Paper
    BY <2>0, <2>1 DEF PaperInv
  <2>2. CASE pos' = pos /\ orders' = orders
    <3>1. Sure' = Sure /\ Open(pos)' = Open(pos)
      BY <1>0, <2>2 DEF Sure, SureOf, Open
    <3> QED BY SMTT(30), <1>t, <1>0, <1>3, <2>0, <2>2, <3>1 DEF PaperInv
  <2>3. CASE Paper /\ Open(pos') = {} /\ orders' = FlattenOrders(Open(pos), "FILLED")
    <3>1. \A i \in DOMAIN orders' : orders'[i].status # "SUBMITTED"
      BY <1>t, <2>3, FlattenFilled DEF PaperInv
    <3>2. Open(pos)' = {}
      BY <2>3 DEF Open
    <3> QED BY <1>0, <1>3, <2>3, <3>1, <3>2, EmptyBook
  <2> QED BY <1>1, <2>1, <2>2, <2>3
<1> QED BY <1>4, <1>5, <1>6 DEF IInv

\* The account after POST /order/place: how many orders are booked follows
\* from the answer, up to a 5xx.
LEMMA PlaceEffects ==
  ASSUME TypeOK, NEW s \in Syms, NEW q \in Int, NEW o \in PlaceOrder(s, q)
  PROVE  LET d == Len(o.orders) - Len(orders)
         IN  /\ o.pos \in [Syms -> Int] /\ o.orders \in Seq(Orders) /\ o.answer \in Answers
             /\ d \in {0, 1}
             /\ o.answer.status = 200 => d = 1
             /\ d = 1 => o.answer.status \in {200, 400, 500}
<1>p. pos \in [Syms -> Int] /\ orders \in Seq(Orders) /\ Len(orders) \in Nat
  BY DEF TypeOK
<1>b. \A status \in {"FILLED", "SUBMITTED"} :
        /\ Booked(s, q, status) \in Seq(Orders)
        /\ Len(Booked(s, q, status)) = Len(orders) + 1
  BY BookedTyped DEF OrderStatus
<1>1. [pos EXCEPT ![s] = @ + q] \in [Syms -> Int]
  BY <1>p
<1>2. CASE ~Authorized
  <2>1. PICK st \in {401, 503} : Gives(o, pos, orders, st, 0)
    BY <1>2, PlaceRefused
  <2> QED BY <2>1, <1>p DEF Gives
<1>3. CASE Authorized /\ Paper
  <2>1. Gives(o, [pos EXCEPT ![s] = @ + q], Booked(s, q, "FILLED"), 200, 0)
    BY <1>3, PlacePaper
  <2> QED BY <2>1, <1>p, <1>b, <1>1 DEF Gives
<1>4. CASE Authorized /\ ~Paper
  <2>1. \/ \E st \in {200, 400, 500} : Gives(o, pos, Booked(s, q, "SUBMITTED"), st, 0)
        \/ \E st \in {400, 500} : Gives(o, pos, orders, st, 0)
    BY <1>4, PlaceAtBroker
  <2>2. ASSUME NEW st \in {200, 400, 500}, Gives(o, pos, Booked(s, q, "SUBMITTED"), st, 0)
        PROVE  /\ o.pos = pos /\ o.orders = Booked(s, q, "SUBMITTED")
               /\ o.answer \in Answers /\ o.answer.status \in {200, 400, 500}
    BY <2>2 DEF Gives
  <2>3. ASSUME NEW st \in {400, 500}, Gives(o, pos, orders, st, 0)
        PROVE  /\ o.pos = pos /\ o.orders = orders
               /\ o.answer \in Answers /\ o.answer.status \in {400, 500}
    BY <2>3 DEF Gives
  <2>4. CASE \E st \in {200, 400, 500} : Gives(o, pos, Booked(s, q, "SUBMITTED"), st, 0)
    BY <2>2, <2>4, <1>p, <1>b
  <2>5. CASE \E st \in {400, 500} : Gives(o, pos, orders, st, 0)
    BY <2>3, <2>5, <1>p
  <2> QED BY <2>1, <2>4, <2>5
<1> QED BY <1>2, <1>3, <1>4

\* Serving a place request keeps the invariant, late or not.
LEMMA ServePlace ==
  ASSUME IInv, NEW r \in net, r.path = "place",
         NEW o \in PlaceOrder(sig[r.sig].sym, Signed(sig[r.sig].side, sig[r.sig].qty)),
         Replied(r, o.answer), pos' = o.pos, orders' = o.orders,
         placed' = [placed EXCEPT ![r.sig] = @ + Len(o.orders) - Len(orders)],
         masked' = (IF o.answer.status = 400 /\ o.orders # orders
                    THEN masked \cup {r.sig} ELSE masked),
         faults' \in 0..MaxFaults, acts' \in 0..MaxActs
  PROVE  IInv'
<1> DEFINE g == r.sig
           s == sig[g].sym
           q == Signed(sig[g].side, sig[g].qty)
           d == Len(o.orders) - Len(orders)
           st == o.answer.status
<1>t. /\ TypeOK /\ CallShape /\ FreshInv /\ RetryInv /\ PlacedPerAttempt /\ AnswerInv
      /\ ResultInv /\ PaperInv
  BY DEF IInv
<1>0. UNCHANGED <<cfg, sig, result, call, doubtful>>
  BY DEF Replied
<1>1. g \in Signals /\ r.client = Engine /\ PlaceRequest(r, g)
  BY <1>t DEF CallShape, PlaceRequest
<1>2. sig[g] \in SignalTypes
  BY <1>t, <1>1 DEF CallShape, NoLate
<1>3. s \in Syms /\ q \in Int
  BY <1>2 DEF SignalTypes, Signed, Quantities
<1> HIDE DEF s, q
<1>4. o \in PlaceOrder(s, q)
  BY DEF s, q
<1>5. /\ o.pos \in [Syms -> Int] /\ o.orders \in Seq(Orders) /\ o.answer \in Answers
      /\ d \in {0, 1} /\ (st = 200 => d = 1) /\ (d = 1 => st \in {200, 400, 500})
  BY <1>t, <1>3, <1>4, PlaceEffects
<1>6. /\ inbox' \in [Clients -> Answers \cup {NoAnswer}]
      /\ \A p \in net' : p.client \in Clients /\ p.path \in Paths
      /\ inbox'[Engine] = inbox[Engine] \/ EngineHears(r, o.answer)
      /\ CallShape'
  BY <1>t, <1>5, RepliedFacts
<1>7. \A h : /\ Late(h) \in Nat /\ Late(h)' \in Nat /\ Late(h)' <= Late(h)
             /\ NoLate(h) => NoLate(h)'
             /\ NoLate(h)' <=> Late(h)' = 0
             /\ Attempts(h)' = Attempts(h)
             /\ Placing(h)' <=> Placing(h)
  BY <1>t, <1>5, RepliedFacts
<1>8. Late(g)' = Late(g) - 1 /\ ~NoLate(g)
  BY <1>t, <1>1, <1>5, RepliedFacts
<1>9. /\ placed[g] \in Nat /\ placed'[g] = placed[g] + d /\ placed' \in [Signals -> Nat]
      /\ \A h \in Signals : h # g => placed'[h] = placed[h]
  <2>1. placed \in [Signals -> Nat] /\ placed[g] \in Nat
    BY <1>t, <1>1 DEF TypeOK
  <2>2. Len(o.orders) \in Nat /\ Len(orders) \in Nat
    BY <1>t, <1>5 DEF TypeOK
  <2>3. placed[g] + Len(o.orders) - Len(orders) = placed[g] + d
    BY <2>1, <2>2
  <2>4. placed' = [placed EXCEPT ![g] = placed[g] + d]
    BY <2>3
  <2> HIDE DEF d
  <2> QED BY <1>1, <1>5, <2>1, <2>4
<1>m. /\ masked' \subseteq Signals /\ masked \subseteq masked'
      /\ d = 1 /\ st = 400 => g \in masked'
  <2>1. masked \subseteq Signals
    BY <1>t DEF TypeOK
  <2>2. d = 1 => o.orders # orders
    <3>1. Len(orders) \in Nat
      BY <1>t DEF TypeOK
    <3> QED BY <3>1
  <2> QED BY <1>1, <2>1, <2>2
<1> HIDE DEF d, st
<1>10. TypeOK'
  BY <1>t, <1>0, <1>5, <1>6, <1>9, <1>m DEF TypeOK
<1>11. FreshInv' /\ RetryInv' /\ ResultInv'
  <2>1. FreshInv'
    BY <1>t, <1>0, <1>7, <1>8, <1>9 DEF FreshInv
  <2>2. RetryInv'
    BY <1>t, <1>0 DEF RetryInv
  <2>3. ResultInv'
    <3>1. \A h \in Signals : placed[h] > 0 => placed'[h] > 0
      BY <1>5, <1>9
    <3> QED BY <1>t, <1>0, <1>7, <1>8, <1>9, <1>m, <3>1 DEF ResultInv
  <2> QED BY <2>1, <2>2, <2>3
<1>12. PlacedPerAttempt'
  <2> SUFFICES ASSUME NEW h \in Signals PROVE placed'[h] + Late(h)' <= Attempts(h)
    BY <1>7 DEF PlacedPerAttempt
  <2>1. /\ placed[h] \in Nat /\ placed[h] + Late(h) <= Attempts(h) /\ Attempts(h) \in Nat
        /\ Late(h) \in Nat /\ Late(h)' \in Nat /\ Late(h)' <= Late(h)
    BY <1>t, <1>7, AttemptsNat DEF PlacedPerAttempt, TypeOK
  <2>2. CASE h = g
    <3>1. placed'[h] = placed[h] + d /\ Late(h)' = Late(h) - 1 /\ d \in {0, 1}
      BY <1>5, <1>8, <1>9, <2>2
    <3> QED BY <2>1, <3>1
  <2>3. CASE h # g
    BY <1>9, <2>1, <2>3
  <2> QED BY <2>2, <2>3
\* A signal being placed that is not in doubt has one request, this one.
<1>13. ASSUME g \notin doubtful
       PROVE  /\ Placing(g) /\ placed[g] = 0 /\ Late(g)' = 0
              /\ call[Engine].path = "place" /\ call[Engine].sig = g
  <2>1. result[g] = "new" /\ Placing(g)
    BY <1>t, <1>1, <1>8, <1>13 DEF ResultInv, FreshInv
  <2>2. call[Engine].path = "place" /\ call[Engine].sig = g
    BY <2>1 DEF Placing
  <2>3. call[Engine].attempt = 1
    <3>1. call[Engine] \in Calls
      BY <1>t, <2>2, ClientsTwo, CallFields DEF TypeOK
    <3>2. call[Engine].attempt \in 1..3
      BY <3>1, CallFields DEF MaxRetries
    <3> QED BY <1>t, <1>13, <2>2, <3>2 DEF RetryInv
  <2>4. Attempts(g) = 1 /\ placed[g] + Late(g) <= Attempts(g)
    BY <1>t, <1>1, <2>2, <2>3 DEF Attempts, PlacedPerAttempt
  <2>5. Late(g) \in Nat /\ Late(g)' \in Nat
    BY <1>7
  <2> QED BY <1>8, <1>9, <2>1, <2>2, <2>4, <2>5
<1>14. AnswerInv'
  <2> SUFFICES ASSUME NEW h \in Signals, Placing(h), inbox'[Engine] # NoAnswer
               PROVE  /\ inbox'[Engine].status = 200 => placed'[h] > 0
                      /\ inbox'[Engine].status \in 200..499 /\ h \notin doubtful =>
                           NoLate(h)' /\ (inbox'[Engine].status # 200 /\ h \notin masked'
                                            => placed'[h] = 0)
    BY <1>0, <1>7 DEF AnswerInv
  <2>1. CASE inbox'[Engine] = inbox[Engine]
    <3>1. placed[h] > 0 => placed'[h] > 0
      BY <1>5, <1>9
    <3>2. NoLate(h) => h # g /\ placed'[h] = placed[h] /\ NoLate(h)'
      BY <1>7, <1>8, <1>9
    <3> QED BY SMTT(30), <1>t, <1>m, <2>1, <3>1, <3>2 DEF AnswerInv
  <2>2. CASE EngineHears(r, o.answer)
    <3>1. h = g /\ inbox'[Engine].status = st
      BY <2>2 DEF EngineHears, Placing, st
    <3>2. st = 200 => placed'[g] > 0
      BY <1>5, <1>9
    <3>3. ASSUME st \in 200..499, g \notin doubtful
          PROVE  NoLate(g)' /\ (st # 200 /\ g \notin masked' => placed'[g] = 0)
      <4>1. NoLate(g)' /\ placed[g] = 0
        BY <1>7, <1>13, <3>3
      <4>2. st # 200 /\ g \notin masked' => d = 0
        BY <1>5, <1>m, <3>3
      <4>3. st # 200 /\ g \notin masked' => placed'[g] = 0
        BY <1>9, <4>1, <4>2
      <4> QED BY <4>1, <4>3
    <3> QED BY <3>1, <3>2, <3>3
  <2> QED BY <1>6, <2>1, <2>2
<1>15. PaperInv'
  <2>0. Paper' = Paper /\ Authorized' = Authorized
    BY <1>0 DEF Paper, Authorized
  <2> SUFFICES ASSUME Paper PROVE PaperInv'
    BY <2>0 DEF PaperInv
  <2>a. /\ Cardinality(Sure) \in Nat /\ Cardinality(Sure') \in Nat
        /\ Sure = SureOf(pos, sig, doubtful) /\ Sure' = SureOf(pos', sig, doubtful)
    <3>1. Sure = SureOf(pos, sig, doubtful) /\ Sure' = SureOf(pos', sig, doubtful)
      BY <1>0 DEF Sure, SureOf, Open
    <3> QED BY <3>1, SureFinite
  <2>b. call[Engine].path = "positions" => inbox'[Engine] = inbox[Engine]
    BY <1>6 DEF EngineHears
  <2>1. CASE ~Authorized
    <3>1. pos' = pos /\ orders' = orders
      BY <1>4, <2>1, PlaceRefused DEF Gives
    <3>2. Sure' = Sure /\ Open(pos)' = Open(pos)
      BY <2>a, <3>1 DEF Open
    <3> QED BY <1>t, <1>0, <2>0, <2>1, <2>b, <3>1, <3>2 DEF PaperInv
  <2>2. CASE Authorized
    <3>1. pos' = [pos EXCEPT ![s] = @ + q] /\ orders' = Booked(s, q, "FILLED")
      <4>1. Gives(o, [pos EXCEPT ![s] = @ + q], Booked(s, q, "FILLED"), 200, 0)
        BY <1>4, <2>2, PlacePaper
      <4> QED BY <4>1 DEF Gives
    <3>2. \A i \in DOMAIN orders' : orders'[i].status # "SUBMITTED"
      <4>1. \A i \in DOMAIN orders' :
              orders'[i] = Order(s, q, "FILLED", FALSE)
              \/ (i \in DOMAIN orders /\ orders'[i] = orders[i])
        <5> DEFINE x == Order(s, q, "FILLED", FALSE)
        <5>1. orders \in Seq(Orders) /\ orders' = Append(orders, x)
          BY <1>t, <3>1 DEF TypeOK, Booked
        <5> HIDE DEF x
        <5>2. \A i \in DOMAIN orders' : orders'[i] = x \/ (i \in DOMAIN orders /\ orders'[i] = orders[i])
          BY <5>1
        <5> QED BY <5>2 DEF x
      <4>2. Order(s, q, "FILLED", FALSE).status = "FILLED"
        BY DEF Order
      <4> QED BY <1>t, <4>1, <4>2 DEF PaperInv
    <3>3. Open(pos') \subseteq Open(pos) \cup {s}
      BY <1>t, <1>3, <3>1 DEF Open, TypeOK
    <3>4. CASE g \in doubtful
      <4>1. s \in {sig[h].sym : h \in doubtful}
        BY <3>4 DEF s
      <4>2. SureOf(pos', sig, doubtful) \subseteq SureOf(pos, sig, doubtful)
        BY <3>3, <4>1 DEF SureOf
      <4>3. Cardinality(Sure') <= Cardinality(Sure)
        BY <2>a, <4>2, SureSubset
      <4>4. call[Engine].sig \notin doubtful /\ call[Engine].path = "place"
              => placed'[call[Engine].sig] = placed[call[Engine].sig]
        <5>1. call[Engine].path = "place" => call[Engine].sig \in Signals
          BY <1>t, CallFields DEF CallShape
        <5> QED BY <1>9, <3>4, <5>1
      <4>5. inbox[Engine] # NoAnswer => inbox[Engine].count \in Nat
        BY <1>t, ClientsTwo DEF TypeOK, Answers
      <4>6. /\ Cardinality(Sure') <= MaxOpenPositions
            /\ Cardinality(Sure) < MaxOpenPositions => Cardinality(Sure') < MaxOpenPositions
            /\ inbox[Engine] # NoAnswer /\ Cardinality(Sure) <= inbox[Engine].count
                 => Cardinality(Sure') <= inbox[Engine].count
        BY <1>t, <2>a, <4>3, <4>5 DEF PaperInv
      <4> QED BY ZenonT(60), <1>t, <1>0, <2>0, <2>2, <2>b, <3>2, <4>4, <4>6 DEF PaperInv
    <3>5. CASE g \notin doubtful
      <4>1. call[Engine].path = "place" /\ call[Engine].sig = g /\ placed[g] = 0
        BY <1>13, <3>5
      <4>2. Cardinality(Sure) < MaxOpenPositions
        BY <1>t, <2>2, <3>5, <4>1 DEF PaperInv
      <4>3. SureOf(pos', sig, doubtful) \subseteq SureOf(pos, sig, doubtful) \cup {s}
        BY <3>3 DEF SureOf
      <4>4. Cardinality(Sure') <= Cardinality(Sure) + 1
        BY <2>a, <4>3, SurePlusOne
      <4>5. d = 1
        <5>1. Len(orders') = Len(orders) + 1 /\ Len(orders) \in Nat
          BY <1>t, <1>3, <3>1, BookedTyped DEF OrderStatus, TypeOK
        <5> QED BY <5>1 DEF d
      <4>6. placed'[g] # 0
        BY <1>9, <4>1, <4>5
      <4>7. Cardinality(Sure') <= MaxOpenPositions
        BY <2>a, <4>2, <4>4
      <4> QED BY <1>0, <2>0, <2>2, <3>2, <4>1, <4>6, <4>7 DEF PaperInv
    <3> QED BY <3>4, <3>5
  <2> QED BY <2>1, <2>2
<1> QED BY <1>6, <1>10, <1>11, <1>12, <1>14, <1>15 DEF IInv

\* Serving any request keeps the invariant.
LEMMA ServeStep ==
  ASSUME IInv, NEW r \in net, Serve(r)
  PROVE  IInv'
<1>t. TypeOK /\ CallShape
  BY DEF IInv
<1>1. PICK o \in Served(r) :
        /\ Replied(r, o.answer) /\ pos' = o.pos /\ orders' = o.orders
        /\ placed' = IF r.path = "place"
                     THEN [placed EXCEPT ![r.sig] = @ + Len(o.orders) - Len(orders)]
                     ELSE placed
        /\ masked' = IF r.path = "place" /\ o.answer.status = 400 /\ o.orders # orders
                     THEN masked \cup {r.sig} ELSE masked
        /\ faults' \in 0..MaxFaults /\ acts' \in 0..MaxActs
  BY <1>t, ServeFacts
<1>2. r.path \in Paths
  BY <1>t DEF TypeOK
<1>3. CASE r.path = "positions"
  <2>1. o \in GetPositions /\ placed' = placed /\ masked' = masked
    BY <1>1, <1>3 DEF Served
  <2> QED BY <1>1, <1>3, <2>1, ServePositions
<1>4. CASE r.path = "place"
  <2>1. o \in PlaceOrder(sig[r.sig].sym, Signed(sig[r.sig].side, sig[r.sig].qty))
    BY <1>1, <1>4 DEF Served
  <2>2. masked' = IF o.answer.status = 400 /\ o.orders # orders
                  THEN masked \cup {r.sig} ELSE masked
    BY <1>1, <1>4
  <2> QED BY <1>1, <1>4, <2>1, <2>2, ServePlace
<1>5. CASE r.path = "square_off"
  <2>1. o \in SquareOffAll /\ placed' = placed /\ masked' = masked
    BY <1>1, <1>5 DEF Served
  <2> QED BY <1>1, <1>5, <2>1, ServeSquareOff
<1> QED BY <1>2, <1>3, <1>4, <1>5 DEF Paths

\* A step keeps the inductive invariant.
LEMMA NextIInv == IInv /\ [Next]_vars => IInv'
<1> SUFFICES ASSUME IInv, [Next]_vars PROVE IInv'
  OBVIOUS
<1>1. ASSUME NEW g \in Signals, ExecuteSignal(g) PROVE IInv'
  BY <1>1, ExecuteSignalStep
<1>2. ASSUME NEW c \in Clients, AttemptEnds(c) PROVE IInv'
  BY <1>2, AttemptEndsStep
<1>3. ASSUME NEW c \in Clients, GiveUp(c) PROVE IInv'
  BY <1>3, GiveUpStep
<1>4. CASE PanelSquareOff
  BY <1>4, PanelSquareOffStep
<1>5. ASSUME NEW r \in net, Serve(r) PROVE IInv'
  BY <1>5, ServeStep
<1>6. CASE Restart
  BY <1>6, RestartStep
<1>7. ASSUME NEW i \in DOMAIN orders, Fill(i) PROVE IInv'
  BY <1>7, FillStep
<1>8. ASSUME NEW i \in DOMAIN orders, CancelOrder(i) PROVE IInv'
  BY <1>8, CancelStep
<1>9. CASE UNCHANGED vars
  <2>1. UNCHANGED <<cfg, pos, orders, sig, result, call, inbox, net, faults, acts, placed, masked, doubtful>>
    BY <1>9 DEF vars, bounds
  <2>2. TypeOK'
    BY <2>1 DEF IInv, TypeOK
  <2>3. PaperInv'
    <3>1. Sure' = Sure /\ Open(pos)' = Open(pos)
      BY <2>1 DEF Sure, SureOf, Open
    <3> QED BY <2>1, <3>1 DEF IInv, PaperInv, Paper, Authorized
  <2> QED BY <2>1, <2>2, <2>3, AccountOnly DEF IInv
<1> QED BY <1>1, <1>2, <1>3, <1>4, <1>5, <1>6, <1>7, <1>8, <1>9 DEF Next

\* The inductive invariant holds in every reachable state.
THEOREM IInvAlways == Spec => []IInv
BY InitIInv, NextIInv, PTL DEF Spec

\* Every variable keeps its type, and no bound is exceeded.
THEOREM TypeCorrect == Spec => []TypeOK
<1>1. IInv => TypeOK
  BY DEF IInv
<1> QED BY <1>1, IInvAlways, PTL

\* A signal is placed at most once per attempt of the client, however late
\* its requests arrive.
THEOREM PlacedPerAttemptAlways == Spec => []PlacedPerAttempt
<1>1. IInv => PlacedPerAttempt
  BY DEF IInv
<1> QED BY <1>1, IInvAlways, PTL

\* A signal answered ok has an order; one answered aborted has none, unless
\* an attempt was in doubt or Dhan took an order it reported as failed; one
\* answered dry_run has none in any case.
THEOREM AnswerIsHonestAlways == Spec => []AnswerIsHonest
<1>1. IInv => AnswerIsHonest
  BY DEF IInv, ResultInv, AnswerIsHonest
<1> QED BY <1>1, IInvAlways, PTL

\* There are no more symbols in doubt than signals.
LEMMA DoubtedCount ==
  ASSUME NEW d, IsFiniteSet(d), NEW s
  PROVE  LET D == {s[g].sym : g \in d}
         IN  IsFiniteSet(D) /\ Cardinality(D) <= Cardinality(d)
<1> DEFINE D == {s[g].sym : g \in d}
           f == [g \in d |-> s[g].sym]
<1>1. f \in Surjection(d, D)
  BY DEF Surjection
<1> QED BY <1>1, FS_Surjection

\* The paper book never has more positions than the gate's limit and one per
\* signal in doubt.
THEOREM PositionCapAlways == Spec => []PositionCap
<1>1. ASSUME IInv, Paper
      PROVE  Cardinality(Open(pos)) <= MaxOpenPositions + Cardinality(doubtful)
  <2> DEFINE D == {sig[g].sym : g \in doubtful}
             S == Open(pos) \ D
             O == Open(pos)
  <2>1. Cardinality(Sure) <= MaxOpenPositions /\ IsFiniteSet(doubtful)
    BY <1>1 DEF IInv, PaperInv, CallShape
  <2>2. IsFiniteSet(D) /\ Cardinality(D) <= Cardinality(doubtful)
    BY <2>1, DoubtedCount
  <2>3. IsFiniteSet(O) /\ IsFiniteSet(S) /\ Cardinality(S) <= MaxOpenPositions
    <3>1. S = Sure
      BY DEF Sure, SureOf
    <3>2. IsFiniteSet(O)
      BY OpenFinite
    <3>3. IsFiniteSet(S)
      BY <3>2, FS_Subset
    <3> QED BY <2>1, <3>1, <3>2, <3>3
  <2>4. O \subseteq S \cup D
    OBVIOUS
  <2> HIDE DEF D, S, O
  <2>5. /\ IsFiniteSet(S \cup D)
        /\ Cardinality(S \cup D) = Cardinality(S) + Cardinality(D) - Cardinality(S \cap D)
    BY <2>2, <2>3, FS_Union
  <2>6. IsFiniteSet(S \cap D)
    BY <2>3, FS_Subset
  <2>7. /\ Cardinality(S) \in Nat /\ Cardinality(D) \in Nat /\ Cardinality(S \cap D) \in Nat
        /\ Cardinality(O) \in Nat /\ Cardinality(S \cup D) \in Nat
        /\ Cardinality(doubtful) \in Nat /\ MaxOpenPositions \in Nat
    BY <2>1, <2>2, <2>3, <2>5, <2>6, FS_CardinalityType
  <2>8. Cardinality(O) <= Cardinality(S \cup D)
    BY <2>4, <2>5, FS_Subset
  <2> QED BY <2>2, <2>3, <2>5, <2>7, <2>8 DEF O
<1>2. IInv => PositionCap
  BY <1>1 DEF PositionCap
<1> QED BY <1>2, IInvAlways, PTL

-----------------------------------------------------------------------------
\* Every set of natural numbers that is not empty has a least element: the
\* induction the proofs about sums use, from the library's finite sets.
LEMMA LeastElement ==
  ASSUME NEW T \in SUBSET Nat, T # {}
  PROVE  \E m \in T : \A k \in T : m <= k
<1> DEFINE R == StrictSubsetOrdering(Nat)
           S == FiniteSubsetsOf(Nat)
           U == {0..n : n \in T}
<1>1. IsWellFoundedOn(R, S)
  BY FS_StrictSubsetOrderingWellFounded
<1>2. U \subseteq S /\ U # {}
  <2>1. \A n \in T : IsFiniteSet(0..n) /\ 0..n \subseteq Nat
    BY FS_Interval
  <2> QED BY <2>1 DEF FiniteSubsetsOf
<1>3. ASSUME NEW x \in Nat, NEW y \in Nat, x < y
      PROVE  <<0..x, 0..y>> \in R
  <2>1. 0..x \subseteq 0..y /\ y \in 0..y /\ y \notin 0..x
    BY <1>3
  <2>2. 0..x \subseteq Nat /\ 0..y \subseteq Nat
    OBVIOUS
  <2> QED BY <2>1, <2>2, Zenon DEF StrictSubsetOrdering
<1> HIDE DEF R, S
<1>4. PICK M \in U : \A y \in U : ~ (<<y, M>> \in R)
  <2> HIDE DEF U
  <2> QED BY <1>1, <1>2, WFMin
<1>5. PICK m \in T : M = 0..m
  OBVIOUS
<1>6. ASSUME NEW k \in T, k < m
      PROVE  FALSE
  <2>1. k \in Nat /\ m \in Nat
    OBVIOUS
  <2>2. <<0..k, 0..m>> \in R
    BY <1>3, <1>6, <2>1
  <2>3. 0..k \in U
    OBVIOUS
  <2> QED BY <1>4, <1>5, <2>2, <2>3
<1>7. \A k \in T : k \in Nat /\ m \in Nat
  OBVIOUS
<1> QED BY <1>6, <1>7

\* h is the sum of f up to n.
Part(h, f, n) ==
  h = [i \in 0..n |-> IF i = 0 THEN 0 ELSE h[i - 1] + f[i]]

\* There is only one.
LEMMA PartUnique ==
  ASSUME NEW f, NEW n \in Nat, NEW m \in Nat, n <= m,
         NEW h, Part(h, f, n), NEW k, Part(k, f, m)
  PROVE  \A i \in 0..n : h[i] = k[i]
<1> DEFINE T == {i \in 0..n : h[i] # k[i]}
<1>1. SUFFICES ASSUME T # {} PROVE FALSE
  OBVIOUS
<1>2. PICK l \in T : \A i \in T : l <= i
  <2>1. T \in SUBSET Nat
    OBVIOUS
  <2> HIDE DEF T
  <2> QED BY <1>1, <2>1, LeastElement
<1>3. l \in 0..n /\ l \in 0..m /\ h[l] # k[l]
  OBVIOUS
<1>4. /\ h[l] = IF l = 0 THEN 0 ELSE h[l - 1] + f[l]
      /\ k[l] = IF l = 0 THEN 0 ELSE k[l - 1] + f[l]
  BY <1>3 DEF Part
<1>5. l # 0
  BY <1>3, <1>4
<1>6. l - 1 \in 0..n /\ l - 1 < l
  BY <1>3, <1>5
<1>7. h[l - 1] = k[l - 1]
  BY <1>2, <1>6
<1> QED BY <1>3, <1>4, <1>7

\* There is one for every n.
LEMMA PartExists ==
  ASSUME NEW f, NEW n \in Nat
  PROVE  \E h : Part(h, f, n)
<1> DEFINE T == {i \in Nat : ~ \E h : Part(h, f, i)}
<1>1. SUFFICES ASSUME T # {} PROVE FALSE
  OBVIOUS
<1>2. PICK l \in T : \A i \in T : l <= i
  <2>1. T \in SUBSET Nat
    OBVIOUS
  <2> HIDE DEF T
  <2> QED BY <1>1, <2>1, LeastElement
<1>3. l # 0
  <2>1. Part([i \in 0..0 |-> 0], f, 0)
    BY DEF Part
  <2> QED BY <2>1
<1>4. l - 1 \in Nat /\ l - 1 \notin T
  BY <1>2, <1>3
<1>5. PICK h : Part(h, f, l - 1)
  BY <1>4
<1> DEFINE k == [i \in 0..l |-> IF i = l THEN h[l - 1] + f[l] ELSE h[i]]
<1>6. Part(k, f, l)
  <2>1. ASSUME NEW i \in 0..l
        PROVE  k[i] = IF i = 0 THEN 0 ELSE k[i - 1] + f[i]
    <3>1. CASE i = l
      <4>1. l - 1 \in 0..l /\ l - 1 # l
        BY <1>4
      <4>2. k[l] = h[l - 1] + f[l] /\ k[l - 1] = h[l - 1]
        BY <4>1
      <4> QED BY <1>3, <3>1, <4>2
    <3>2. CASE i # l
      <4>1. i \in 0..(l - 1)
        BY <3>2
      <4>2. h[i] = IF i = 0 THEN 0 ELSE h[i - 1] + f[i]
        BY <1>5, <4>1 DEF Part
      <4>3. k[i] = h[i]
        BY <3>2
      <4>4. i # 0 => i - 1 \in 0..l /\ i - 1 # l
        BY <4>1
      <4>5. i # 0 => k[i - 1] = h[i - 1]
        BY <4>4
      <4> QED BY <4>2, <4>3, <4>5
    <3> QED BY <3>1, <3>2
  <2>2. k = [i \in 0..l |-> k[i]]
    OBVIOUS
  <2> HIDE DEF k
  <2> QED BY <2>1, <2>2 DEF Part
<1> QED BY <1>2, <1>6

\* Total is what its defining equation says.
LEMMA TotalStep ==
  ASSUME NEW f
  PROVE  /\ Total(f, 0) = 0
         /\ \A n \in Nat : n # 0 => Total(f, n) = Total(f, n - 1) + f[n]
<1> DEFINE H(n) == CHOOSE h : Part(h, f, n)
           g == [n \in Nat |-> H(n)[n]]
           Eq(s) == s = [i \in Nat |-> IF i = 0 THEN 0 ELSE s[i - 1] + f[i]]
<1>1. \A n \in Nat : Part(H(n), f, n)
  BY PartExists
<1>2. ASSUME NEW n \in Nat
      PROVE  g[n] = IF n = 0 THEN 0 ELSE g[n - 1] + f[n]
  <2>1. H(n)[n] = IF n = 0 THEN 0 ELSE H(n)[n - 1] + f[n]
    <3>1. Part(H(n), f, n)
      BY <1>1
    <3> HIDE DEF H
    <3> QED BY <3>1 DEF Part
  <2>2. n # 0 => H(n - 1)[n - 1] = H(n)[n - 1]
    <3>1. SUFFICES ASSUME n # 0 PROVE H(n - 1)[n - 1] = H(n)[n - 1]
      OBVIOUS
    <3>2. n - 1 \in Nat /\ n - 1 <= n /\ n - 1 \in 0..(n - 1)
      BY <3>1
    <3>3. Part(H(n - 1), f, n - 1) /\ Part(H(n), f, n)
      BY <1>1, <3>2
    <3> HIDE DEF H
    <3> QED BY <3>2, <3>3, PartUnique
  <2> HIDE DEF H
  <2>3. n # 0 => n - 1 \in Nat
    OBVIOUS
  <2> QED BY <2>1, <2>2, <2>3
<1>3. Eq(g)
  <2>1. g = [n \in Nat |-> g[n]]
    OBVIOUS
  <2> HIDE DEF g
  <2> QED BY <1>2, <2>1
<1> DEFINE s == CHOOSE x : Eq(x)
<1>4. Eq(s)
  <2> HIDE DEF g, Eq
  <2> QED BY <1>3
<1>5. \A n : Total(f, n) = s[n]
  BY DEF Total
<1> HIDE DEF s, g, H
<1> QED BY <1>4, <1>5

\* A sum depends on its terms only.
LEMMA TotalAgrees ==
  ASSUME NEW n \in Nat, NEW f, NEW g, \A i \in 1..n : f[i] = g[i]
  PROVE  Total(f, n) = Total(g, n)
<1> DEFINE T == {i \in 0..n : Total(f, i) # Total(g, i)}
<1>1. SUFFICES ASSUME T # {} PROVE FALSE
  <2>1. n \in 0..n
    OBVIOUS
  <2> QED BY <2>1
<1>2. PICK l \in T : \A i \in T : l <= i
  <2>1. T \in SUBSET Nat
    OBVIOUS
  <2> HIDE DEF T
  <2> QED BY <1>1, <2>1, LeastElement
<1>3. l \in Nat /\ l <= n /\ Total(f, l) # Total(g, l)
  OBVIOUS
<1>4. l # 0
  BY <1>3, TotalStep
<1>5. /\ Total(f, l) = Total(f, l - 1) + f[l]
      /\ Total(g, l) = Total(g, l - 1) + g[l]
  BY <1>3, <1>4, TotalStep
<1>6. Total(f, l - 1) = Total(g, l - 1)
  <2>1. l - 1 \in 0..n /\ l - 1 < l
    BY <1>3, <1>4
  <2> QED BY <1>2, <2>1
<1>7. f[l] = g[l]
  BY <1>3, <1>4
<1> QED BY <1>3, <1>5, <1>6, <1>7

\* A sum of integers is an integer.
LEMMA TotalInt ==
  ASSUME NEW n \in Nat, NEW f, \A i \in 1..n : f[i] \in Int
  PROVE  Total(f, n) \in Int
<1> DEFINE T == {i \in 0..n : Total(f, i) \notin Int}
<1>1. SUFFICES ASSUME T # {} PROVE FALSE
  <2>1. n \in 0..n
    OBVIOUS
  <2> QED BY <2>1
<1>2. PICK l \in T : \A i \in T : l <= i
  <2>1. T \in SUBSET Nat
    OBVIOUS
  <2> HIDE DEF T
  <2> QED BY <1>1, <2>1, LeastElement
<1>3. l \in Nat /\ l <= n /\ Total(f, l) \notin Int
  OBVIOUS
<1>4. l # 0
  BY <1>3, TotalStep
<1>5. Total(f, l) = Total(f, l - 1) + f[l]
  BY <1>3, <1>4, TotalStep
<1>6. Total(f, l - 1) \in Int
  <2>1. l - 1 \in 0..n /\ l - 1 < l
    BY <1>3, <1>4
  <2> QED BY <1>2, <2>1
<1>7. f[l] \in Int
  BY <1>3, <1>4
<1> QED BY <1>3, <1>5, <1>6, <1>7

\* Terms that are 0 add nothing.
LEMMA TotalFlat ==
  ASSUME NEW m \in Nat, NEW n \in Nat, m <= n, NEW f,
         \A i \in 1..m : f[i] \in Int, \A i \in (m + 1)..n : f[i] = 0
  PROVE  Total(f, n) = Total(f, m)
<1> DEFINE T == {i \in m..n : Total(f, i) # Total(f, m)}
<1>1. SUFFICES ASSUME T # {} PROVE FALSE
  <2>1. n \in m..n
    OBVIOUS
  <2> QED BY <2>1
<1>2. PICK l \in T : \A i \in T : l <= i
  <2>1. T \in SUBSET Nat
    OBVIOUS
  <2> HIDE DEF T
  <2> QED BY <1>1, <2>1, LeastElement
<1>3. l \in Nat /\ m <= l /\ l <= n /\ Total(f, l) # Total(f, m)
  OBVIOUS
<1>4. l # m
  BY <1>3
<1>5. Total(f, l) = Total(f, l - 1) + f[l]
  BY <1>3, <1>4, TotalStep
<1>6. Total(f, l - 1) = Total(f, m)
  <2>1. l - 1 \in m..n /\ l - 1 < l
    BY <1>3, <1>4
  <2> QED BY <1>2, <2>1
<1>7. f[l] = 0 /\ Total(f, m) \in Int
  <2>1. Total(f, m) \in Int
    BY TotalInt
  <2>2. l \in (m + 1)..n
    BY <1>3, <1>4
  <2> QED BY <2>1, <2>2
<1> QED BY <1>3, <1>5, <1>6, <1>7

\* When only one of the later terms is not 0, it is what they add.
LEMMA TotalOne ==
  ASSUME NEW m \in Nat, NEW n \in Nat, m <= n, NEW f,
         \A i \in 1..n : f[i] \in Int,
         NEW k \in (m + 1)..n, \A i \in (m + 1)..n : i # k => f[i] = 0
  PROVE  Total(f, n) = Total(f, m) + f[k]
<1>1. k \in Nat /\ k - 1 \in Nat /\ m <= k - 1 /\ k <= n /\ k # 0
  OBVIOUS
<1>2. Total(f, k - 1) = Total(f, m)
  BY <1>1, TotalFlat
<1>3. Total(f, k) = Total(f, k - 1) + f[k]
  BY <1>1, TotalStep
<1>4. Total(f, n) = Total(f, k)
  BY <1>1, TotalFlat
<1> QED BY <1>2, <1>3, <1>4

-----------------------------------------------------------------------------
\* The terms of Net.
Term(book, s, chosen) ==
  [i \in DOMAIN book |-> IF i \in chosen /\ book[i].sym = s THEN book[i].qty ELSE 0]

LEMMA NetTerms ==
  ASSUME NEW book \in Seq(Orders), NEW s, NEW chosen
  PROVE  /\ Len(book) \in Nat /\ DOMAIN book = 1..Len(book)
         /\ Net(book, s, chosen) = Total(Term(book, s, chosen), Len(book))
         /\ \A i \in 1..Len(book) :
              /\ Term(book, s, chosen)[i] \in Int
              /\ Term(book, s, chosen)[i] =
                   IF i \in chosen /\ book[i].sym = s THEN book[i].qty ELSE 0
         /\ Net(book, s, chosen) \in Int
<1>1. Len(book) \in Nat /\ DOMAIN book = 1..Len(book)
  OBVIOUS
<1>2. \A i \in 1..Len(book) : book[i].qty \in Int
  <2>1. \A i \in 1..Len(book) : book[i] \in Orders
    BY <1>1
  <2> QED BY <2>1 DEF Orders
<1>3. \A i \in 1..Len(book) :
        /\ Term(book, s, chosen)[i] =
             IF i \in chosen /\ book[i].sym = s THEN book[i].qty ELSE 0
        /\ Term(book, s, chosen)[i] \in Int
  BY <1>1, <1>2 DEF Term
<1>4. Net(book, s, chosen) = Total(Term(book, s, chosen), Len(book))
  BY Zenon DEF Net, Term
<1>5. Total(Term(book, s, chosen), Len(book)) \in Int
  BY <1>1, <1>3, TotalInt
<1> QED BY <1>1, <1>3, <1>4, <1>5

\* A book whose first orders are those of another, symbol by symbol and
\* quantity by quantity, adds to its net only what comes after them.
LEMMA NetPrefix ==
  ASSUME NEW b \in Seq(Orders), NEW c \in Seq(Orders), NEW s, NEW chosen,
         Len(b) <= Len(c),
         \A i \in 1..Len(b) : c[i].sym = b[i].sym /\ c[i].qty = b[i].qty
  PROVE  Total(Term(c, s, chosen), Len(b)) = Net(b, s, chosen \cap DOMAIN b)
<1>1. /\ Len(b) \in Nat /\ Len(c) \in Nat
      /\ DOMAIN b = 1..Len(b) /\ DOMAIN c = 1..Len(c)
  OBVIOUS
<1>2. Net(b, s, chosen \cap DOMAIN b) = Total(Term(b, s, chosen \cap DOMAIN b), Len(b))
  BY NetTerms
<1>3. \A i \in 1..Len(b) : Term(c, s, chosen)[i] = Term(b, s, chosen \cap DOMAIN b)[i]
  BY <1>1 DEF Term
<1> QED BY <1>1, <1>2, <1>3, TotalAgrees

\* Two books that agree on symbols and quantities have the same net.
LEMMA NetAgrees ==
  ASSUME NEW b \in Seq(Orders), NEW c \in Seq(Orders), NEW s, Len(b) = Len(c),
         \A i \in 1..Len(b) : c[i].sym = b[i].sym /\ c[i].qty = b[i].qty
  PROVE  Net(b, s, DOMAIN b) = Net(c, s, DOMAIN c)
<1>1. Len(b) \in Nat /\ DOMAIN b = 1..Len(b) /\ DOMAIN c = DOMAIN b
  OBVIOUS
<1>2. Total(Term(c, s, DOMAIN c), Len(b)) = Net(b, s, DOMAIN c \cap DOMAIN b)
  BY <1>1, NetPrefix
<1>3. Net(c, s, DOMAIN c) = Total(Term(c, s, DOMAIN c), Len(c))
  BY NetTerms
<1>4. DOMAIN c \cap DOMAIN b = DOMAIN b
  BY <1>1
<1> QED BY <1>2, <1>3, <1>4

\* Nothing chosen adds nothing.
LEMMA NetOfNone ==
  ASSUME NEW b \in Seq(Orders), NEW s
  PROVE  Net(b, s, {}) = 0
<1>1. /\ Len(b) \in Nat
      /\ Net(b, s, {}) = Total(Term(b, s, {}), Len(b))
      /\ \A i \in 1..Len(b) : Term(b, s, {})[i] = 0
  BY NetTerms
<1>2. Total(Term(b, s, {}), Len(b)) = Total(Term(b, s, {}), 0)
  <2>1. \A i \in (0 + 1)..Len(b) : Term(b, s, {})[i] = 0
    BY <1>1
  <2>2. \A i \in 1..0 : Term(b, s, {})[i] \in Int
    OBVIOUS
  <2>3. 0 \in Nat /\ 0 <= Len(b)
    BY <1>1
  <2> QED BY <1>1, <2>1, <2>2, <2>3, TotalFlat
<1> QED BY <1>1, <1>2, TotalStep

\* An order adds its quantity to its symbol.
LEMMA NetAppend ==
  ASSUME NEW b \in Seq(Orders), NEW o \in Orders, NEW s
  PROVE  Net(Append(b, o), s, DOMAIN Append(b, o))
           = Net(b, s, DOMAIN b) + (IF o.sym = s THEN o.qty ELSE 0)
<1> DEFINE c == Append(b, o)
           n == Len(b)
<1>1. c \in Seq(Orders) /\ Len(c) = n + 1 /\ n \in Nat
  BY AppendOne
<1>2. (\A i \in 1..n : c[i] = b[i]) /\ c[n + 1] = o
  OBVIOUS
<1> HIDE DEF c
<1>3. DOMAIN c = 1..(n + 1) /\ DOMAIN b = 1..n
  BY <1>1
<1>4. Total(Term(c, s, DOMAIN c), n) = Net(b, s, DOMAIN b)
  <2>1. Total(Term(c, s, DOMAIN c), n) = Net(b, s, DOMAIN c \cap DOMAIN b)
    BY <1>1, <1>2, NetPrefix
  <2>2. DOMAIN c \cap DOMAIN b = DOMAIN b
    BY <1>1, <1>3
  <2> QED BY <2>1, <2>2
<1>5. /\ Net(c, s, DOMAIN c) = Total(Term(c, s, DOMAIN c), n + 1)
      /\ Term(c, s, DOMAIN c)[n + 1] = IF o.sym = s THEN o.qty ELSE 0
  <2>1. n + 1 \in 1..Len(c) /\ n + 1 \in DOMAIN c
    BY <1>1, <1>3
  <2> QED BY <1>1, <1>2, <2>1, NetTerms
<1>6. Total(Term(c, s, DOMAIN c), n + 1)
        = Total(Term(c, s, DOMAIN c), n) + Term(c, s, DOMAIN c)[n + 1]
  <2>1. n + 1 \in Nat /\ n + 1 # 0 /\ (n + 1) - 1 = n
    BY <1>1
  <2> QED BY <2>1, TotalStep
<1> QED BY <1>4, <1>5, <1>6 DEF c

-----------------------------------------------------------------------------
\* A function on 1..n is a sequence.
LEMMA FunctionSeq ==
  ASSUME NEW S, NEW n \in Nat, NEW g \in [1..n -> S]
  PROVE  g \in Seq(S) /\ Len(g) = n
OBVIOUS

\* The elements of a concatenation.
LEMMA ConcatFacts ==
  ASSUME NEW S, NEW u \in Seq(S), NEW v \in Seq(S)
  PROVE  /\ Len(u) \in Nat /\ Len(v) \in Nat
         /\ Len(u \o v) = Len(u) + Len(v)
         /\ \A i \in 1..Len(u) : (u \o v)[i] = u[i]
         /\ \A i \in 1..Len(v) : (u \o v)[Len(u) + i] = v[i]
<1>1. Len(u) \in Nat /\ Len(v) \in Nat
  OBVIOUS
<1>2. Len(u \o v) = Len(u) + Len(v)
  OBVIOUS
<1>3. ASSUME NEW i \in 1..Len(u) PROVE (u \o v)[i] = u[i]
  OBVIOUS
<1>4. ASSUME NEW i \in 1..Len(v) PROVE (u \o v)[Len(u) + i] = v[i]
  OBVIOUS
<1> QED BY <1>1, <1>2, <1>3, <1>4

\* Where the orders of a square-off stand in the book: one for each symbol
\* closed, after those that were there.
LEMMA FlattenShape ==
  ASSUME TypeOK, NEW closed \in SUBSET Open(pos), NEW status \in OrderStatus
  PROVE  LET b == FlattenOrders(closed, status)
             m == Len(orders)
             n == Cardinality(closed)
             f == SetToSeq(closed)
         IN  /\ b \in Seq(Orders) /\ m \in Nat /\ n \in Nat /\ Len(b) = m + n
             /\ \A i \in 1..m : b[i] = orders[i]
             /\ \A i \in 1..n : b[m + i] = Order(f[i], Flatten(f[i]), status, TRUE)
             /\ f \in [1..n -> closed]
             /\ \A i, j \in 1..n : f[i] = f[j] => i = j
             /\ \A s \in closed : \E i \in 1..n : f[i] = s
<1> DEFINE b == FlattenOrders(closed, status)
           m == Len(orders)
           n == Cardinality(closed)
           f == SetToSeq(closed)
           g == [i \in 1..n |-> Order(f[i], Flatten(f[i]), status, TRUE)]
<1>1. IsFiniteSet(closed) /\ n \in Nat /\ orders \in Seq(Orders) /\ m \in Nat
  <2>1. IsFiniteSet(closed)
    BY OpenFinite, FS_Subset
  <2> QED BY <2>1, FS_CardinalityType DEF TypeOK
<1>2. b \in Seq(Orders)
  BY FlattenOrdersTyped
<1>3. b = orders \o g
  BY DEF FlattenOrders
<1>4. f \in [1..n -> closed] /\ \A i, j \in 1..n : f[i] = f[j] => i = j
  <2>1. \E h \in [1..n -> closed] : IsInjective(h)
    <3>1. ExistsBijection(1..n, closed)
      BY <1>1, FS_CardinalityType
    <3>2. PICK h \in Bijection(1..n, closed) : TRUE
      BY <3>1 DEF ExistsBijection
    <3>3. h \in [1..n -> closed] /\ IsInjective(h)
      BY <3>2, Zenon DEF Bijection, Injection, IsInjective
    <3> QED BY <3>3
  <2>2. f \in [1..n -> closed] /\ IsInjective(f)
    BY <2>1 DEF SetToSeq
  <2> HIDE DEF f, n
  <2> QED BY <2>2 DEF IsInjective
<1>5. \A s \in closed : \E i \in 1..n : f[i] = s
  <2>1. IsFiniteSet(1..n) /\ Cardinality(1..n) = n
    <3>1. n >= 1 => Cardinality(1..n) = (n - 1) + 1
      BY <1>1, FS_Interval
    <3>2. n = 0 => Cardinality(1..n) = 0
      BY FS_Interval
    <3>3. IsFiniteSet(1..n)
      BY <1>1, FS_Interval
    <3> HIDE DEF n
    <3> QED BY <1>1, <3>1, <3>2, <3>3
  <2>2. f \in Injection(1..n, closed)
    <3> HIDE DEF f, n
    <3> QED BY <1>4, Zenon DEF Injection, IsInjective
  <2>3. f \in Surjection(1..n, closed)
    <3> HIDE DEF f
    <3> QED BY <1>1, <2>1, <2>2, FS_Injection
  <2> HIDE DEF f, n
  <2> QED BY <2>3, Zenon DEF Surjection
<1>6. \A i \in 1..n : g[i] = Order(f[i], Flatten(f[i]), status, TRUE)
  OBVIOUS
<1>7. g \in Seq(Orders) /\ Len(g) = n
  <2>1. \A x \in closed : Order(x, Flatten(x), status, TRUE) \in Orders
    BY DEF Open, Flatten, TypeOK, Order, Orders
  <2>2. g \in [1..n -> Orders]
    <3> HIDE DEF f, n
    <3> QED BY <1>4, <2>1
  <2> HIDE DEF g, n
  <2> QED BY <1>1, <2>2, FunctionSeq
<1> HIDE DEF b, g, n, f
<1>8. /\ Len(b) = m + n /\ \A i \in 1..m : b[i] = orders[i]
      /\ \A i \in 1..n : b[m + i] = g[i]
  <2>1. /\ Len(orders \o g) = Len(orders) + Len(g)
        /\ \A i \in 1..Len(orders) : (orders \o g)[i] = orders[i]
        /\ \A i \in 1..Len(g) : (orders \o g)[Len(orders) + i] = g[i]
    <3>1. orders \in Seq(Orders) /\ g \in Seq(Orders)
      BY <1>1, <1>7
    <3> QED BY <3>1, ConcatFacts
  <2> QED BY <1>3, <1>7, <2>1
<1> QED BY <1>1, <1>2, <1>4, <1>5, <1>6, <1>8, Zenon DEF b, n, f

\* What a square-off adds: minus the position in every symbol it closes.
LEMMA FlattenNet ==
  ASSUME TypeOK, NEW closed \in SUBSET Open(pos), NEW status \in OrderStatus,
         NEW s \in Syms, NEW chosen,
         \A i \in DOMAIN FlattenOrders(closed, status) : i > Len(orders) => i \in chosen
  PROVE  Net(FlattenOrders(closed, status), s, chosen)
           = Net(orders, s, chosen \cap DOMAIN orders) + (IF s \in closed THEN -pos[s] ELSE 0)
<1> DEFINE b == FlattenOrders(closed, status)
           m == Len(orders)
           n == Cardinality(closed)
           f == SetToSeq(closed)
           t == Term(b, s, chosen)
<1> HIDE ExecWorkerAssumption, SignalPathAssumption
<1>1. /\ b \in Seq(Orders) /\ m \in Nat /\ n \in Nat /\ Len(b) = m + n
      /\ \A i \in 1..m : b[i] = orders[i]
      /\ \A i \in 1..n : b[m + i] = Order(f[i], Flatten(f[i]), status, TRUE)
      /\ f \in [1..n -> closed]
      /\ \A i, j \in 1..n : f[i] = f[j] => i = j
      /\ \A x \in closed : \E i \in 1..n : f[i] = x
  BY FlattenShape, Zenon
<1>2. orders \in Seq(Orders) /\ pos \in [Syms -> Int]
  BY DEF TypeOK
<1>3. \A i \in DOMAIN b : i > m => i \in chosen
  OBVIOUS
<1> HIDE DEF b, m, n, f
<1>4. /\ Net(b, s, chosen) = Total(t, m + n)
      /\ DOMAIN b = 1..(m + n)
      /\ \A i \in 1..(m + n) :
           t[i] \in Int /\ t[i] = IF i \in chosen /\ b[i].sym = s THEN b[i].qty ELSE 0
  <2>1. /\ Net(b, s, chosen) = Total(t, Len(b))
        /\ DOMAIN b = 1..Len(b)
        /\ \A i \in 1..Len(b) :
             t[i] \in Int /\ t[i] = IF i \in chosen /\ b[i].sym = s THEN b[i].qty ELSE 0
    <3>1. b \in Seq(Orders)
      BY <1>1
    <3>2. Net(b, s, chosen) = Total(Term(b, s, chosen), Len(b))
      BY <3>1, NetTerms
    <3>3. DOMAIN b = 1..Len(b)
      BY <3>1, NetTerms
    <3>4. \A i \in 1..Len(b) :
            /\ Term(b, s, chosen)[i] \in Int
            /\ Term(b, s, chosen)[i] = IF i \in chosen /\ b[i].sym = s THEN b[i].qty ELSE 0
      BY <3>1, NetTerms
    <3> QED BY <3>2, <3>3, <3>4
  <2>2. Len(b) = m + n
    BY <1>1
  <2> HIDE DEF t
  <2> QED BY <2>1, <2>2
<1>5. Total(t, m) = Net(orders, s, chosen \cap DOMAIN orders) /\ Total(t, m) \in Int
  <2>1. m <= Len(b) /\ m = Len(orders)
    BY <1>1 DEF m
  <2>2. Total(t, m) = Net(orders, s, chosen \cap DOMAIN orders)
    <3>1. /\ b \in Seq(Orders) /\ Len(orders) <= Len(b)
          /\ \A i \in 1..Len(orders) : b[i].sym = orders[i].sym /\ b[i].qty = orders[i].qty
      BY <1>1, <2>1
    <3>2. Total(Term(b, s, chosen), Len(orders)) = Net(orders, s, chosen \cap DOMAIN orders)
      BY <1>2, <3>1, NetPrefix
    <3> QED BY <2>1, <3>2, Zenon
  <2> QED BY <1>2, <2>2, NetTerms
<1>6. \A i \in 1..n : t[m + i] = IF f[i] = s THEN -pos[s] ELSE 0
  <2> SUFFICES ASSUME NEW i \in 1..n PROVE t[m + i] = IF f[i] = s THEN -pos[s] ELSE 0
    OBVIOUS
  <2>1. m + i \in 1..(m + n) /\ m + i > m
    BY <1>1
  <2>2. m + i \in chosen
    BY <1>3, <1>4, <2>1
  <2>3. b[m + i].sym = f[i] /\ b[m + i].qty = -pos[f[i]]
    <3> DEFINE o == Order(f[i], Flatten(f[i]), status, TRUE)
    <3>1. b[m + i] = o
      BY <1>1
    <3>2. o.sym = f[i] /\ o.qty = -pos[f[i]]
      BY DEF Order, Flatten
    <3> HIDE DEF o
    <3> QED BY <3>1, <3>2
  <2> QED BY <1>4, <2>1, <2>2, <2>3
<1> HIDE DEF t
<1>7. CASE s \in closed
  <2>1. PICK k \in 1..n : f[k] = s
    BY <1>1, <1>7
  <2>2. t[m + k] = -pos[s] /\ m + k \in (m + 1)..(m + n)
    BY <1>1, <1>6, <2>1
  <2>3. ASSUME NEW i \in (m + 1)..(m + n), i # m + k
        PROVE  t[i] = 0
    <3>1. i - m \in 1..n /\ i = m + (i - m) /\ i - m # k
      BY <1>1, <2>3
    <3>2. f[i - m] # s
      BY <1>1, <2>1, <3>1
    <3> QED BY <1>6, <3>1, <3>2
  <2>4. m <= m + n /\ m + n \in Nat
    BY <1>1
  <2>5. Total(t, m + n) = Total(t, m) + t[m + k]
    BY <1>1, <1>4, <2>2, <2>3, <2>4, TotalOne
  <2> QED BY <1>4, <1>5, <1>7, <2>2, <2>5 DEF b
<1>8. CASE s \notin closed
  <2>1. ASSUME NEW i \in (m + 1)..(m + n)
        PROVE  t[i] = 0
    <3>1. i - m \in 1..n /\ i = m + (i - m)
      BY <1>1
    <3>2. f[i - m] # s
      BY <1>1, <1>8, <3>1
    <3> QED BY <1>6, <3>1, <3>2
  <2>2. m <= m + n /\ m + n \in Nat /\ \A i \in 1..m : t[i] \in Int
    BY <1>1, <1>4
  <2>3. Total(t, m + n) = Total(t, m)
    BY <1>1, <2>1, <2>2, TotalFlat
  <2> QED BY <1>4, <1>5, <1>8, <2>3 DEF b
<1> QED BY <1>7, <1>8

-----------------------------------------------------------------------------
\* The orders of a square-off and their status.
LEMMA FlattenStatus ==
  ASSUME TypeOK, NEW closed \in SUBSET Open(pos), NEW status \in OrderStatus
  PROVE  LET b == FlattenOrders(closed, status)
         IN  /\ \A i \in DOMAIN b : i > Len(orders) => b[i].status = status
             /\ DOMAIN orders = {i \in DOMAIN b : i <= Len(orders)}
             /\ Len(orders) \in Nat /\ DOMAIN b \subseteq Nat
<1> DEFINE b == FlattenOrders(closed, status)
           m == Len(orders)
           n == Cardinality(closed)
           f == SetToSeq(closed)
<1>1. /\ b \in Seq(Orders) /\ m \in Nat /\ n \in Nat /\ Len(b) = m + n
      /\ \A i \in 1..n : b[m + i] = Order(f[i], Flatten(f[i]), status, TRUE)
  BY FlattenShape, Zenon
<1>2. DOMAIN orders = 1..m
  BY DEF TypeOK
<1> HIDE DEF b, n, f
<1>3. DOMAIN b = 1..(m + n)
  BY <1>1
<1>4. ASSUME NEW i \in DOMAIN b, i > m
      PROVE  b[i].status = status
  <2>1. i - m \in 1..n /\ m + (i - m) = i
    BY <1>1, <1>3, <1>4
  <2> DEFINE o == Order(f[i - m], Flatten(f[i - m]), status, TRUE)
  <2>2. b[i] = o
    BY <1>1, <2>1
  <2>3. o.status = status
    BY DEF Order
  <2> HIDE DEF o
  <2> QED BY <2>2, <2>3
<1>5. DOMAIN orders = {i \in DOMAIN b : i <= m} /\ DOMAIN b \subseteq Nat
  BY <1>1, <1>2, <1>3
<1> QED BY <1>1, <1>4, <1>5 DEF b

\* A square-off that answers ok, with no broker call failed on the way,
\* leaves, with the orders it has sent, no position in any symbol.
LEMMA SquareOffOk ==
  ASSUME TypeOK, NEW o \in SquareOffAll, o.answer.ok = TRUE, ~o.raised,
         NEW s \in Syms, NEW sent,
         sent = {i \in (DOMAIN o.orders) \ (DOMAIN orders) : o.orders[i].status = "SUBMITTED"}
  PROVE  o.pos[s] + Net(o.orders, s, sent) = 0
<1>p. pos \in [Syms -> Int] /\ orders \in Seq(Orders)
  BY DEF TypeOK
<1>f. "FILLED" \in OrderStatus /\ "SUBMITTED" \in OrderStatus
  BY DEF OrderStatus
<1>1. CASE ~Authorized
  <2>1. o = Unauthorized
    BY <1>1 DEF SquareOffAll
  <2>2. o.answer.ok = FALSE
    BY <2>1 DEF Unauthorized, Unchanged, Outcome, Answer
  <2> QED BY <2>2
<1>r. CASE Authorized /\ ~Ready
  <2>1. o = Refused
    BY <1>r DEF SquareOffAll
  <2>2. o.answer.ok = FALSE
    BY <2>1 DEF Refused, Unchanged, Outcome, Answer
  <2> QED BY <2>2
<1>2. CASE Authorized /\ Paper
  <2> DEFINE p == [x \in Syms |-> pos[x] + IF pos[x] = 0 THEN 0 ELSE Flatten(x)]
             b == FlattenOrders(Open(pos), "FILLED")
  <2>1. o = Outcome(p, b, Answer(200, TRUE, 0), FALSE)
    BY <1>2 DEF SquareOffAll, Paper, Ready
  <2>2. o.pos = p /\ o.orders = b
    BY <2>1 DEF Outcome
  <2>3. p[s] = 0
    BY <1>p DEF Flatten
  <2>4. /\ \A i \in DOMAIN b : i > Len(orders) => b[i].status = "FILLED"
        /\ DOMAIN orders = {i \in DOMAIN b : i <= Len(orders)}
        /\ Len(orders) \in Nat /\ DOMAIN b \subseteq Nat
    BY <1>f, FlattenStatus
  <2>5. b \in Seq(Orders)
    BY <1>f, FlattenOrdersTyped
  <2> HIDE DEF p, b
  <2>6. sent = {}
    BY <2>2, <2>4
  <2>7. Net(b, s, sent) = 0
    <3>1. Net(b, s, {}) = 0
      BY <2>5, NetOfNone
    <3> QED BY <2>6, <3>1, Zenon
  <2>8. o.pos[s] = 0 /\ Net(o.orders, s, sent) = 0
    BY <2>2, <2>3, <2>7, Zenon
  <2> QED BY <2>8
<1>3. CASE Authorized /\ Ready /\ cfg.broker = "dhan"
  <2> DEFINE done == Open(pos) = {}
  <2>0. done \in BOOLEAN /\ ~Paper
    BY <1>3 DEF Paper
  <2>1. \/ o = Outcome(pos, orders, Answer(200, done, 0), FALSE)
        \/ o = Outcome(pos, orders, Answer(200, TRUE, 0), TRUE)
        \/ o = Outcome(pos, orders, Answer(500, FALSE, 0), TRUE)
    BY <1>3 DEF SquareOffAll, Paper, Unchanged
  <2> HIDE DEF done
  <2>2. done /\ o.pos = pos /\ o.orders = orders
    <3>1. /\ Outcome(pos, orders, Answer(500, FALSE, 0), TRUE).raised = TRUE
          /\ Outcome(pos, orders, Answer(200, TRUE, 0), TRUE).raised = TRUE
      BY DEF Outcome
    <3>2. o = Outcome(pos, orders, Answer(200, done, 0), FALSE)
      BY <2>1, <3>1
    <3>3. o.answer.ok = done /\ o.pos = pos /\ o.orders = orders
      BY <3>2 DEF Outcome, Answer
    <3> QED BY <3>3
  <2>3. pos[s] = 0
    BY <2>2 DEF done, Open
  <2>4. sent = {}
    BY <2>2
  <2>5. Net(orders, s, {}) = 0
    BY <1>p, NetOfNone
  <2> QED BY <2>2, <2>3, <2>4, <2>5
<1>4. CASE Authorized /\ Ready /\ cfg.broker = "zerodha"
  <2> DEFINE all  == Outcome(pos, FlattenOrders(Open(pos), "SUBMITTED"), Answer(200, TRUE, 0), FALSE)
             some(c) == Outcome(pos, FlattenOrders(c, "SUBMITTED"), Answer(500, FALSE, 0), TRUE)
             b == FlattenOrders(Open(pos), "SUBMITTED")
  <2>1. SquareOffAll = {all} \cup {some(closed) : closed \in SUBSET Open(pos)}
    BY <1>4 DEF SquareOffAll, Paper
  <2>2. \A c : some(c).answer.ok = FALSE
    BY DEF Outcome, Answer
  <2>3. all.pos = pos /\ all.orders = b
    BY DEF Outcome
  <2> HIDE DEF all, some, b
  <2>4. o.pos = pos /\ o.orders = b
    BY <2>1, <2>2, <2>3
  <2>5. /\ \A i \in DOMAIN b : i > Len(orders) => b[i].status = "SUBMITTED"
        /\ DOMAIN orders = {i \in DOMAIN b : i <= Len(orders)}
        /\ Len(orders) \in Nat /\ DOMAIN b \subseteq Nat
    BY <1>f, FlattenStatus DEF b
  <2>6. (\A i \in DOMAIN b : i > Len(orders) => i \in sent) /\ sent \cap DOMAIN orders = {}
    BY <2>4, <2>5
  <2>7. Net(b, s, sent)
          = Net(orders, s, sent \cap DOMAIN orders) + (IF s \in Open(pos) THEN -pos[s] ELSE 0)
    BY <1>f, <2>6, FlattenNet DEF b
  <2>8. Net(orders, s, sent \cap DOMAIN orders) = 0
    <3>1. Net(orders, s, {}) = 0
      BY <1>p, NetOfNone
    <3> QED BY <2>6, <3>1, Zenon
  <2>9. s \notin Open(pos) => pos[s] = 0
    BY DEF Open
  <2>10. pos[s] \in Int
    BY <1>p
  <2>11. o.pos[s] = pos[s] /\ Net(o.orders, s, sent) = Net(b, s, sent)
    BY <2>4, Zenon
  <2> QED BY <2>7, <2>8, <2>9, <2>10, <2>11
<1> QED BY <1>1, <1>r, <1>2, <1>3, <1>4 DEF TypeOK, Paper, Brokers, SignalPathAssumption

\* A square-off that answers ok, with no failed read of the positions behind
\* it, has an order out against every position, of the whole of it, or has
\* closed it (square_off_all).
THEOREM SquareOffCoversAlways == Spec => SquareOffCovers
<1> DEFINE A == \A r \in net \ net', o \in SquareOffAll :
                  r.path = "square_off" /\ o.answer.ok /\ ~o.raised
                    /\ o.pos = pos' /\ o.orders = orders'
                  => Covered
<1>1. TypeOK => A
  <2> SUFFICES ASSUME TypeOK, NEW o \in SquareOffAll, o.answer.ok, NEW s \in Syms,
                      ~o.raised, o.pos = pos', o.orders = orders'
               PROVE  pos'[s] + Net(orders', s, {i \in (DOMAIN orders') \ (DOMAIN orders) :
                                                   orders'[i].status = "SUBMITTED"}) = 0
    BY Zenon DEF Covered
  <2> DEFINE sent == {i \in (DOMAIN o.orders) \ (DOMAIN orders) :
                        o.orders[i].status = "SUBMITTED"}
  <2>1. o.answer.ok = TRUE
    <3>1. o.answer \in Answers
      BY SquareOffOutcomes
    <3>2. o.answer.ok \in BOOLEAN
      BY <3>1 DEF Answers
    <3> QED BY <3>2
  <2>2. o.pos[s] + Net(o.orders, s, sent) = 0
    BY <2>1, SquareOffOk
  <2> QED BY <2>2
<1> HIDE DEF A
<1>2. []TypeOK => [][A]_vars
  BY <1>1, PTL
<1>3. SquareOffCovers <=> [][A]_vars
  BY DEF SquareOffCovers, A
<1> QED BY <1>2, <1>3, TypeCorrect, PTL

-----------------------------------------------------------------------------
\* Where the account changes: in the worker's handlers, its restart, and at
\* the exchange.  The environment never does.
LEMMA AccountSteps ==
  ASSUME CallShape, [Next]_vars
  PROVE  /\ cfg' = cfg
         /\ \/ UNCHANGED <<pos, orders>>
            \/ \E r \in net : Serve(r)
            \/ Restart
            \/ \E i \in DOMAIN orders : Fill(i) \/ CancelOrder(i)
<1>1. ASSUME NEW g \in Signals, ExecuteSignal(g) PROVE UNCHANGED <<cfg, pos, orders>>
  BY <1>1 DEF ExecuteSignal, account
<1>2. ASSUME NEW c \in Clients, AttemptEnds(c) PROVE UNCHANGED <<cfg, pos, orders>>
  <2>1. Retry(c) \/ Completed(c, inbox[c])
    BY <1>2 DEF AttemptEnds
  <2>2. ASSUME NEW a, Completed(c, a) PROVE UNCHANGED <<cfg, pos, orders>>
    <3> DEFINE n == IF Good(a) THEN a.count ELSE 0
    <3>1. CASE c = Engine /\ call[c].path = "positions"
      <4>1. AuthorizeExecution(call[c].sig, n)
        BY <2>2, <3>1 DEF Completed
      <4> HIDE DEF n
      <4> QED BY <4>1 DEF AuthorizeExecution, account
    <3>2. CASE c = Engine /\ call[c].path = "place"
      BY <2>2, <3>2, ClientsTwo DEF Completed, account
    <3>3. CASE c = Panel
      BY <2>2, <3>3, ClientsTwo DEF Completed, account
    <3>4. c = Engine => call[c].path \in {"positions", "place"}
      <4>1. inbox[c] # NoAnswer
        BY <1>2 DEF AttemptEnds
      <4> QED BY <4>1 DEF CallShape
    <3> QED BY <3>1, <3>2, <3>3, <3>4 DEF Clients
  <2>3. Retry(c) => UNCHANGED <<cfg, pos, orders>>
    BY DEF Retry, account
  <2> QED BY <2>1, <2>2, <2>3
<1>3. ASSUME NEW c \in Clients, GiveUp(c) PROVE UNCHANGED <<cfg, pos, orders>>
  BY <1>3 DEF GiveUp, account
<1>4. PanelSquareOff => UNCHANGED <<cfg, pos, orders>>
  BY DEF PanelSquareOff, account
<1>5. ASSUME NEW r \in net, Serve(r) PROVE cfg' = cfg
  BY <1>5 DEF Serve
<1>6. Restart => cfg' = cfg
  BY DEF Restart, WorkerRestart
<1>7. ASSUME NEW i \in DOMAIN orders, Fill(i) \/ CancelOrder(i) PROVE cfg' = cfg
  BY <1>7 DEF Fill, ExchangeFills, CancelOrder, Cancel
<1>8. UNCHANGED vars => UNCHANGED <<cfg, pos, orders>>
  BY DEF vars
<1> QED BY <1>1, <1>2, <1>3, <1>4, <1>5, <1>6, <1>7, <1>8 DEF Next


\* The paper book starts empty, and adds up.
LEMMA InitAddsUp == Init => PaperBookAddsUp
<1> SUFFICES ASSUME Init, NEW s \in Syms PROVE pos[s] = Net(orders, s, DOMAIN orders)
  BY DEF PaperBookAddsUp
<1>1. orders = <<>> /\ pos[s] = 0 /\ orders \in Seq(Orders)
  BY DEF Init, Flat
<1>2. DOMAIN orders = {}
  BY <1>1
<1>3. Net(orders, s, {}) = 0
  BY <1>1, NetOfNone
<1> QED BY <1>1, <1>2, <1>3, Zenon

\* A request the worker serves on paper keeps the book adding up.
LEMMA ServeAddsUp ==
  ASSUME IInv, Paper, PaperBookAddsUp, NEW r \in net, Serve(r), NEW s \in Syms
  PROVE  pos'[s] = Net(orders', s, DOMAIN orders')
<1>t. /\ TypeOK /\ CallShape
      /\ pos \in [Syms -> Int] /\ orders \in Seq(Orders)
      /\ pos[s] = Net(orders, s, DOMAIN orders)
  BY DEF IInv, TypeOK, PaperBookAddsUp
<1>1. PICK o \in Served(r) : pos' = o.pos /\ orders' = o.orders
  BY <1>t, ServeFacts
<1>2. r.path \in Paths
  BY <1>t DEF TypeOK
<1>3. CASE o.pos = pos /\ o.orders = orders
  BY <1>t, <1>1, <1>3, Zenon
<1>4. CASE r.path = "positions"
  <2>1. o \in GetPositions
    BY <1>4 DEF Served
  <2>2. o.pos = pos /\ o.orders = orders
    BY <2>1, PositionsOutcomes DEF Gives
  <2> QED BY <1>3, <2>2
<1>5. CASE r.path = "place"
  <2> DEFINE x == sig[r.sig].sym
             q == Signed(sig[r.sig].side, sig[r.sig].qty)
             a == Order(x, q, "FILLED", FALSE)
  <2>1. o \in PlaceOrder(x, q)
    BY <1>5 DEF Served
  <2>2. sig[r.sig] \in SignalTypes
    <3>1. r.sig \in Signals /\ ~NoLate(r.sig)
      BY <1>t, <1>5 DEF CallShape, NoLate, PlaceRequest
    <3> QED BY <1>t, <3>1 DEF CallShape
  <2>3. x \in Syms /\ q \in Int
    BY <2>2 DEF SignalTypes, Signed, Quantities
  <2> HIDE DEF x, q
  <2>4. CASE ~Authorized
    <3>1. PICK st \in {401, 503} : Gives(o, pos, orders, st, 0)
      BY <2>1, <2>4, PlaceRefused
    <3> QED BY <1>3, <3>1 DEF Gives
  <2>5. CASE Authorized
    <3>1. o.pos = [pos EXCEPT ![x] = @ + q] /\ o.orders = Append(orders, a)
      <4>1. Gives(o, [pos EXCEPT ![x] = @ + q], Booked(x, q, "FILLED"), 200, 0)
        BY <2>1, <2>5, PlacePaper
      <4> QED BY <4>1, Zenon DEF Gives, Booked
    <3>2. a \in Orders /\ a.sym = x /\ a.qty = q
      BY <2>3 DEF Order, Orders, OrderStatus
    <3> HIDE DEF a
    <3>3. Net(Append(orders, a), s, DOMAIN Append(orders, a))
            = Net(orders, s, DOMAIN orders) + (IF a.sym = s THEN a.qty ELSE 0)
      BY <1>t, <3>2, NetAppend
    <3>4. o.pos[s] = pos[s] + (IF x = s THEN q ELSE 0)
      BY <1>t, <2>3, <3>1
    <3>5. Net(o.orders, s, DOMAIN o.orders)
            = Net(orders, s, DOMAIN orders) + (IF x = s THEN q ELSE 0)
      BY <3>1, <3>2, <3>3, Zenon
    <3> QED BY <1>t, <1>1, <3>4, <3>5, Zenon
  <2> QED BY <2>4, <2>5
<1>6. CASE r.path = "square_off"
  <2> DEFINE b == FlattenOrders(Open(pos), "FILLED")
  <2>1. o \in SquareOffAll
    BY <1>6 DEF Served
  <2>2. \/ o.pos = pos /\ o.orders = orders
        \/ Open(o.pos) = {} /\ o.orders = b
    BY <1>t, <2>1, SquareOffOutcomes
  <2>3. CASE Open(o.pos) = {} /\ o.orders = b
    <3>1. o.pos[s] = 0
      BY <2>3 DEF Open
    <3>f. "FILLED" \in OrderStatus
      BY DEF OrderStatus
    <3>2. Net(b, s, DOMAIN b)
            = Net(orders, s, DOMAIN b \cap DOMAIN orders)
              + (IF s \in Open(pos) THEN -pos[s] ELSE 0)
      BY <1>t, <3>f, FlattenNet
    <3>3. DOMAIN b \cap DOMAIN orders = DOMAIN orders
      <4>1. DOMAIN orders = {i \in DOMAIN b : i <= Len(orders)}
        BY <1>t, <3>f, FlattenStatus
      <4> HIDE DEF b
      <4> QED BY <4>1
    <3> HIDE DEF b
    <3>4. Net(b, s, DOMAIN b)
            = Net(orders, s, DOMAIN orders) + (IF s \in Open(pos) THEN -pos[s] ELSE 0)
      BY <3>2, <3>3, Zenon
    <3>5. Net(b, s, DOMAIN b) = 0
      <4>1. s \in Open(pos) <=> pos[s] # 0
        BY DEF Open
      <4> QED BY <1>t, <3>4, <4>1
    <3> QED BY <1>1, <2>3, <3>1, <3>5, Zenon
  <2> QED BY <1>3, <2>2, <2>3
<1> QED BY <1>2, <1>4, <1>5, <1>6 DEF Paths

\* A step keeps the paper book adding up.
LEMMA NextAddsUp == IInv /\ PaperBookAddsUp /\ [Next]_vars => PaperBookAddsUp'
<1> SUFFICES ASSUME IInv, PaperBookAddsUp, [Next]_vars, Paper, NEW s \in Syms, cfg' = cfg
             PROVE  pos'[s] = Net(orders', s, DOMAIN orders')
  <2>1. IInv /\ [Next]_vars => cfg' = cfg
    BY AccountSteps DEF IInv
  <2> QED BY <2>1 DEF PaperBookAddsUp, Paper
<1>t. /\ TypeOK /\ PaperInv /\ orders \in Seq(Orders)
      /\ pos[s] = Net(orders, s, DOMAIN orders)
  BY DEF IInv, TypeOK, PaperBookAddsUp
<1>1. CASE UNCHANGED <<pos, orders>>
  BY <1>t, <1>1, Zenon
<1>2. ASSUME NEW r \in net, Serve(r) PROVE pos'[s] = Net(orders', s, DOMAIN orders')
  BY <1>2, ServeAddsUp
<1>3. CASE Restart
  <2>1. pos' = Flat /\ orders' = <<>>
    BY <1>3 DEF Restart, WorkerRestart
  <2>2. <<>> \in Seq(Orders) /\ DOMAIN <<>> = {} /\ Flat[s] = 0
    BY DEF Flat
  <2>3. Net(<<>>, s, {}) = 0
    BY <2>2, NetOfNone
  <2> QED BY <2>1, <2>2, <2>3, Zenon
<1>4. ASSUME NEW i \in DOMAIN orders, Fill(i) PROVE pos'[s] = Net(orders', s, DOMAIN orders')
  <2>1. orders[i].status = "SUBMITTED" /\ orders[i].status # "SUBMITTED"
    BY <1>t, <1>4 DEF Fill, ExchangeFills, PaperInv
  <2> QED BY <2>1
<1>5. ASSUME NEW i \in DOMAIN orders, CancelOrder(i)
      PROVE  pos'[s] = Net(orders', s, DOMAIN orders')
  <2> DEFINE b == [orders EXCEPT ![i].status = "CANCELLED"]
  <2>1. pos' = pos /\ orders' = b
    BY <1>5 DEF CancelOrder, Cancel, PaperCancel, LiveCancel
  <2>2. b \in Seq(Orders) /\ Len(b) = Len(orders)
    <3>1. "CANCELLED" \in OrderStatus
      BY DEF OrderStatus
    <3>2. b \in Seq(Orders)
      BY <1>t, <3>1, StatusChange
    <3> QED BY <1>t, <3>2
  <2>3. \A j \in 1..Len(orders) : b[j].sym = orders[j].sym /\ b[j].qty = orders[j].qty
    <3> SUFFICES ASSUME NEW j \in 1..Len(orders)
                 PROVE  b[j].sym = orders[j].sym /\ b[j].qty = orders[j].qty
      OBVIOUS
    <3>1. j \in DOMAIN orders /\ orders[j] \in Orders
      BY <1>t
    <3> QED BY <1>t, <3>1 DEF Orders
  <2> HIDE DEF b
  <2>4. Net(orders, s, DOMAIN orders) = Net(b, s, DOMAIN b)
    BY <1>t, <2>2, <2>3, NetAgrees
  <2> QED BY <1>t, <2>1, <2>4, Zenon
<1> QED BY <1>1, <1>2, <1>3, <1>4, <1>5, AccountSteps DEF IInv

\* On paper the positions are at all times what the orders placed since the
\* worker started add up to: placed, flipped, squared off or cancelled.
THEOREM PaperBookAddsUpAlways == Spec => []PaperBookAddsUp
BY InitAddsUp, NextAddsUp, IInvAlways, PTL DEF Spec
=============================================================================
