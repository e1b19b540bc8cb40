----------------------------- MODULE ExecWorker -----------------------------
(***************************************************************************)
(* The execution worker (execution_worker/main.py, broker_adapter.py): the *)
(* account behind its HTTP routes.  Its handlers are coroutines that never *)
(* await while they work, so requests are served one at a time and a       *)
(* handler is a set of outcomes: the account it leaves, the status it      *)
(* answers, and whether a broker call failed on the way: raised, or was    *)
(* answered by a failure payload that tells nothing of the account.        *)
(*                                                                         *)
(* Prices are left out: they decide no branch and no quantity.             *)
(***************************************************************************)
EXTENDS Integers, Sequences, FiniteSets, SequencesExt, FiniteSetsExt

CONSTANTS
  Syms,          \* instruments
  NumericSyms    \* those named by a numeric Dhan security id

ASSUME ExecWorkerAssumption == IsFiniteSet(Syms) /\ NumericSyms \subseteq Syms

VARIABLES
  cfg,      \* the worker's environment: broker, auth, and the engine's below
  pos,      \* pos[s]: net quantity held, 0 when there is no position row
  orders    \* the order book: <<[sym, qty, status, flatten], ...>>

account == <<pos, orders>>

Brokers == {"paper", "dhan", "zerodha"}
OrderStatus == {"FILLED", "SUBMITTED", "CANCELLED"}

Paper == cfg.broker = "paper"
Open(book) == {s \in Syms : book[s] # 0}
Flat == [s \in Syms |-> 0]

Answer(status, ok, count) == [status |-> status, ok |-> ok, count |-> count]
Outcome(p, o, answer, raised) ==
  [pos |-> p, orders |-> o, answer |-> answer, raised |-> raised]
Unchanged(answer, raised) == Outcome(pos, orders, answer, raised)

\* A BrokerAdapterError is a 400.
Refused == Unchanged(Answer(400, FALSE, 0), FALSE)

\* resolve_broker_name, _credentials: without a supported broker and its
\* credentials every call of a live account is refused.
Ready == Paper \/ cfg.ready

\* require_auth_token: 503 while the secret is not configured, 401 when the
\* caller's differs.
Authorized == cfg.auth = "match"
Unauthorized ==
  Unchanged(Answer(IF cfg.auth = "unset" THEN 503 ELSE 401, FALSE, 0), FALSE)

Signed(side, qty) == IF side = "BUY" THEN qty ELSE -qty

-----------------------------------------------------------------------------
\* Mutant: a second fill in a symbol replaces the quantity held.
PaperPlaceReplaces(book, s, q) == [book EXCEPT ![s] = q]

\* _paper_place: filled at once; the row goes when the quantity reaches 0.
PaperPlace(book, s, q) == [book EXCEPT ![s] = @ + q]

\* An order of signed quantity q; flatten marks the ones square_off_all makes.
Order(s, q, status, flatten) ==
  [sym |-> s, qty |-> q, status |-> status, flatten |-> flatten]
Booked(s, q, status) == Append(orders, Order(s, q, status, FALSE))

\* Mutant: a failure the broker reports is answered as an accepted order.
PlaceLiveLenient(s, q) ==
  LET accepted == Booked(s, q, "SUBMITTED")
  IN {Outcome(pos, accepted, Answer(200, TRUE, 0), FALSE),
      Unchanged(Answer(200, TRUE, 0), FALSE)}

\* _place_dhan, _place_zerodha.  Dhan takes numeric ids only and reports a
\* failure in its payload (BrokerAdapterError, 400), behind which the order
\* may have been booked; Kite raises.  Any other exception is a 500, whether
\* or not the broker took the order.
PlaceLive(s, q) ==
  LET accepted == Booked(s, q, "SUBMITTED")
      failed   == Answer(500, FALSE, 0)
  IN IF cfg.broker = "dhan" /\ s \notin NumericSyms
     THEN {Refused}
     ELSE {Outcome(pos, accepted, Answer(200, TRUE, 0), FALSE),
           Unchanged(failed, TRUE), Outcome(pos, accepted, failed, TRUE)}
          \cup {x \in {Refused, Outcome(pos, accepted, Answer(400, FALSE, 0), TRUE)} :
                  cfg.broker = "dhan"}

\* POST /order/place.
PlaceOrder(s, q) ==
  IF ~Authorized THEN {Unauthorized}
  ELSE IF ~Ready THEN {Refused}
  ELSE IF Paper
       THEN {Outcome(PaperPlace(pos, s, q), Booked(s, q, "FILLED"),
                     Answer(200, TRUE, 0), FALSE)}
       ELSE PlaceLive(s, q)

\* GET /order/positions: rows with a net quantity only.  _positions_dhan does
\* not look at the payload's status: a failure is read as an empty list.
GetPositions ==
  IF ~Authorized THEN {Unauthorized}
  ELSE IF ~Ready THEN {Refused}
  ELSE {Unchanged(Answer(200, TRUE, Cardinality(Open(pos))), FALSE)}
       \cup {x \in {Unchanged(Answer(500, FALSE, 0), TRUE)} : ~Paper}
       \cup {x \in {Unchanged(Answer(200, TRUE, 0), TRUE)} : cfg.broker = "dhan"}

\* Mutant: the flatten order keeps the side of the position.
FlattenSideIgnored(s) == pos[s]

Flatten(s) == -pos[s]

FlattenOrders(closed, status) ==
  orders \o [i \in 1..Cardinality(closed) |->
               LET s == SetToSeq(closed)[i] IN Order(s, Flatten(s), status, TRUE)]

\* POST /order/square_off_all.  In the paper book every row is closed.  A
\* Dhan row carries its trading symbol, which place_order refuses, and the
\* refusals are collected into ok = False; a failure payload has no rows, so
\* nothing is refused and the answer is ok.  On Zerodha an exception in the
\* loop leaves the rest open and answers 500.
SquareOffAll ==
  IF ~Authorized THEN {Unauthorized}
  ELSE IF ~Ready THEN {Refused}
  ELSE CASE Paper ->
              {Outcome([s \in Syms |-> pos[s] + IF pos[s] = 0 THEN 0 ELSE Flatten(s)],
                       FlattenOrders(Open(pos), "FILLED"),
                       Answer(200, TRUE, 0), FALSE)}
         [] cfg.broker = "dhan" ->
              {Unchanged(Answer(200, Open(pos) = {}, 0), FALSE),
               Unchanged(Answer(200, TRUE, 0), TRUE),
               Unchanged(Answer(500, FALSE, 0), TRUE)}
         [] cfg.broker = "zerodha" ->
              {Outcome(pos, FlattenOrders(Open(pos), "SUBMITTED"),
                       Answer(200, TRUE, 0), FALSE)}
              \cup {Outcome(pos, FlattenOrders(closed, "SUBMITTED"),
                            Answer(500, FALSE, 0), TRUE) : closed \in SUBSET Open(pos)}

-----------------------------------------------------------------------------
\* _paper_cancel.  A paper order is FILLED when it is placed: its status
\* becomes CANCELLED and its position stays.
PaperCancel(i) ==
  /\ Paper
  /\ orders[i].status = "FILLED"
  /\ orders' = [orders EXCEPT ![i].status = "CANCELLED"]

\* _cancel_dhan, _cancel_zerodha: the exchange cancels what it has not filled.
LiveCancel(i) ==
  /\ ~Paper /\ Ready
  /\ orders[i].status = "SUBMITTED"
  /\ orders' = [orders EXCEPT ![i].status = "CANCELLED"]

\* POST /order/cancel.
Cancel(i) ==
  /\ Authorized
  /\ PaperCancel(i) \/ LiveCancel(i)
  /\ UNCHANGED <<cfg, pos>>

\* The exchange fills a live order.
ExchangeFills(i) ==
  /\ orders[i].status = "SUBMITTED"
  /\ orders' = [orders EXCEPT ![i].status = "FILLED"]
  /\ pos' = [pos EXCEPT ![orders[i].sym] = @ + orders[i].qty]
  /\ UNCHANGED cfg

\* PM2 restarts the worker: the paper book lived in its memory.
WorkerRestart ==
  /\ pos' = IF Paper THEN Flat ELSE pos
  /\ orders' = IF Paper THEN <<>> ELSE orders
  /\ UNCHANGED cfg
=============================================================================
