----------------------------- MODULE SignalPath -----------------------------
(***************************************************************************)
(* An order signal's way to the account: the risk gate                     *)
(* (local_app/strategy/langgraph_controller.py, pipeline.py), the HTTP     *)
(* client with its retries (local_app/remote_client.py), a link that loses *)
(* and delays requests and answers, and the execution worker.  A second    *)
(* client, the worker dashboard (dashboard/app.py), squares everything     *)
(* off.                                                                    *)
(*                                                                         *)
(* A request the client has given up on may still reach the worker, at any *)
(* later time; nothing in it tells the worker that it is a retry.          *)
(***************************************************************************)
EXTENDS ExecWorker

CONSTANTS
  Signals,        \* signals the local engine executes, one at a time
  Engine, Panel,  \* the two clients of the worker
  NoSignal, NoAnswer,
  Configs,        \* environments: [broker, auth, ready, dry, trailing]
  MaxOpenPositions,
  MaxFaults,      \* bound: attempts given up, broker calls that fail, restarts
  MaxActs         \* bound: square-offs and cancels by the operator

ASSUME SignalPathAssumption ==
  /\ Engine # Panel /\ NoSignal \notin Signals
  /\ Configs \subseteq [broker : Brokers, auth : {"match", "unset", "differs"},
                        ready : BOOLEAN, dry : BOOLEAN, trailing : BOOLEAN]
  /\ MaxOpenPositions \in Nat /\ MaxFaults \in Nat /\ MaxActs \in Nat

MaxRetries == 3
Clients == {Engine, Panel}
Paths == {"positions", "place", "square_off"}

VARIABLES
  sig,        \* sig[g]: the signal's symbol and signed quantity, once given
  result,     \* result[g]: what execute_signal returned
  call,       \* call[c]: the request client c waits on, or Idle
  inbox,      \* inbox[c]: its answer
  net,        \* requests on the link or queued at the worker
  faults, acts,   \* how much of each bound is used
  placed,     \* history: placed[g]: orders booked for g
  masked,     \* history: signals with an order the broker reported as failed
  doubtful    \* history: signals with an attempt that was not answered, or 5xx

bounds == <<faults, acts>>
vars == <<cfg, pos, orders, sig, result, call, inbox, net, bounds, placed, masked, doubtful>>

Idle == [path |-> "none", sig |-> NoSignal, attempt |-> 0]
Call(path, g) == [path |-> path, sig |-> g, attempt |-> 1]
Request(c, k) == [client |-> c, path |-> k.path, sig |-> k.sig, attempt |-> k.attempt]

Fault == faults < MaxFaults /\ faults' = faults + 1 /\ UNCHANGED acts
Act   == acts < MaxActs /\ acts' = acts + 1 /\ UNCHANGED faults

-----------------------------------------------------------------------------
\* The gate.  India VIX in tenths, trend strength in thousandths.

\* _load_trend_strength: the outlook score over 5, clamped to -1..1.
TrendStrength(score) == Max({-1000, Min({1000, score * 200})})

\* assess_market_regime, with an unknown VIX blocked (REGIME_ALLOW_UNKNOWN
\* not set).
Regime(vix, trend) ==
  CASE vix = NoAnswer -> "UNKNOWN"
    [] vix # NoAnswer /\ vix >= 280 -> "EXTREME_VOL"
    [] vix # NoAnswer /\ vix >= 180 /\ vix < 280 -> "ELEVATED_VOL"
    [] vix # NoAnswer /\ vix < 180 ->
         IF trend >= 150 \/ trend <= -150 THEN "TRENDING" ELSE "CALM"

RegimeOk(vix, trend) ==
  LET r == Regime(vix, trend)
  IN \/ r \in {"TRENDING", "CALM"}
     \/ r = "ELEVATED_VOL" /\ (trend >= 225 \/ trend <= -225)

MaxDailyLoss == 5000
MaxOrderQty == 130

\* Mutant: the limit is exceeded before it blocks.
RiskOkOffByOne(pnl, openCount, qty) ==
  /\ 5 * pnl > -4 * MaxDailyLoss
  /\ openCount <= MaxOpenPositions
  /\ cfg.trailing
  /\ qty > 0 /\ qty <= MaxOrderQty

\* evaluate_risk.  The side of the order is not looked at.
RiskOk(pnl, openCount, qty) ==
  /\ 5 * pnl > -4 * MaxDailyLoss
  /\ openCount < MaxOpenPositions
  /\ cfg.trailing
  /\ qty > 0 /\ qty <= MaxOrderQty

VixReadings == {NoAnswer, 179, 180, 279, 280}
Scores == {-6, -1, 0, 1, 2}
PnlReadings == {-5000, -4000, -3999}
Quantities == {65, 131}

-----------------------------------------------------------------------------
Init ==
  /\ cfg \in Configs
  /\ pos = Flat /\ orders = <<>>
  /\ sig = [g \in Signals |-> NoSignal]
  /\ result = [g \in Signals |-> "new"]
  /\ call = [c \in Clients |-> Idle]
  /\ inbox = [c \in Clients |-> NoAnswer]
  /\ net = {}
  /\ faults = 0 /\ acts = 0
  /\ placed = [g \in Signals |-> 0]
  /\ masked = {} /\ doubtful = {}

\* Client c makes call k: the request is on the link.
Dispatch(c, k) ==
  /\ call' = [call EXCEPT ![c] = k]
  /\ net' = net \cup {Request(c, k)}

\* execute_signal begins: the regime first; when it allows, the gate asks
\* for the open positions.
ExecuteSignal(g) ==
  /\ call[Engine] = Idle
  /\ result[g] = "new"
  /\ \/ /\ \E vix \in VixReadings, score \in Scores : RegimeOk(vix, TrendStrength(score))
        /\ \E s \in Syms, side \in {"BUY", "SELL"}, qty \in Quantities :
             sig' = [sig EXCEPT ![g] = [sym |-> s, side |-> side, qty |-> qty]]
        /\ Dispatch(Engine, Call("positions", g))
        /\ UNCHANGED result
     \/ /\ \E vix \in VixReadings, score \in Scores : ~RegimeOk(vix, TrendStrength(score))
        /\ result' = [result EXCEPT ![g] = "aborted"]
        /\ UNCHANGED <<sig, call, net>>
  /\ UNCHANGED <<account, cfg, inbox, bounds, placed, masked, doubtful>>

\* evaluate_risk and authorize_execution, once the positions call is over;
\* a call that failed counts as no open position.
AuthorizeExecution(g, openCount) ==
  /\ \E pnl \in PnlReadings :
       LET ok == RiskOk(pnl, openCount, sig[g].qty)
       IN IF ok /\ ~cfg.dry
          THEN Dispatch(Engine, Call("place", g)) /\ UNCHANGED result
          ELSE /\ result' = [result EXCEPT ![g] = IF ok THEN "dry_run" ELSE "aborted"]
               /\ call' = [call EXCEPT ![Engine] = Idle]
               /\ UNCHANGED net
  /\ UNCHANGED <<account, cfg, sig, bounds, placed, masked>>

\* raise_for_status: whatever is not a 2xx is an exception for the caller.
Good(answer) == answer.status = 200

\* What the caller does with the end of its call, an answer or an exception.
Completed(c, answer) ==
  LET k == call[c]
  IN CASE c = Engine /\ k.path = "positions" ->
            AuthorizeExecution(k.sig, IF Good(answer) THEN answer.count ELSE 0)
       [] c = Engine /\ k.path = "place" ->
            /\ result' = [result EXCEPT ![k.sig] =
                            IF Good(answer) THEN "ok" ELSE "aborted"]
            /\ call' = [call EXCEPT ![c] = Idle]
            /\ UNCHANGED <<account, cfg, sig, net, bounds, placed, masked>>
       [] c = Panel ->
            /\ call' = [call EXCEPT ![c] = Idle]
            /\ UNCHANGED <<account, cfg, sig, result, net, bounds, placed, masked>>

\* How an attempt ends without an answer: no connection or no reply in time,
\* or a connection the worker closes, which is not among the retried
\* exceptions.
TimedOut     == Answer(0, FALSE, 0)
Disconnected == Answer(1, FALSE, 0)
Retryable(answer) == answer.status >= 500 \/ answer = TimedOut

\* Mutant: the attempt is not counted.
RetryUncounted(c) ==
  /\ Dispatch(c, call[c])
  /\ UNCHANGED <<account, cfg, sig, result, bounds, placed, masked>>

\* Another attempt of the same call, after the backoff.
Retry(c) ==
  /\ Dispatch(c, [call[c] EXCEPT !.attempt = @ + 1])
  /\ UNCHANGED <<account, cfg, sig, result, bounds, placed, masked>>

\* Mutant: one attempt too many.
AttemptEndsLate(c) ==
  /\ inbox[c] # NoAnswer
  /\ inbox' = [inbox EXCEPT ![c] = NoAnswer]
  /\ UNCHANGED doubtful
  /\ IF Retryable(inbox[c]) /\ call[c].attempt <= MaxRetries
     THEN Retry(c)
     ELSE Completed(c, inbox[c])

\* The loop of _request, once an attempt has ended.
AttemptEnds(c) ==
  /\ inbox[c] # NoAnswer
  /\ inbox' = [inbox EXCEPT ![c] = NoAnswer]
  /\ doubtful' = IF inbox[c].status \in 200..499 THEN doubtful
                 ELSE doubtful \cup ({call[c].sig} \ {NoSignal})
  /\ IF Retryable(inbox[c]) /\ call[c].attempt < MaxRetries
     THEN Retry(c)
     ELSE Completed(c, inbox[c])

\* The attempt ends without an answer; its request may be lost, or late (a
\* late positions request changes nothing, so it counts as lost).
GiveUp(c) ==
  /\ call[c] # Idle
  /\ inbox[c] = NoAnswer
  /\ Fault
  /\ inbox' \in {[inbox EXCEPT ![c] = a] : a \in {TimedOut, Disconnected}}
  /\ net' \in {net \ {Request(c, call[c])}}
              \cup {n \in {net} : call[c].path # "positions"}
  /\ UNCHANGED <<account, cfg, sig, result, call, placed, masked, doubtful>>

\* The panel's SQUARE OFF ALL button.  Its polls of the positions change
\* nothing and are left out.
PanelSquareOff ==
  /\ call[Panel] = Idle
  /\ Act
  /\ Dispatch(Panel, Call("square_off", NoSignal))
  /\ UNCHANGED <<account, cfg, sig, result, inbox, placed, masked, doubtful>>

-----------------------------------------------------------------------------
\* The worker serves request r.
Served(r) ==
  CASE r.path = "positions"  -> GetPositions
    [] r.path = "place"      -> PlaceOrder(sig[r.sig].sym,
                                           Signed(sig[r.sig].side, sig[r.sig].qty))
    [] r.path = "square_off" -> SquareOffAll

Serve(r) ==
  /\ r \in net
  /\ \E o \in Served(r) :
       /\ IF o.raised THEN Fault ELSE UNCHANGED bounds
       /\ pos' = o.pos /\ orders' = o.orders
       /\ placed' = IF r.path = "place"
                    THEN [placed EXCEPT ![r.sig] = @ + Len(o.orders) - Len(orders)]
                    ELSE placed
       /\ masked' = IF r.path = "place" /\ o.answer.status = 400 /\ o.orders # orders
                    THEN masked \cup {r.sig}
                    ELSE masked
       /\ inbox' = IF Request(r.client, call[r.client]) = r
                      /\ inbox[r.client] = NoAnswer
                   THEN [inbox EXCEPT ![r.client] = o.answer]
                   ELSE inbox
  /\ net' = net \ {r}
  /\ UNCHANGED <<cfg, sig, result, call, doubtful>>

Restart ==
  /\ Fault
  /\ WorkerRestart
  /\ UNCHANGED <<sig, result, call, inbox, net, placed, masked, doubtful>>

Fill(i) ==
  /\ ExchangeFills(i)
  /\ UNCHANGED <<sig, result, call, inbox, net, bounds, placed, masked, doubtful>>

\* The operator cancels order i through the worker's route.
CancelOrder(i) ==
  /\ Act
  /\ Cancel(i)
  /\ UNCHANGED <<sig, result, call, inbox, net, placed, masked, doubtful>>

-----------------------------------------------------------------------------
Next ==
  \/ \E g \in Signals : ExecuteSignal(g)
  \/ \E c \in Clients : AttemptEnds(c) \/ GiveUp(c)
  \/ PanelSquareOff
  \/ \E r \in net : Serve(r)
  \/ Restart
  \/ \E i \in DOMAIN orders : Fill(i) \/ CancelOrder(i)

Spec == Init /\ [][Next]_vars

\* The client runs and the worker serves what has reached it.  Nothing is
\* assumed of signals, of the panel, or of the exchange.
FairSpec ==
  /\ Spec
  /\ \A c \in Clients : WF_vars(AttemptEnds(c))
  /\ WF_vars(\E r \in net : r.client = Engine /\ Serve(r))

-----------------------------------------------------------------------------
Orders == [sym : Syms, qty : Int, status : OrderStatus, flatten : BOOLEAN]
SignalTypes == [sym : Syms, side : {"BUY", "SELL"}, qty : Quantities]
Calls == [path : Paths, sig : Signals \cup {NoSignal}, attempt : 1..MaxRetries]
Answers == [status : Nat, ok : BOOLEAN, count : Nat]

TypeOK ==
  /\ cfg \in Configs
  /\ pos \in [Syms -> Int]
  /\ orders \in Seq(Orders)
  /\ sig \in [Signals -> SignalTypes \cup {NoSignal}]
  /\ result \in [Signals -> {"new", "ok", "dry_run", "aborted"}]
  /\ call \in [Clients -> Calls \cup {Idle}]
  /\ inbox \in [Clients -> Answers \cup {NoAnswer}]
  /\ \A r \in net : r.client \in Clients /\ r.path \in Paths
  /\ faults \in 0..MaxFaults /\ acts \in 0..MaxActs
  /\ placed \in [Signals -> Nat]
  /\ masked \subseteq Signals /\ doubtful \subseteq Signals

Attempts(g) == IF call[Engine].path = "place" /\ call[Engine].sig = g
               THEN call[Engine].attempt
               ELSE IF g \in doubtful THEN MaxRetries ELSE 1
Late(g) == Cardinality({r \in net : r.path = "place" /\ r.sig = g})

\* However late its requests arrive, a signal is placed at most once per
\* attempt of the client, and only once when every attempt was answered.
PlacedPerAttempt == \A g \in Signals : placed[g] + Late(g) <= Attempts(g)

\* execute_signal answers ok only for an order the worker has booked, and
\* reports an order that was booked as aborted only after an attempt it got
\* no answer to, or when Dhan took the order and reported a failure, which
\* is answered 400 and never tried again; a dry run books nothing whatever
\* happens at the broker.
AnswerIsHonest ==
  \A g \in Signals :
    /\ result[g] = "ok" => placed[g] > 0
    /\ result[g] = "aborted" /\ g \notin doubtful \cup masked => placed[g] = 0
    /\ result[g] = "dry_run" => placed[g] = 0

\* The paper book never has more positions than the gate allows, but for one
\* per signal whose gate could not see (its positions call failed) or whose
\* order arrived unanswered.
PositionCap ==
  Paper => Cardinality(Open(pos)) <= MaxOpenPositions + Cardinality(doubtful)

\* f[1] + ... + f[n].
Total(f, n) ==
  LET sum[i \in Nat] == IF i = 0 THEN 0 ELSE sum[i - 1] + f[i]
  IN  sum[n]

\* What the orders of book numbered in chosen add to the position in s.
Net(book, s, chosen) ==
  Total([i \in DOMAIN book |-> IF i \in chosen /\ book[i].sym = s THEN book[i].qty ELSE 0],
        Len(book))

\* The paper positions are what the orders placed since the worker started
\* add up to, whatever was added to, reduced, flipped, squared off or
\* cancelled in between.
PaperBookAddsUp ==
  Paper => \A s \in Syms : pos[s] = Net(orders, s, DOMAIN orders)

\* Every position has an order out against the whole of it, sent in this
\* step, or is closed.
Covered ==
  LET sent == {i \in (DOMAIN orders') \ (DOMAIN orders) : orders'[i].status = "SUBMITTED"}
  IN  \A s \in Syms : pos'[s] + Net(orders', s, sent) = 0

\* A square-off that answers ok has covered every position: nothing is left
\* out and nothing is turned round at that moment.  Excepted is one whose
\* read of the positions failed at Dhan, which sees no position at all.
SquareOffCovers ==
  [][\A r \in net \ net', o \in SquareOffAll :
       r.path = "square_off" /\ o.answer.ok /\ ~o.raised
         /\ o.pos = pos' /\ o.orders = orders'
       => Covered]_vars

\* The worker promises of its route: "Emergency flatten - close all open
\* positions immediately".  When the panel is answered ok, every position is
\* covered.
OkMeansCovered ==
  [][inbox[Panel] = NoAnswer /\ inbox'[Panel] # NoAnswer /\ inbox'[Panel].ok
       => Covered]_vars

\* Every signal is answered in the end, whatever the link and the worker do:
\* the retries are bounded.
SignalAnswered == \A g \in Signals : sig[g] # NoSignal ~> result[g] # "new"

\* square_off_all promises to "Close all open positions immediately (paper or
\* live)": the order it sends against a position brings it nearer to zero,
\* and never opens one on the other side.
SquareOffOnlyCloses ==
  [][\A i \in DOMAIN orders :
       orders[i].flatten /\ i \in DOMAIN orders'
         /\ orders[i].status = "SUBMITTED" /\ orders'[i].status = "FILLED"
       => LET s == orders[i].sym
          IN pos'[s] = 0 \/ (pos[s] > 0) = (pos'[s] > 0)]_vars
=============================================================================
