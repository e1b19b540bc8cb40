------------------------------ MODULE RiskLock ------------------------------
(***************************************************************************)
(* The loss limit and the lock on new orders.  Three kinds of process      *)
(* share the Redis blob terminal:controls and nothing orders their         *)
(* accesses:                                                               *)
(*   - the circuit breaker (services/circuit_breaker.py), which polls the  *)
(*     day's P&L and on a breach cancels, flattens, and locks;             *)
(*   - console sessions (dashboard/Trade_Console.py and                    *)
(*     components/risk_controls.py), whose every render loads the blob,    *)
(*     patches it and stores it whole;                                     *)
(*   - the order guard (services/order_guard.py) on behalf of the tactical *)
(*     executor, which loads the blob and then calls the broker.           *)
(* A load and the store that follows it are separate steps of an actor,    *)
(* as are the broker calls between them.  A failed load answers Defaults   *)
(* and a failed store is dropped: both are swallowed by the code.          *)
(***************************************************************************)
EXTENDS TerminalControls, FiniteSets

CONSTANTS
  Sessions,         \* console sessions (browser tabs)
  Breaker,          \* the circuit-breaker process
  Orders,           \* orders the tactical executor may ask the guard for
  Broker,           \* "dhan" or "zerodha": where the account is
  MaxFaults,        \* bound: Redis accesses that may fail
  MaxBrokerFaults,  \* bound: broker calls of a trip that may fail
  MaxRestarts       \* bound: restarts of the breaker process

ASSUME RiskLockAssumption ==
  /\ Breaker \notin Sessions
  /\ Broker \in {"dhan", "zerodha"}
  /\ MaxFaults \in Nat /\ MaxBrokerFaults \in Nat /\ MaxRestarts \in Nat

Actors == Sessions \cup {Breaker}

VARIABLES
  controls,      \* Redis terminal:controls
  tripKey,       \* Redis risk:circuit_breaker:tripped exists
  day,           \* the IST trading day
  breached,      \* the broker reports total P&L at or below -MAX_DAILY_LOSS
  pc,            \* pc[a]: the step actor a takes next
  base,          \* base[a]: the blob a loaded and has not stored back yet
  eod,           \* eod[a]: the deadline computed when a's trigger began
  tripped,       \* CircuitBreaker._tripped, in the breaker's memory
  order,         \* order[o]: where order o stands
  sealed,        \* Dhan's own kill switch is on for the day
  faults, brokerFaults, restarts,   \* how much of each bound is used
  lockedOn,      \* history: the day of the last placement lock; NoDay when there
                 \* is none or the operator has re-enabled trading since
  lost,          \* history: a store was dropped, or overwrote a newer blob
  late,          \* history: orders accepted after the last trip's cancel step
  slipped        \* history: orders accepted while order_placement_locked

store  == <<controls, tripKey>>
actors == <<pc, base, eod, tripped>>
book   == <<order, sealed, late, slipped>>
bounds == <<faults, brokerFaults, restarts>>
vars   == <<store, day, breached, actors, book, bounds, lockedOn, lost>>

TriggerSteps == {"exit", "seal", "emg_load", "emg_save"}
BreakerSteps == {"idle", "cancel", "lock_load", "lock_save", "trip_key"}
                  \cup TriggerSteps
SessionSteps == {"idle", "sq_save", "halt_save", "panel"} \cup TriggerSteps

OrderStates == {"new", "checked", "resting", "open", "closed"}

\* The breaker has entered a trip and is past its cancel step, or is tripped.
PastCancel == pc[Breaker] \notin {"idle", "cancel"} \/ tripped \/ tripKey

-----------------------------------------------------------------------------
Init ==
  /\ controls = Defaults
  /\ tripKey = FALSE
  /\ day = 1
  /\ breached = FALSE
  /\ pc = [a \in Actors |-> "idle"]
  /\ base = [a \in Actors |-> Defaults]
  /\ eod = [a \in Actors |-> NoDay]
  /\ tripped = FALSE
  /\ order = [o \in Orders |-> "new"]
  /\ sealed = FALSE
  /\ faults = 0 /\ brokerFaults = 0 /\ restarts = 0
  /\ lockedOn = NoDay
  /\ lost = FALSE
  /\ late = {} /\ slipped = {}

-----------------------------------------------------------------------------
\* Redis as the code sees it.
RedisFails  == faults < MaxFaults /\ faults' = faults + 1
RedisWorks  == faults' = faults
BrokerFails == brokerFaults < MaxBrokerFaults /\ brokerFaults' = brokerFaults + 1

Goto(a, label) == pc' = [pc EXCEPT ![a] = label]

\* load_terminal_controls by actor a.
Load(a) ==
  \/ RedisWorks /\ base' = [base EXCEPT ![a] = controls]
  \/ RedisFails /\ base' = [base EXCEPT ![a] = Defaults]

\* save_terminal_controls by actor a of the blob c it made from base[a].
Save(a, c) ==
  /\ base' = [base EXCEPT ![a] = Defaults]
  /\ \/ RedisWorks /\ controls' = c /\ lost' = IF base[a] = controls THEN lost ELSE TRUE
     \/ RedisFails /\ lost' = TRUE /\ UNCHANGED controls

-----------------------------------------------------------------------------
\* trigger_emergency_square_off, called by the breaker and by a session's
\* EMERGENCY button: broker calls first, then a load, then a store.  The
\* publish on risk:broadcast has no subscriber and risk:emergency:last no
\* reader, so neither is a step.

\* _dhan_exit_all_and_kill_switch, first call: flatten everything open.
\* On Zerodha it is only announced.  A session may have the other broker
\* selected in its sidebar.
ExitAll(a) ==
  /\ pc[a] = "exit"
  /\ \/ /\ Broker = "dhan"
        /\ order' = [o \in Orders |-> IF order[o] = "open" THEN "closed"
                                                           ELSE order[o]]
        /\ UNCHANGED brokerFaults
     \/ Broker = "dhan" /\ BrokerFails /\ UNCHANGED order
     \/ (Broker = "zerodha" \/ a \in Sessions) /\ UNCHANGED <<order, brokerFaults>>
  /\ Goto(a, "seal")
  /\ UNCHANGED <<store, lockedOn, day, breached, base, eod, tripped, sealed,
                 late, slipped, faults, restarts, lost>>

\* ..., second call: the broker refuses new orders for the day.
SealBroker(a) ==
  /\ pc[a] = "seal"
  /\ \/ Broker = "dhan" /\ sealed' = TRUE /\ UNCHANGED brokerFaults
     \/ Broker = "dhan" /\ BrokerFails /\ UNCHANGED sealed
     \/ (Broker = "zerodha" \/ a \in Sessions) /\ UNCHANGED <<sealed, brokerFaults>>
  /\ Goto(a, "emg_load")
  /\ UNCHANGED <<store, lockedOn, day, breached, base, eod, tripped, order,
                 late, slipped, faults, restarts, lost>>

EmergencyLoad(a) ==
  /\ pc[a] = "emg_load"
  /\ Load(a)
  /\ Goto(a, "emg_save")
  /\ UNCHANGED <<store, lockedOn, day, breached, eod, tripped, book,
                 brokerFaults, restarts, lost>>

EmergencySave(a) ==
  /\ pc[a] = "emg_save"
  /\ Save(a, WithEmergency(base[a], eod[a]))
  /\ eod' = [eod EXCEPT ![a] = NoDay]
  /\ Goto(a, IF a = Breaker THEN "lock_load" ELSE "idle")
  /\ UNCHANGED <<tripKey, lockedOn, day, breached, tripped, book, brokerFaults,
                 restarts>>

-----------------------------------------------------------------------------
\* The breaker.

\* check_once decides to trip: the P&L fetch answered, the limit is reached
\* and _already_tripped() is false -- also when its Redis read failed.  A
\* failed fetch, or one inside the limit, changes nothing that is modelled.
PollAndTrip ==
  /\ pc[Breaker] = "idle"
  /\ breached
  /\ ~tripped
  /\ (~tripKey /\ RedisWorks) \/ (tripKey /\ RedisFails)
  /\ Goto(Breaker, "cancel")
  /\ UNCHANGED <<store, lockedOn, day, breached, base, eod, tripped, book,
                 brokerFaults, restarts, lost>>

\* Mutant: the loop over the pending orders ends after the first cancel.
CancelFirstPending ==
  /\ pc[Breaker] = "cancel"
  /\ \/ \E o \in Orders : order[o] = "resting" /\ order' = [order EXCEPT ![o] = "closed"]
     \/ (\A o \in Orders : order[o] # "resting") /\ UNCHANGED order
  /\ late' = {}
  /\ eod' = [eod EXCEPT ![Breaker] = day]
  /\ Goto(Breaker, "exit")
  /\ UNCHANGED <<store, lockedOn, day, breached, base, tripped, sealed,
                 slipped, bounds, lost>>

\* cancel_pending_orders: each cancel is tried on its own, so a failed one
\* leaves its order resting; then the trigger begins and fixes its deadline.
CancelPending ==
  /\ pc[Breaker] = "cancel"
  /\ \E kept \in SUBSET {o \in Orders : order[o] = "resting"} :
       /\ \/ kept = {} /\ UNCHANGED brokerFaults
          \/ kept # {} /\ BrokerFails
       /\ order' = [o \in Orders |->
                      IF order[o] = "resting" /\ o \notin kept THEN "closed"
                                                               ELSE order[o]]
  /\ late' = {}
  /\ eod' = [eod EXCEPT ![Breaker] = day]
  /\ Goto(Breaker, "exit")
  /\ UNCHANGED <<store, lockedOn, day, breached, base, tripped, sealed,
                 slipped, faults, restarts, lost>>

\* Mutant: the breaker remembers the trip before it has been made.
CancelRaisesTripped ==
  /\ pc[Breaker] = "cancel"
  /\ BrokerFails
  /\ tripped' = TRUE
  /\ Goto(Breaker, "idle")
  /\ UNCHANGED <<store, lockedOn, day, breached, base, eod, book, faults,
                 restarts, lost>>

\* ... or listing the orders raises: the loop logs it and the next poll
\* starts the trip over.
CancelRaises ==
  /\ pc[Breaker] = "cancel"
  /\ BrokerFails
  /\ Goto(Breaker, "idle")
  /\ UNCHANGED <<store, lockedOn, day, breached, base, eod, tripped, book,
                 faults, restarts, lost>>

\* lock_order_placement.
LockLoad ==
  /\ pc[Breaker] = "lock_load"
  /\ Load(Breaker)
  /\ Goto(Breaker, "lock_save")
  /\ UNCHANGED <<store, lockedOn, day, breached, eod, tripped, book,
                 brokerFaults, restarts, lost>>

LockSave ==
  /\ pc[Breaker] = "lock_save"
  /\ Save(Breaker, WithPlacementLock(base[Breaker]))
  /\ lockedOn' = day
  /\ Goto(Breaker, "trip_key")
  /\ UNCHANGED <<tripKey, day, breached, eod, tripped, book, brokerFaults,
                 restarts>>

\* The trip is recorded in Redis (a failure is swallowed) and in memory.
RecordTrip ==
  /\ pc[Breaker] = "trip_key"
  /\ \/ RedisWorks /\ tripKey' = TRUE
     \/ RedisFails /\ UNCHANGED tripKey
  /\ tripped' = TRUE
  /\ Goto(Breaker, "idle")
  /\ UNCHANGED <<controls, lockedOn, day, breached, base, eod, book,
                 brokerFaults, restarts, lost>>

\* PM2 restarts the process at any point: its memory is gone.
BreakerRestart ==
  /\ restarts < MaxRestarts
  /\ restarts' = restarts + 1
  /\ Goto(Breaker, "idle")
  /\ base' = [base EXCEPT ![Breaker] = Defaults]
  /\ eod' = [eod EXCEPT ![Breaker] = NoDay]
  /\ tripped' = FALSE
  /\ UNCHANGED <<store, lockedOn, day, breached, book, faults, brokerFaults,
                 lost>>

-----------------------------------------------------------------------------
\* A console session.  A render may be cut short at any widget call and the
\* fragment reruns the main panel alone, so its blocks come in any order.

\* _patch_controls with the Square Off / Clear Flag patch: load, then store.
SquareOffLoad(s) ==
  /\ pc[s] = "idle"
  /\ Load(s)
  /\ Goto(s, "sq_save")
  /\ UNCHANGED <<store, lockedOn, day, breached, eod, tripped, book,
                 brokerFaults, restarts, lost>>

SquareOffSave(s) ==
  /\ pc[s] = "sq_save"
  /\ \E request \in BOOLEAN : Save(s, WithSquareOff(base[s], request))
  /\ Goto(s, "idle")
  /\ UNCHANGED <<tripKey, lockedOn, day, breached, eod, tripped, book,
                 brokerFaults, restarts>>

\* _patch_controls at the end of _render_sidebar, on every full render.  The
\* stored value is whatever the toggle shows in this session: the operator
\* may have just flipped it, and a keyed widget may keep an older value.
HaltLoad(s) ==
  /\ pc[s] = "idle"
  /\ Load(s)
  /\ Goto(s, "halt_save")
  /\ UNCHANGED <<store, lockedOn, day, breached, eod, tripped, book,
                 brokerFaults, restarts, lost>>

HaltSave(s) ==
  /\ pc[s] = "halt_save"
  /\ \E armed \in BOOLEAN : Save(s, WithHaltToggle(base[s], armed))
  /\ Goto(s, "idle")
  /\ UNCHANGED <<tripKey, lockedOn, day, breached, eod, tripped, book,
                 brokerFaults, restarts>>

\* render_risk_controls loads the blob, then acts on the button pressed.
PanelLoad(s) ==
  /\ pc[s] = "idle"
  /\ Load(s)
  /\ Goto(s, "panel")
  /\ UNCHANGED <<store, lockedOn, day, breached, eod, tripped, book,
                 brokerFaults, restarts, lost>>

PanelIdle(s) ==
  /\ pc[s] = "panel"
  /\ base' = [base EXCEPT ![s] = Defaults]
  /\ Goto(s, "idle")
  /\ UNCHANGED <<store, lockedOn, day, breached, eod, tripped, book, bounds,
                 lost>>

\* "Re-enable trading for today" is offered while trading shows as disabled.
ReenableTrading(s) ==
  /\ pc[s] = "panel"
  /\ IsTradingDisabled(base[s], day)
  /\ Save(s, WithTradingReenabled(base[s]))
  /\ lockedOn' = NoDay
  /\ Goto(s, "idle")
  /\ UNCHANGED <<tripKey, day, breached, eod, tripped, book, brokerFaults,
                 restarts>>

\* Mutant: the deadline is the end of the next day.
EmergencyClickTomorrow(s) ==
  /\ pc[s] = "panel"
  /\ base' = [base EXCEPT ![s] = Defaults]
  /\ eod' = [eod EXCEPT ![s] = day + 1]
  /\ Goto(s, "exit")
  /\ UNCHANGED <<store, lockedOn, day, breached, tripped, book, bounds, lost>>

\* EMERGENCY SQUARE OFF ALL.
EmergencyClick(s) ==
  /\ pc[s] = "panel"
  /\ base' = [base EXCEPT ![s] = Defaults]
  /\ eod' = [eod EXCEPT ![s] = day]
  /\ Goto(s, "exit")
  /\ UNCHANGED <<store, lockedOn, day, breached, tripped, book, bounds, lost>>

-----------------------------------------------------------------------------
\* place_protected_limit_order, called by the single-threaded tactical loop.

\* Mutant: the order is placed without asking.
CheckPlacementSkipped(o) ==
  /\ order[o] = "new"
  /\ \A other \in Orders : order[other] # "checked"
  /\ order' = [order EXCEPT ![o] = "checked"]
  /\ UNCHANGED <<store, lockedOn, day, breached, actors, sealed, late, slipped,
                 bounds, lost>>

\* assert_order_placement_allowed returns; a failed read lets the order pass.
CheckPlacement(o) ==
  /\ order[o] = "new"
  /\ \A other \in Orders : order[other] # "checked"
  /\ \/ RedisWorks /\ ~PlacementBlocked(controls, day)
     \/ RedisFails /\ ~PlacementBlocked(Defaults, day)
  /\ order' = [order EXCEPT ![o] = "checked"]
  /\ UNCHANGED <<store, lockedOn, day, breached, actors, sealed, late, slipped,
                 brokerFaults, restarts, lost>>

\* The broker call: accepted, or refused (always so once Dhan is sealed).
PlaceOrder(o) ==
  /\ order[o] = "checked"
  /\ \/ /\ ~sealed
        /\ order' = [order EXCEPT ![o] = "resting"]
        /\ late' = IF PastCancel THEN late \cup {o} ELSE late
        /\ slipped' = IF controls.order_placement_locked THEN slipped \cup {o}
                                                         ELSE slipped
     \/ order' = [order EXCEPT ![o] = "closed"] /\ UNCHANGED <<late, slipped>>
  /\ UNCHANGED <<store, lockedOn, day, breached, actors, sealed, bounds, lost>>

FillOrder(o) ==
  /\ order[o] = "resting"
  /\ order' = [order EXCEPT ![o] = "open"]
  /\ UNCHANGED <<store, lockedOn, day, breached, actors, sealed, late, slipped,
                 bounds, lost>>

-----------------------------------------------------------------------------
\* The account and the calendar.
LossReachesLimit ==
  /\ ~breached
  /\ breached' = TRUE
  /\ UNCHANGED <<store, lockedOn, day, actors, book, bounds, lost>>

\* Only an open position can move the day's P&L back.
PnlRecovers ==
  /\ breached
  /\ \E o \in Orders : order[o] = "open"
  /\ breached' = FALSE
  /\ UNCHANGED <<store, lockedOn, day, actors, book, bounds, lost>>

\* Intraday orders and positions end with the day, Dhan's kill switch too;
\* nothing in Redis does.
NextDay ==
  /\ day < MaxDay
  /\ day' = day + 1
  /\ breached' = FALSE
  /\ sealed' = FALSE
  /\ order' = [o \in Orders |-> IF order[o] \in {"resting", "open"} THEN "closed"
                                                                   ELSE order[o]]
  /\ UNCHANGED <<store, lockedOn, actors, late, slipped, bounds, lost>>

-----------------------------------------------------------------------------
Trigger(a) == ExitAll(a) \/ SealBroker(a) \/ EmergencyLoad(a) \/ EmergencySave(a)

BreakerStep ==
  \/ PollAndTrip \/ CancelPending \/ CancelRaises
  \/ Trigger(Breaker)
  \/ LockLoad \/ LockSave \/ RecordTrip

SessionStep(s) ==
  \/ SquareOffLoad(s) \/ SquareOffSave(s)
  \/ HaltLoad(s) \/ HaltSave(s)
  \/ PanelLoad(s) \/ PanelIdle(s) \/ ReenableTrading(s) \/ EmergencyClick(s)
  \/ Trigger(s)

OrderStep(o) == CheckPlacement(o) \/ PlaceOrder(o) \/ FillOrder(o)

Next ==
  \/ BreakerStep \/ BreakerRestart
  \/ \E s \in Sessions : SessionStep(s)
  \/ \E o \in Orders : OrderStep(o)
  \/ LossReachesLimit \/ PnlRecovers \/ NextDay

Spec == Init /\ [][Next]_vars

\* The breaker's loop keeps running (PM2 restarts it) and a broker that
\* fails does not fail for ever: only the breaker is assumed to make progress.
FairSpec == Spec /\ WF_vars(BreakerStep)

-----------------------------------------------------------------------------
PcOK ==
  /\ pc \in [Actors -> BreakerSteps \cup SessionSteps]
  /\ pc[Breaker] \in BreakerSteps
  /\ \A s \in Sessions : pc[s] \in SessionSteps

\* Every variable stays in its type.
TypeOK ==
  /\ controls \in Controls
  /\ tripKey \in BOOLEAN
  /\ day \in Days
  /\ breached \in BOOLEAN
  /\ PcOK
  /\ base \in [Actors -> Controls]
  /\ eod \in [Actors -> Days \cup {NoDay}]
  /\ tripped \in BOOLEAN
  /\ order \in [Orders -> OrderStates]
  /\ sealed \in BOOLEAN
  /\ faults \in 0 .. MaxFaults
  /\ brokerFaults \in 0 .. MaxBrokerFaults
  /\ restarts \in 0 .. MaxRestarts
  /\ lockedOn \in Days \cup {NoDay}
  /\ lost \in BOOLEAN
  /\ late \in SUBSET Orders
  /\ slipped \in SUBSET Orders

\* The breaker has run lock_order_placement to its end in some trip.
LockWritten == tripped \/ tripKey \/ pc[Breaker] = "trip_key"

\* On the day the breaker locks placement it stays locked, whatever the HALT
\* toggles, square-off patches, a second emergency, a breaker restart and an
\* emergency that began before midnight do -- until the operator presses
\* "Re-enable trading for today", and unless a store was dropped or overwrote
\* a newer blob (services/circuit_breaker.py:238).  Nothing is claimed of
\* the next morning, nor of placement after the button.
LockHolds == lockedOn = day /\ ~lost => PlacementBlocked(controls, day)

\* The guard checks, then places: the lock can fall in between.  It does so
\* for at most one order, ever, and one more for each Redis read that failed
\* and let the guard pass (services/order_guard.py:174 and :219).
FewSlip == ~lost => Cardinality(slipped) <= 1 + faults

\* What a completed trip leaves working at Dhan was accepted after the trip
\* listed the pending orders: an order that rested before and fills while
\* the trip runs is either cancelled or flattened
\* (services/circuit_breaker.py:267-274).
ResidualIsLate ==
  LockWritten /\ Broker = "dhan" /\ brokerFaults = 0 /\ faults = 0 =>
    \A o \in Orders : order[o] \in {"resting", "open"} => o \in late

\* A breach the breaker finds, if it persists, ends with placement blocked, whatever the
\* console does meanwhile and however often the breaker is restarted or the
\* broker fails on the way (services/circuit_breaker.py:361).
BreachLeadsToLock ==
  (breached /\ pc[Breaker] = "idle" /\ ~tripped /\ ~tripKey)
    ~> (PlacementBlocked(controls, day) \/ ~breached)

\* A breach that persists ends with every position taken before the trip
\* flattened, unless a broker call failed (services/circuit_breaker.py:268).
BreachLeadsToFlat ==
  \A o \in Orders :
    (breached /\ order[o] = "open" /\ o \notin late)
      ~> (order[o] # "open" \/ ~breached \/ brokerFaults > 0)

\* A breach that persists ends as the trip means it to end: locked and flat
\* (services/circuit_breaker.py:251).
BreachEndsInTrip == BreachLeadsToLock /\ BreachLeadsToFlat

-----------------------------------------------------------------------------
\* The inductive strengthening of the three safety properties.

\* With no lost store the lock bit itself survives, not only its effect: the
\* flags beside it are cleared by the toggle and end with their deadline.
LockInv == lockedOn # NoDay /\ ~lost => controls.order_placement_locked

\* While locked, an order that is through the check is the one allowance left.
SlipInv ==
  /\ IsFiniteSet(slipped)
  /\ \A o1, o2 \in Orders :
       order[o1] = "checked" /\ order[o2] = "checked" => o1 = o2
  /\ ~lost =>
       /\ slipped # {} => controls.order_placement_locked
       /\ Cardinality(slipped) <= 1 + faults
       /\ controls.order_placement_locked /\ (\E o \in Orders : order[o] = "checked")
            => Cardinality(slipped) <= faults

\* The breaker has flattened in this trip, or is tripped.
PastExit == pc[Breaker] \notin {"idle", "cancel", "exit"} \/ tripped \/ tripKey

\* A trip starts untripped, and each of its first two steps leaves nothing
\* working but late orders.
TripFresh   == pc[Breaker] # "idle" => ~tripped /\ ~tripKey
RestingLate == \A o \in Orders : order[o] = "resting" => o \in late
OpenLate    == \A o \in Orders : order[o] = "open" => o \in late

ResidualInv ==
  faults = 0 /\ brokerFaults = 0 /\ Broker = "dhan" =>
    TripFresh /\ (PastCancel => RestingLate) /\ (PastExit => OpenLate)

IInv == TypeOK /\ LockInv /\ SlipInv /\ ResidualInv

-----------------------------------------------------------------------------
\* A statement of the repository that a run refutes; see README.

\* services/circuit_breaker.py:238: agents cannot place new orders for the day.
TripLocksForTheDay ==
  [][ LockWritten /\ day' = day /\ PlacementBlocked(controls, day)
        => PlacementBlocked(controls', day') ]_vars
=============================================================================
