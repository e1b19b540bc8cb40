--------------------------- MODULE RiskLock_proofs ---------------------------
(***************************************************************************)
(* Theorems about RiskLock for every set of sessions and orders, every     *)
(* number of days and every bound on faults and restarts.                  *)
(***************************************************************************)
EXTENDS RiskLock, FiniteSetTheorems, TLAPS

(***************************************************************************)
(* The updates of the blob keep its type.                                  *)
(***************************************************************************)
LEMMA UpdatesTyped ==
  ASSUME NEW c \in Controls
  PROVE  /\ \A e \in Days \cup {NoDay} : WithEmergency(c, e) \in Controls
         /\ WithPlacementLock(c) \in Controls
         /\ WithTradingReenabled(c) \in Controls
         /\ \A b \in BOOLEAN : WithHaltToggle(c, b) \in Controls
         /\ \A b \in BOOLEAN : WithSquareOff(c, b) \in Controls
  BY DEF Controls, WithEmergency, WithPlacementLock, WithTradingReenabled,
         WithHaltToggle, WithSquareOff

LEMMA DefaultsTyped == Defaults \in Controls
  BY DEF Controls, Defaults

(***************************************************************************)
(* No patch of anybody but a breaker lock touches order_placement_locked.  *)
(***************************************************************************)
LEMMA UpdatesKeepLock ==
  ASSUME NEW c \in Controls
  PROVE  /\ \A e : WithEmergency(c, e).order_placement_locked
                     = c.order_placement_locked
         /\ WithPlacementLock(c).order_placement_locked = TRUE
         /\ WithTradingReenabled(c).order_placement_locked
              = c.order_placement_locked
         /\ \A b : WithHaltToggle(c, b).order_placement_locked
                     = c.order_placement_locked
         /\ \A b : WithSquareOff(c, b).order_placement_locked
                     = c.order_placement_locked
  BY DEF Controls, WithEmergency, WithPlacementLock, WithTradingReenabled,
         WithHaltToggle, WithSquareOff

-----------------------------------------------------------------------------
(***************************************************************************)
(* Type correctness.                                                       *)
(***************************************************************************)
LEMMA ActorsContain == Breaker \in Actors /\ Sessions \subseteq Actors
  BY DEF Actors

\* Going to a step of the actor's own program keeps the counters typed.
LEMMA GotoTyped ==
  ASSUME PcOK, NEW a \in Actors, NEW label, Goto(a, label),
         a = Breaker => label \in BreakerSteps,
         a # Breaker => label \in SessionSteps
  PROVE  PcOK'
  BY RiskLockAssumption DEF PcOK, Goto, Actors

\* What a load and a save leave behind.
LEMMA LoadTyped ==
  ASSUME TypeOK, NEW a \in Actors, Load(a)
  PROVE  base' \in [Actors -> Controls] /\ faults' \in 0 .. MaxFaults
  BY RiskLockAssumption, DefaultsTyped DEF TypeOK, Load, RedisWorks, RedisFails

LEMMA SaveTyped ==
  ASSUME TypeOK, NEW a \in Actors, NEW c \in Controls, Save(a, c)
  PROVE  /\ controls' \in Controls
         /\ base' \in [Actors -> Controls]
         /\ faults' \in 0 .. MaxFaults
         /\ lost' \in BOOLEAN
<1>1. controls' \in Controls
  BY DEF TypeOK, Save
<1>2. base' \in [Actors -> Controls]
  BY DefaultsTyped DEF TypeOK, Save
<1>3. faults' \in 0 .. MaxFaults
  <2>1. RedisWorks \/ RedisFails
    BY DEF Save
  <2>2. QED
    BY <2>1, RiskLockAssumption DEF TypeOK, RedisWorks, RedisFails
<1>4. lost' \in BOOLEAN
  <2>1. CASE lost' = TRUE
    BY <2>1
  <2>2. CASE lost' = lost
    BY <2>2 DEF TypeOK
  <2>3. QED
    BY <2>1, <2>2 DEF Save
<1>5. QED
  BY <1>1, <1>2, <1>3, <1>4

LEMMA InitTypeOK == Init => TypeOK
<1> SUFFICES ASSUME Init
             PROVE  TypeOK
  OBVIOUS
<1>1. PcOK
  BY RiskLockAssumption
  DEF Init, PcOK, Actors, BreakerSteps, SessionSteps, TriggerSteps
<1>2. controls \in Controls /\ base \in [Actors -> Controls]
  BY DefaultsTyped DEF Init
<1>3. day \in Days /\ eod \in [Actors -> Days \cup {NoDay}]
  BY MaxDayAssumption DEF Init, Days
<1>4. /\ faults \in 0 .. MaxFaults
      /\ brokerFaults \in 0 .. MaxBrokerFaults
      /\ restarts \in 0 .. MaxRestarts
  BY RiskLockAssumption DEF Init
<1>5. order \in [Orders -> OrderStates] /\ late \in SUBSET Orders
        /\ slipped \in SUBSET Orders /\ lockedOn \in Days \cup {NoDay}
  BY DEF Init, OrderStates
<1>6. tripKey \in BOOLEAN /\ breached \in BOOLEAN /\ tripped \in BOOLEAN
        /\ sealed \in BOOLEAN /\ lost \in BOOLEAN
  BY DEF Init
<1>7. QED
  BY <1>1, <1>2, <1>3, <1>4, <1>5, <1>6 DEF TypeOK

LEMMA NextTypeOK == TypeOK /\ [Next]_vars => TypeOK'
<1> SUFFICES ASSUME TypeOK, [Next]_vars
             PROVE  TypeOK'
  OBVIOUS
<1> USE RiskLockAssumption, ActorsContain
<1>1. ASSUME NEW a \in Actors, ExitAll(a)
      PROVE  TypeOK'
  <2>1. PcOK'
    BY <1>1, GotoTyped
    DEF TypeOK, ExitAll, TriggerSteps, BreakerSteps, SessionSteps
  <2>2. order' \in [Orders -> OrderStates]
    BY <1>1 DEF TypeOK, ExitAll, OrderStates
  <2>3. brokerFaults' \in 0 .. MaxBrokerFaults
    BY <1>1 DEF TypeOK, ExitAll, BrokerFails
  <2>4. QED
    BY <1>1, <2>1, <2>2, <2>3 DEF TypeOK, ExitAll, store
<1>2. ASSUME NEW a \in Actors, SealBroker(a)
      PROVE  TypeOK'
  <2>1. PcOK'
    BY <1>2, GotoTyped
    DEF TypeOK, SealBroker, TriggerSteps, BreakerSteps, SessionSteps
  <2>2. sealed' \in BOOLEAN
    BY <1>2 DEF TypeOK, SealBroker
  <2>3. brokerFaults' \in 0 .. MaxBrokerFaults
    BY <1>2 DEF TypeOK, SealBroker, BrokerFails
  <2>4. QED
    BY <1>2, <2>1, <2>2, <2>3 DEF TypeOK, SealBroker, store
<1>3. ASSUME NEW a \in Actors, EmergencyLoad(a)
      PROVE  TypeOK'
  <2>1. PcOK'
    BY <1>3, GotoTyped
    DEF TypeOK, EmergencyLoad, TriggerSteps, BreakerSteps, SessionSteps
  <2>2. QED
    BY <1>3, <2>1, LoadTyped DEF TypeOK, EmergencyLoad, store, book
<1>4. ASSUME NEW a \in Actors, EmergencySave(a)
      PROVE  TypeOK'
  <2>1. PcOK'
    BY <1>4, GotoTyped
    DEF TypeOK, EmergencySave, BreakerSteps, SessionSteps
  <2>2. WithEmergency(base[a], eod[a]) \in Controls
    BY UpdatesTyped DEF TypeOK
  <2>3. eod' \in [Actors -> Days \cup {NoDay}]
    BY <1>4 DEF TypeOK, EmergencySave
  <2>4. QED
    BY <1>4, <2>1, <2>2, <2>3, SaveTyped DEF TypeOK, EmergencySave, book
<1>5. CASE PollAndTrip
  <2>1. PcOK'
    BY <1>5, GotoTyped DEF TypeOK, PollAndTrip, BreakerSteps
  <2>2. QED
    BY <1>5, <2>1 DEF TypeOK, PollAndTrip, RedisWorks, RedisFails, store, book
<1>6. CASE CancelPending
  <2>1. PcOK'
    BY <1>6, GotoTyped DEF TypeOK, CancelPending, TriggerSteps, BreakerSteps
  <2>2. order' \in [Orders -> OrderStates] /\ brokerFaults' \in 0 .. MaxBrokerFaults
    BY <1>6 DEF TypeOK, CancelPending, BrokerFails, OrderStates
  <2>3. eod' \in [Actors -> Days \cup {NoDay}]
    BY <1>6 DEF TypeOK, CancelPending
  <2>4. QED
    BY <1>6, <2>1, <2>2, <2>3 DEF TypeOK, CancelPending, store
<1>7. CASE CancelRaises
  <2>1. PcOK'
    BY <1>7, GotoTyped DEF TypeOK, CancelRaises, BreakerSteps
  <2>2. QED
    BY <1>7, <2>1 DEF TypeOK, CancelRaises, BrokerFails, store, book
<1>8. CASE LockLoad
  <2>1. PcOK'
    BY <1>8, GotoTyped DEF TypeOK, LockLoad, BreakerSteps
  <2>2. QED
    BY <1>8, <2>1, LoadTyped DEF TypeOK, LockLoad, store, book
<1>9. CASE LockSave
  <2>1. PcOK'
    BY <1>9, GotoTyped DEF TypeOK, LockSave, BreakerSteps
  <2>2. WithPlacementLock(base[Breaker]) \in Controls
    BY UpdatesTyped DEF TypeOK
  <2>3. lockedOn' \in Days \cup {NoDay}
    BY <1>9 DEF TypeOK, LockSave
  <2>4. QED
    BY <1>9, <2>1, <2>2, <2>3, SaveTyped DEF TypeOK, LockSave, book
<1>10. CASE RecordTrip
  <2>1. PcOK'
    BY <1>10, GotoTyped DEF TypeOK, RecordTrip, BreakerSteps
  <2>2. tripKey' \in BOOLEAN
    BY <1>10 DEF TypeOK, RecordTrip
  <2>3. tripped' \in BOOLEAN
    BY <1>10 DEF RecordTrip
  <2>4. faults' \in 0 .. MaxFaults
    BY <1>10 DEF TypeOK, RecordTrip, RedisWorks, RedisFails
  <2>5. QED
    BY <1>10, <2>1, <2>2, <2>3, <2>4 DEF TypeOK, RecordTrip, book
<1>11. CASE BreakerRestart
  <2>1. PcOK'
    BY <1>11, GotoTyped DEF TypeOK, BreakerRestart, BreakerSteps
  <2>2. base' \in [Actors -> Controls] /\ eod' \in [Actors -> Days \cup {NoDay}]
    BY <1>11, DefaultsTyped DEF TypeOK, BreakerRestart
  <2>3. tripped' \in BOOLEAN
    BY <1>11 DEF BreakerRestart
  <2>4. restarts' \in 0 .. MaxRestarts
    BY <1>11 DEF TypeOK, BreakerRestart
  <2>5. QED
    BY <1>11, <2>1, <2>2, <2>3, <2>4 DEF TypeOK, BreakerRestart, store, book
<1>12. ASSUME NEW s \in Sessions,
              SquareOffLoad(s) \/ HaltLoad(s) \/ PanelLoad(s)
       PROVE  TypeOK'
  <2>1. PcOK'
    BY <1>12, GotoTyped DEF TypeOK, SquareOffLoad, HaltLoad, PanelLoad, SessionSteps
  <2>2. QED
    BY <1>12, <2>1, LoadTyped
    DEF TypeOK, SquareOffLoad, HaltLoad, PanelLoad, store, book
<1>13. ASSUME NEW s \in Sessions,
              SquareOffSave(s) \/ HaltSave(s) \/ ReenableTrading(s)
       PROVE  TypeOK'
  <2>1. PcOK'
    BY <1>13, GotoTyped
    DEF TypeOK, SquareOffSave, HaltSave, ReenableTrading, SessionSteps
  <2>2. PICK c \in Controls : Save(s, c)
    BY <1>13, UpdatesTyped DEF TypeOK, SquareOffSave, HaltSave, ReenableTrading
  <2>3. UNCHANGED <<tripKey, day, breached, eod, tripped, book, brokerFaults,
                    restarts>>
    BY <1>13 DEF SquareOffSave, HaltSave, ReenableTrading
  <2>4. lockedOn' \in Days \cup {NoDay}
    BY <1>13 DEF TypeOK, SquareOffSave, HaltSave, ReenableTrading
  <2>5. QED
    BY <2>1, <2>2, <2>3, <2>4, SaveTyped DEF TypeOK, book
<1>14. ASSUME NEW s \in Sessions, PanelIdle(s) \/ EmergencyClick(s)
       PROVE  TypeOK'
  <2>1. PcOK'
    BY <1>14, GotoTyped
    DEF TypeOK, PanelIdle, EmergencyClick, TriggerSteps, SessionSteps
  <2>2. base' \in [Actors -> Controls] /\ eod' \in [Actors -> Days \cup {NoDay}]
    BY <1>14, DefaultsTyped DEF TypeOK, PanelIdle, EmergencyClick
  <2>3. QED
    BY <1>14, <2>1, <2>2 DEF TypeOK, PanelIdle, EmergencyClick, store, book, bounds
<1>15. ASSUME NEW o \in Orders, OrderStep(o)
       PROVE  TypeOK'
  BY <1>15 DEF TypeOK, PcOK, OrderStep, CheckPlacement, PlaceOrder, FillOrder,
               RedisWorks, RedisFails, store, actors, bounds, OrderStates
<1>16. CASE LossReachesLimit \/ PnlRecovers
  BY <1>16 DEF TypeOK, PcOK, LossReachesLimit, PnlRecovers, store, actors, book,
               bounds
<1>17. CASE NextDay
  <2>1. day' \in Days
    BY <1>17, MaxDayAssumption DEF NextDay, TypeOK, Days
  <2>2. QED
    BY <1>17, <2>1 DEF TypeOK, PcOK, NextDay, store, actors, bounds, OrderStates
<1>18. CASE UNCHANGED vars
  BY <1>18 DEF TypeOK, PcOK, vars, store, actors, book, bounds
<1>19. QED
  BY <1>1, <1>2, <1>3, <1>4, <1>5, <1>6, <1>7, <1>8, <1>9, <1>10, <1>11,
     <1>12, <1>13, <1>14, <1>15, <1>16, <1>17, <1>18
  DEF Next, BreakerStep, SessionStep, Trigger

\* Every behaviour of the specification is well typed.
THEOREM TypeCorrect == Spec => []TypeOK
  BY InitTypeOK, NextTypeOK, PTL DEF Spec

-----------------------------------------------------------------------------
(***************************************************************************)
(* The lock holds its day.  A store that loses nothing was made from the   *)
(* blob it replaces, and no update clears order_placement_locked.          *)
(***************************************************************************)
\* A store by anybody: the lock bit after it, when nothing is lost.
LEMMA SaveKeepsLock ==
  ASSUME NEW a \in Actors, NEW c, Save(a, c), ~lost',
         c.order_placement_locked = base[a].order_placement_locked
  PROVE  /\ ~lost
         /\ controls'.order_placement_locked = controls.order_placement_locked
<1>1. controls' = c /\ lost' = (IF base[a] = controls THEN lost ELSE TRUE)
  BY DEF Save
<1>2. base[a] = controls
  BY <1>1
<1>3. QED
  BY <1>1, <1>2

\* What every step but LockSave does to the lock bit and to the lost flag.
LEMMA StepKeepsLock ==
  ASSUME TypeOK, [Next]_vars, ~LockSave, ~lost'
  PROVE  /\ ~lost
         /\ controls'.order_placement_locked = controls.order_placement_locked
<1> USE ActorsContain
<1>1. ASSUME NEW a \in Actors, EmergencySave(a)
      PROVE  /\ ~lost
             /\ controls'.order_placement_locked = controls.order_placement_locked
  <2>1. WithEmergency(base[a], eod[a]).order_placement_locked
          = base[a].order_placement_locked
    BY UpdatesKeepLock DEF TypeOK
  <2>2. QED
    BY <1>1, <2>1, SaveKeepsLock DEF EmergencySave
<1>2. ASSUME NEW s \in Sessions,
             SquareOffSave(s) \/ HaltSave(s) \/ ReenableTrading(s)
      PROVE  /\ ~lost
             /\ controls'.order_placement_locked = controls.order_placement_locked
  <2>1. PICK c : /\ Save(s, c)
                 /\ c.order_placement_locked = base[s].order_placement_locked
    <3>1. base[s] \in Controls
      BY DEF TypeOK
    <3>2. CASE SquareOffSave(s)
      <4>1. PICK request \in BOOLEAN : Save(s, WithSquareOff(base[s], request))
        BY <3>2 DEF SquareOffSave
      <4>2. WithSquareOff(base[s], request).order_placement_locked
              = base[s].order_placement_locked
        BY <3>1, UpdatesKeepLock
      <4>3. QED
        BY <4>1, <4>2
    <3>3. CASE HaltSave(s)
      <4>1. PICK armed \in BOOLEAN : Save(s, WithHaltToggle(base[s], armed))
        BY <3>3 DEF HaltSave
      <4>2. WithHaltToggle(base[s], armed).order_placement_locked
              = base[s].order_placement_locked
        BY <3>1, UpdatesKeepLock
      <4>3. QED
        BY <4>1, <4>2
    <3>4. CASE ReenableTrading(s)
      BY <3>1, <3>4, UpdatesKeepLock DEF ReenableTrading
    <3>5. QED
      BY <1>2, <3>2, <3>3, <3>4
  <2>2. QED
    BY <2>1, SaveKeepsLock
<1>3. ASSUME UNCHANGED <<controls, lost>>
      PROVE  /\ ~lost
             /\ controls'.order_placement_locked = controls.order_placement_locked
  BY <1>3
<1>4. ASSUME NEW a \in Actors, ExitAll(a) \/ SealBroker(a) \/ EmergencyLoad(a)
      PROVE  UNCHANGED <<controls, lost>>
  BY <1>4 DEF ExitAll, SealBroker, EmergencyLoad, store
<1>5. ASSUME PollAndTrip \/ CancelPending \/ CancelRaises \/ LockLoad
               \/ RecordTrip \/ BreakerRestart
      PROVE  UNCHANGED <<controls, lost>>
  BY <1>5 DEF PollAndTrip, CancelPending, CancelRaises, LockLoad, RecordTrip,
              BreakerRestart, store
<1>6. ASSUME NEW s \in Sessions,
             SquareOffLoad(s) \/ HaltLoad(s) \/ PanelLoad(s) \/ PanelIdle(s)
               \/ EmergencyClick(s)
      PROVE  UNCHANGED <<controls, lost>>
  BY <1>6 DEF SquareOffLoad, HaltLoad, PanelLoad, PanelIdle, EmergencyClick, store
<1>7. ASSUME NEW o \in Orders, OrderStep(o)
      PROVE  UNCHANGED <<controls, lost>>
  BY <1>7 DEF OrderStep, CheckPlacement, PlaceOrder, FillOrder, store
<1>8. ASSUME LossReachesLimit \/ PnlRecovers \/ NextDay \/ UNCHANGED vars
      PROVE  UNCHANGED <<controls, lost>>
  BY <1>8 DEF LossReachesLimit, PnlRecovers, NextDay, vars, store
<1>9. QED
  BY <1>1, <1>2, <1>3, <1>4, <1>5, <1>6, <1>7, <1>8
  DEF Next, BreakerStep, SessionStep, Trigger

\* LockSave sets the bit, or loses its store and says so.
LEMMA LockSaveLocks ==
  ASSUME TypeOK, LockSave, ~lost'
  PROVE  ~lost /\ controls'.order_placement_locked = TRUE
<1>1. /\ controls' = WithPlacementLock(base[Breaker])
      /\ lost' = (IF base[Breaker] = controls THEN lost ELSE TRUE)
  BY DEF LockSave, Save
<1>2. base[Breaker] = controls
  BY <1>1
<1>3. QED
  BY <1>1, <1>2, UpdatesKeepLock DEF TypeOK

\* Only LockSave enters a day in lockedOn.
LEMMA LockedOnStays ==
  ASSUME [Next]_vars, ~LockSave, lockedOn' # NoDay
  PROVE  lockedOn' = lockedOn
<1>1. ASSUME NEW a \in Actors, Trigger(a)
      PROVE  lockedOn' = lockedOn
  BY <1>1 DEF Trigger, ExitAll, SealBroker, EmergencyLoad, EmergencySave
<1>2. CASE BreakerStep \/ BreakerRestart
  BY <1>1, <1>2, ActorsContain
  DEF BreakerStep, PollAndTrip, CancelPending, CancelRaises, LockLoad, RecordTrip,
      BreakerRestart
<1>3. ASSUME NEW s \in Sessions, SessionStep(s)
      PROVE  lockedOn' = lockedOn
  BY <1>1, <1>3, ActorsContain
  DEF SessionStep, SquareOffLoad, SquareOffSave, HaltLoad, HaltSave, PanelLoad,
      PanelIdle, ReenableTrading, EmergencyClick
<1>4. ASSUME NEW o \in Orders, OrderStep(o)
      PROVE  lockedOn' = lockedOn
  BY <1>4 DEF OrderStep, CheckPlacement, PlaceOrder, FillOrder
<1>5. CASE LossReachesLimit \/ PnlRecovers \/ NextDay \/ UNCHANGED vars
  BY <1>5 DEF LossReachesLimit, PnlRecovers, NextDay, vars
<1>6. QED
  BY <1>2, <1>3, <1>4, <1>5 DEF Next

LEMMA NextLockInv == TypeOK /\ LockInv /\ [Next]_vars => LockInv'
<1> SUFFICES ASSUME TypeOK, LockInv, [Next]_vars, lockedOn' # NoDay, ~lost'
             PROVE  controls'.order_placement_locked
  BY DEF LockInv
<1>1. CASE LockSave
  BY <1>1, LockSaveLocks
<1>2. CASE ~LockSave
  BY <1>2, LockedOnStays, StepKeepsLock DEF LockInv
<1>3. QED
  BY <1>1, <1>2

\* LockHolds for every number of sessions, orders, days, faults and restarts.
THEOREM LockHoldsAlways == Spec => []LockHolds
<1>1. Init => LockInv
  BY DEF Init, LockInv
<1>2. TypeOK /\ LockInv => LockHolds
  BY DEF TypeOK, LockInv, LockHolds, PlacementBlocked, Days, NoDay
<1>3. QED
  BY <1>1, <1>2, NextLockInv, TypeCorrect, PTL DEF Spec

-----------------------------------------------------------------------------
(***************************************************************************)
(* Few orders slip past the lock.                                          *)
(***************************************************************************)
\* A step that checks, accepts and unlocks nothing keeps SlipInv.
LEMMA SlipStable ==
  ASSUME TypeOK, SlipInv, slipped' = slipped,
         \A o \in Orders : order'[o] = "checked" => order[o] = "checked",
         faults' \in Nat, faults <= faults',
         ~lost' => ~lost,
         ~lost' => controls'.order_placement_locked = controls.order_placement_locked
  PROVE  SlipInv'
<1>1. Cardinality(slipped) \in Nat /\ faults \in Nat
  BY FS_CardinalityType, RiskLockAssumption DEF SlipInv, TypeOK
<1>2. QED
  BY <1>1 DEF SlipInv

\* Every step keeps the fault counter or raises it by one.
LEMMA FaultsGrow ==
  ASSUME TypeOK, [Next]_vars
  PROVE  faults' \in Nat /\ faults <= faults'
<1>1. faults \in Nat
  BY RiskLockAssumption DEF TypeOK
<1>2. ASSUME RedisWorks \/ RedisFails
      PROVE  faults' = faults \/ faults' = faults + 1
  BY <1>2 DEF RedisWorks, RedisFails
<1>3. ASSUME NEW a, Load(a)
      PROVE  RedisWorks \/ RedisFails
  BY <1>3 DEF Load
<1>4. ASSUME NEW a, NEW c, Save(a, c)
      PROVE  RedisWorks \/ RedisFails
  BY <1>4 DEF Save
<1>5. ASSUME NEW a \in Actors, Trigger(a)
      PROVE  faults' = faults \/ RedisWorks \/ RedisFails
  BY <1>3, <1>4, <1>5 DEF Trigger, ExitAll, SealBroker, EmergencyLoad, EmergencySave
<1>6. CASE BreakerStep
  BY <1>1, <1>2, <1>3, <1>4, <1>5, <1>6, ActorsContain
  DEF BreakerStep, PollAndTrip, CancelPending, CancelRaises, LockLoad, LockSave,
      RecordTrip
<1>7. ASSUME NEW s \in Sessions, SessionStep(s)
      PROVE  faults' = faults \/ RedisWorks \/ RedisFails
  BY <1>3, <1>4, <1>5, <1>7, ActorsContain
  DEF SessionStep, SquareOffLoad, SquareOffSave, HaltLoad, HaltSave, PanelLoad,
      PanelIdle, ReenableTrading, EmergencyClick, bounds
<1>8. ASSUME NEW o \in Orders, OrderStep(o)
      PROVE  faults' = faults \/ RedisWorks \/ RedisFails
  BY <1>8 DEF OrderStep, CheckPlacement, PlaceOrder, FillOrder, bounds
<1>9. CASE BreakerRestart \/ LossReachesLimit \/ PnlRecovers \/ NextDay
             \/ UNCHANGED vars
  BY <1>1, <1>9 DEF BreakerRestart, LossReachesLimit, PnlRecovers, NextDay, vars,
                    bounds
<1>10. QED
  BY <1>1, <1>2, <1>6, <1>7, <1>8, <1>9 DEF Next

LEMMA NextSlipInv == TypeOK /\ SlipInv /\ [Next]_vars => SlipInv'
<1> SUFFICES ASSUME TypeOK, SlipInv, [Next]_vars
             PROVE  SlipInv'
  OBVIOUS
<1>a. /\ Cardinality(slipped) \in Nat
      /\ faults \in Nat /\ faults' \in Nat /\ faults <= faults'
  BY FS_CardinalityType, FaultsGrow, RiskLockAssumption DEF SlipInv, TypeOK
<1>1. CASE LockSave
  <2>1. UNCHANGED <<order, slipped>>
    BY <1>1 DEF LockSave, book
  <2>2. ~lost' => ~lost
    BY <1>1, LockSaveLocks
  <2>3. ~lost /\ ~controls.order_placement_locked => Cardinality(slipped) = 0
    BY FS_EmptySet DEF SlipInv
  <2>4. ASSUME ~lost'
        PROVE  /\ controls'.order_placement_locked
               /\ Cardinality(slipped) <= 1 + faults
               /\ (\E o \in Orders : order[o] = "checked") => Cardinality(slipped) <= faults
    <3>1. controls'.order_placement_locked
      BY <1>1, <2>4, LockSaveLocks
    <3>2. ~lost
      BY <2>2, <2>4
    <3>3. CASE controls.order_placement_locked
      BY <3>1, <3>2, <3>3 DEF SlipInv
    <3>4. CASE ~controls.order_placement_locked
      <4>1. Cardinality(slipped) = 0
        BY <2>3, <3>2, <3>4
      <4>2. Cardinality(slipped) <= 1 + faults /\ Cardinality(slipped) <= faults
        BY <1>a, <4>1
      <4>3. QED
        BY <3>1, <4>2
    <3>5. QED
      BY <3>3, <3>4
  <2>5. ~lost' => /\ Cardinality(slipped') <= 1 + faults'
                  /\ (\E o \in Orders : order'[o] = "checked")
                       => Cardinality(slipped') <= faults'
    BY <1>a, <2>1, <2>4
  <2>6. QED
    BY <2>1, <2>4, <2>5 DEF SlipInv
<1>2. ASSUME ~LockSave, slipped' = slipped,
             \A o \in Orders : order'[o] = "checked" => order[o] = "checked"
      PROVE  SlipInv'
  BY <1>a, <1>2, StepKeepsLock, SlipStable
<1>3. ASSUME NEW o \in Orders, CheckPlacement(o), ~LockSave
      PROVE  SlipInv'
  <2>1. /\ slipped' = slipped /\ controls' = controls /\ lost' = lost
        /\ order' = [order EXCEPT ![o] = "checked"]
        /\ \A other \in Orders : order[other] # "checked"
    BY <1>3 DEF CheckPlacement, store
  <2>2. controls.order_placement_locked => faults' = faults + 1
    BY <1>3 DEF CheckPlacement, PlacementBlocked, RedisWorks, RedisFails
  <2>3. QED
    BY <1>a, <2>1, <2>2 DEF SlipInv, TypeOK
<1>4. ASSUME NEW o \in Orders, PlaceOrder(o), ~LockSave
      PROVE  SlipInv'
  <2>1. /\ order[o] = "checked"
        /\ \A other \in Orders : order'[other] # "checked"
        /\ controls' = controls /\ lost' = lost /\ faults' = faults
    BY <1>4 DEF PlaceOrder, store, bounds, SlipInv, TypeOK
  <2>2. CASE slipped' = slipped
    BY <1>a, <2>1, <2>2 DEF SlipInv
  <2>3. CASE slipped' = slipped \cup {o} /\ controls.order_placement_locked
    <3>1. /\ IsFiniteSet(slipped')
          /\ Cardinality(slipped') = Cardinality(slipped)
               \/ Cardinality(slipped') = Cardinality(slipped) + 1
      BY <2>3, FS_AddElement DEF SlipInv
    <3>2. QED
      BY <1>a, <2>1, <2>3, <3>1 DEF SlipInv
  <2>4. QED
    BY <1>4, <2>2, <2>3 DEF PlaceOrder
<1>5. ASSUME NEW o \in Orders, FillOrder(o)
      PROVE  slipped' = slipped
             /\ \A other \in Orders : order'[other] = "checked" => order[other] = "checked"
  BY <1>5 DEF FillOrder, TypeOK
<1>6. ASSUME NEW a \in Actors, Trigger(a)
      PROVE  slipped' = slipped
             /\ \A o \in Orders : order'[o] = "checked" => order[o] = "checked"
  BY <1>6 DEF Trigger, ExitAll, SealBroker, EmergencyLoad, EmergencySave, book
<1>7. CASE PollAndTrip \/ CancelPending \/ CancelRaises \/ LockLoad \/ RecordTrip
             \/ BreakerRestart
  <2>1. slipped' = slipped
        /\ \A o \in Orders : order'[o] = "checked" => order[o] = "checked"
    BY <1>7 DEF PollAndTrip, CancelPending, CancelRaises, LockLoad, RecordTrip,
                BreakerRestart, book
  <2>2. QED
    BY <1>1, <1>2, <2>1
<1>8. ASSUME NEW s \in Sessions, SessionStep(s), ~Trigger(s)
      PROVE  UNCHANGED <<order, slipped>>
  BY <1>8 DEF SessionStep, SquareOffLoad, SquareOffSave, HaltLoad, HaltSave,
              PanelLoad, PanelIdle, ReenableTrading, EmergencyClick, book
<1>9. CASE LossReachesLimit \/ PnlRecovers \/ NextDay \/ UNCHANGED vars
  <2>1. slipped' = slipped
        /\ \A o \in Orders : order'[o] = "checked" => order[o] = "checked"
    BY <1>9 DEF LossReachesLimit, PnlRecovers, NextDay, vars, book
  <2>2. QED
    BY <1>1, <1>2, <2>1
<1>10. QED
  BY <1>1, <1>2, <1>3, <1>4, <1>5, <1>6, <1>7, <1>8, <1>9, ActorsContain
  DEF Next, BreakerStep, OrderStep

\* FewSlip for every number of orders, sessions, faults and restarts.
THEOREM FewSlipAlways == Spec => []FewSlip
<1>1. Init => SlipInv
  BY FS_EmptySet DEF Init, SlipInv, Defaults
<1>2. SlipInv => FewSlip
  BY DEF SlipInv, FewSlip
<1>3. QED
  BY <1>1, <1>2, NextSlipInv, TypeCorrect, PTL DEF Spec

-----------------------------------------------------------------------------
(***************************************************************************)
(* What a trip leaves working is late.                                     *)
(***************************************************************************)
\* Broker failures are only ever counted up.
LEMMA BrokerFaultsGrow ==
  ASSUME TypeOK, [Next]_vars
  PROVE  brokerFaults \in Nat /\ brokerFaults <= brokerFaults'
<1>1. brokerFaults \in Nat
  BY RiskLockAssumption DEF TypeOK
<1>2. brokerFaults' = brokerFaults \/ brokerFaults' = brokerFaults + 1
  <2>1. ASSUME NEW a \in Actors, Trigger(a)
        PROVE  brokerFaults' = brokerFaults \/ brokerFaults' = brokerFaults + 1
    BY <2>1 DEF Trigger, ExitAll, SealBroker, EmergencyLoad, EmergencySave, BrokerFails
  <2>2. CASE BreakerStep
    BY <2>1, <2>2, ActorsContain
    DEF BreakerStep, PollAndTrip, CancelPending, CancelRaises, LockLoad, LockSave,
        RecordTrip, BrokerFails
  <2>3. ASSUME NEW s \in Sessions, SessionStep(s)
        PROVE  brokerFaults' = brokerFaults \/ brokerFaults' = brokerFaults + 1
    BY <2>1, <2>3, ActorsContain
    DEF SessionStep, SquareOffLoad, SquareOffSave, HaltLoad, HaltSave, PanelLoad,
        PanelIdle, ReenableTrading, EmergencyClick, bounds
  <2>4. ASSUME NEW o \in Orders, OrderStep(o)
        PROVE  brokerFaults' = brokerFaults
    BY <2>4 DEF OrderStep, CheckPlacement, PlaceOrder, FillOrder, bounds
  <2>5. CASE BreakerRestart \/ LossReachesLimit \/ PnlRecovers \/ NextDay
               \/ UNCHANGED vars
    BY <2>5 DEF BreakerRestart, LossReachesLimit, PnlRecovers, NextDay, vars, bounds
  <2>6. QED
    BY <2>2, <2>3, <2>4, <2>5 DEF Next
<1>3. QED
  BY <1>1, <1>2

\* The consequent of ResidualInv, and the ways a step can keep it.
Residual == TripFresh /\ (PastCancel => RestingLate) /\ (PastExit => OpenLate)

LEMMA ResidualStable ==
  ASSUME Residual,
         pc'[Breaker] = pc[Breaker], tripped' = tripped, tripKey' = tripKey,
         PastCancel /\ RestingLate => RestingLate',
         PastCancel /\ RestingLate /\ PastExit /\ OpenLate => OpenLate'
  PROVE  Residual'
<1>1. TripFresh'
  BY DEF Residual, TripFresh
<1>2. PastCancel' = PastCancel /\ PastExit' = PastExit
  BY DEF PastCancel, PastExit
<1>3. PastExit => PastCancel
  BY DEF PastExit, PastCancel
<1>4. QED
  BY <1>1, <1>2, <1>3 DEF Residual

\* A breaker step from a step past the exit call, to such a step.
LEMMA ResidualPastExit ==
  ASSUME Residual, pc[Breaker] \notin {"idle", "cancel", "exit"},
         UNCHANGED <<order, late>>, TripFresh'
  PROVE  Residual'
  BY DEF Residual, PastCancel, PastExit, RestingLate, OpenLate

LEMMA NextResidualInv == TypeOK /\ ResidualInv /\ [Next]_vars => ResidualInv'
<1> SUFFICES ASSUME TypeOK, ResidualInv, [Next]_vars,
                    faults' = 0, brokerFaults' = 0, Broker = "dhan"
             PROVE  Residual'
  BY DEF ResidualInv, Residual
<1> USE RiskLockAssumption, ActorsContain
<1>a. faults = 0 /\ brokerFaults = 0
  <2>1. faults \in Nat
    BY DEF TypeOK
  <2>2. QED
    BY <2>1, FaultsGrow, BrokerFaultsGrow
<1>b. Residual
  BY <1>a DEF ResidualInv, Residual
<1>c. ~RedisFails /\ ~BrokerFails
  BY <1>a DEF RedisFails, BrokerFails
<1>d. pc \in [Actors -> BreakerSteps \cup SessionSteps]
        /\ order \in [Orders -> OrderStates]
  BY DEF TypeOK, PcOK
<1>1. CASE ExitAll(Breaker)
  <2>1. /\ pc[Breaker] = "exit" /\ pc'[Breaker] = "seal"
        /\ order' = [o \in Orders |-> IF order[o] = "open" THEN "closed" ELSE order[o]]
        /\ UNCHANGED <<tripped, tripKey, late>>
    BY <1>1, <1>c, <1>d DEF ExitAll, Goto, store
  <2>2. TripFresh' /\ PastCancel
    BY <1>b, <2>1 DEF Residual, TripFresh, PastCancel
  <2>3. RestingLate' /\ OpenLate'
    BY <1>b, <2>1, <2>2 DEF Residual, RestingLate, OpenLate
  <2>4. QED
    BY <2>2, <2>3 DEF Residual
<1>2. CASE SealBroker(Breaker) \/ EmergencyLoad(Breaker) \/ EmergencySave(Breaker)
             \/ LockLoad \/ LockSave
  <2>1. pc[Breaker] \in {"seal", "emg_load", "emg_save", "lock_load", "lock_save"}
    BY <1>2 DEF SealBroker, EmergencyLoad, EmergencySave, LockLoad, LockSave
  <2>2. UNCHANGED <<order, late, tripped, tripKey>>
    BY <1>2 DEF SealBroker, EmergencyLoad, EmergencySave, LockLoad, LockSave, store,
                book
  <2>3. TripFresh'
    BY <1>b, <2>1, <2>2 DEF Residual, TripFresh
  <2>4. QED
    BY <1>b, <2>1, <2>2, <2>3, ResidualPastExit
<1>3. CASE RecordTrip
  <2>1. pc[Breaker] = "trip_key" /\ pc'[Breaker] = "idle" /\ UNCHANGED <<order, late>>
    BY <1>3, <1>d DEF RecordTrip, Goto, book
  <2>2. QED
    BY <1>b, <2>1, ResidualPastExit DEF TripFresh
<1>4. CASE PollAndTrip
  <2>1. /\ pc'[Breaker] = "cancel" /\ ~tripped /\ ~tripKey
        /\ UNCHANGED <<tripped, tripKey>>
    BY <1>4, <1>c, <1>d DEF PollAndTrip, Goto, store
  <2>2. QED
    BY <2>1 DEF Residual, TripFresh, PastCancel, PastExit
<1>5. CASE CancelPending
  <2>1. /\ pc[Breaker] = "cancel" /\ pc'[Breaker] = "exit"
        /\ UNCHANGED <<tripped, tripKey>>
    BY <1>5, <1>d DEF CancelPending, Goto, store
  <2>2. \A o \in Orders : order'[o] # "resting"
    <3>1. PICK kept \in SUBSET {o \in Orders : order[o] = "resting"} :
            /\ kept = {} \/ BrokerFails
            /\ order' = [o \in Orders |->
                           IF order[o] = "resting" /\ o \notin kept THEN "closed"
                                                                    ELSE order[o]]
      BY <1>5 DEF CancelPending
    <3>2. QED
      BY <3>1, <1>c
  <2>3. TripFresh' /\ ~PastExit'
    BY <1>b, <2>1 DEF Residual, TripFresh, PastExit
  <2>4. QED
    BY <2>2, <2>3 DEF Residual, RestingLate
<1>6. CASE CancelRaises
  BY <1>6, <1>c DEF CancelRaises
<1>7. CASE BreakerRestart
  <2>1. /\ pc'[Breaker] = "idle" /\ ~tripped'
        /\ UNCHANGED <<tripKey, order, late>>
    BY <1>7, <1>d DEF BreakerRestart, Goto, store, book
  <2>2. QED
    BY <1>b, <2>1
    DEF Residual, TripFresh, PastCancel, PastExit, RestingLate, OpenLate
<1>8. ASSUME NEW s \in Sessions, Trigger(s)
      PROVE  Residual'
  <2>1. pc'[Breaker] = pc[Breaker] /\ UNCHANGED <<tripped, tripKey, late>>
    BY <1>8, <1>d DEF Trigger, ExitAll, SealBroker, EmergencyLoad, EmergencySave,
                      Goto, store, book
  <2>2. \A o \in Orders : order'[o] = order[o] \/ order'[o] = "closed"
    BY <1>8, <1>d DEF Trigger, ExitAll, SealBroker, EmergencyLoad, EmergencySave, book
  <2>3. QED
    BY <1>b, <2>1, <2>2, ResidualStable DEF RestingLate, OpenLate
<1>9. ASSUME NEW s \in Sessions, SessionStep(s), ~Trigger(s)
      PROVE  Residual'
  <2>1. pc'[Breaker] = pc[Breaker] /\ UNCHANGED <<tripped, tripKey, late, order>>
    BY <1>9, <1>d
    DEF SessionStep, SquareOffLoad, SquareOffSave, HaltLoad, HaltSave, PanelLoad,
        PanelIdle, ReenableTrading, EmergencyClick, Goto, store, book
  <2>2. QED
    BY <1>b, <2>1, ResidualStable DEF RestingLate, OpenLate
<1>10. ASSUME NEW o \in Orders, CheckPlacement(o) \/ FillOrder(o)
       PROVE  Residual'
  <2>1. UNCHANGED <<pc, tripped, tripKey, late>>
    BY <1>10 DEF CheckPlacement, FillOrder, actors, store
  <2>2. \/ order' = [order EXCEPT ![o] = "checked"]
        \/ order[o] = "resting" /\ order' = [order EXCEPT ![o] = "open"]
    BY <1>10 DEF CheckPlacement, FillOrder
  <2>3. QED
    BY <1>b, <1>d, <2>1, <2>2, ResidualStable DEF RestingLate, OpenLate
<1>11. ASSUME NEW o \in Orders, PlaceOrder(o)
       PROVE  Residual'
  <2>1. UNCHANGED <<pc, tripped, tripKey>>
    BY <1>11 DEF PlaceOrder, actors, store
  <2>2. \/ order' = [order EXCEPT ![o] = "closed"] /\ late' = late
        \/ /\ order' = [order EXCEPT ![o] = "resting"]
           /\ late' = IF PastCancel THEN late \cup {o} ELSE late
    BY <1>11 DEF PlaceOrder
  <2>3. QED
    BY <1>b, <1>d, <2>1, <2>2, ResidualStable DEF RestingLate, OpenLate
<1>12. CASE LossReachesLimit \/ PnlRecovers \/ UNCHANGED vars
  <2>1. UNCHANGED <<pc, tripped, tripKey, late, order>>
    BY <1>12 DEF LossReachesLimit, PnlRecovers, vars, actors, store, book
  <2>2. QED
    BY <1>b, <2>1, ResidualStable DEF RestingLate, OpenLate
<1>13. CASE NextDay
  <2>1. UNCHANGED <<pc, tripped, tripKey, late>>
    BY <1>13 DEF NextDay, actors, store
  <2>2. \A o \in Orders : order'[o] \notin {"resting", "open"}
    BY <1>13, <1>d DEF NextDay
  <2>3. QED
    BY <1>b, <2>1, <2>2, ResidualStable DEF RestingLate, OpenLate
<1>14. QED
  BY <1>1, <1>2, <1>3, <1>4, <1>5, <1>6, <1>7, <1>8, <1>9, <1>10, <1>11, <1>12, <1>13
  DEF Next, BreakerStep, Trigger, OrderStep

\* ResidualIsLate for every number of orders, sessions and restarts.
THEOREM ResidualIsLateAlways == Spec => []ResidualIsLate
<1>1. Init => ResidualInv
  BY ActorsContain DEF Init, ResidualInv, TripFresh, PastCancel, PastExit
<1>2. ResidualInv => ResidualIsLate
  BY DEF ResidualInv, ResidualIsLate, LockWritten, PastCancel, PastExit, RestingLate,
         OpenLate
<1>3. QED
  BY <1>1, <1>2, NextResidualInv, TypeCorrect, PTL DEF Spec
=============================================================================
