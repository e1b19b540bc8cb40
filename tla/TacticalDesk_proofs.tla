------------------------- MODULE TacticalDesk_proofs -------------------------
(***************************************************************************)
(* Theorems about TacticalDesk for every set of BUY orders and securities  *)
(* and every bound.                                                        *)
(***************************************************************************)
EXTENDS TacticalDesk, FiniteSetTheorems, TLAPS

(***************************************************************************)
(* Booking a sleeve keeps a book a book.                                   *)
(***************************************************************************)
LEMMA WithSleeveTyped ==
  ASSUME NEW c, BookOK(c), plan \in [buys : SUBSET Buys, risk : Nat]
  PROVE  /\ BookOK(WithSleeve(c))
         /\ WithSleeve(c).sleeves = c.sleeves \cup plan.buys
         /\ WithSleeve(c).stopped = c.stopped
         /\ WithSleeve(c).deployed = c.deployed + plan.risk
  BY DEF WithSleeve, BookOK, Books

LEMMA NextTypeOK == TypeOK /\ [Next]_vars => TypeOK'
<1> SUFFICES ASSUME TypeOK, [Next]_vars
             PROVE  TypeOK'
  OBVIOUS
<1> USE TacticalDeskAssumption
<1>1. CASE StartTick
  <2>1. hunt' \in BOOLEAN /\ blocked' \in BOOLEAN /\ cooling' \in BOOLEAN
    BY <1>1 DEF StartTick, market, redis, TypeOK
  <2>2. /\ low' \subseteq Buys /\ floored' \subseteq Secs
        /\ sec' \in [Buys -> Secs] /\ hot' \subseteq Secs
    BY <1>1 DEF StartTick, market, redis, TypeOK
  <2>3. BookOK(book')
    BY <1>1 DEF StartTick, redis, TypeOK
  <2>4. BookOK(mem') /\ todo' \subseteq mem'.sleeves \ mem'.stopped
    <3>1. mem' = book \/ mem' = EmptyBook
      BY <1>1 DEF StartTick
    <3>2. BookOK(mem')
      BY <3>1 DEF TypeOK, BookOK, Books, EmptyBook
    <3>3. QED
      BY <1>1, <3>2 DEF StartTick
  <2>5. pc' \in Steps
    BY <1>1 DEF StartTick, Steps
  <2>6. held' \in BOOLEAN /\ dirty' \in BOOLEAN
    BY <1>1 DEF StartTick, TypeOK
  <2>7. plan' \in [buys : SUBSET Buys, risk : Nat]
    BY <1>1 DEF StartTick, TypeOK
  <2>8. /\ accepted' \subseteq Buys
        /\ sells' \in [Buys -> Nat] /\ spent' \in Nat /\ stray' \subseteq Buys
    BY <1>1 DEF StartTick, broker, TypeOK
  <2>9. faults' \in 0 .. MaxFaults /\ crashes' \in 0 .. MaxCrashes
    <3>1. Works \/ Fails
      BY <1>1 DEF StartTick
    <3>2. crashes' = crashes
      BY <1>1 DEF StartTick
    <3>3. QED
      BY <3>1, <3>2 DEF TypeOK, Works, Fails
  <2>10. QED
    BY <2>1, <2>2, <2>3, <2>4, <2>5, <2>6, <2>7, <2>8, <2>9 DEF TypeOK
<1>2. CASE SaveStops
  BY <1>2
  DEF SaveStops, Works, market, broker, TypeOK, BookOK, Books, Steps,
      EmptyBook
<1>3. ASSUME NEW b \in Buys, PassOver(b)
      PROVE  TypeOK'
  BY <1>3 DEF PassOver, Works, Fails, market, redis, broker, TypeOK
<1>4. ASSUME NEW b \in Buys, SellStop(b)
      PROVE  TypeOK'
  <2>1. hunt' \in BOOLEAN /\ blocked' \in BOOLEAN /\ cooling' \in BOOLEAN
    BY <1>4 DEF SellStop, TryStop, market, TypeOK
  <2>2. /\ low' \subseteq Buys /\ floored' \subseteq Secs
        /\ sec' \in [Buys -> Secs] /\ hot' \subseteq Secs
    BY <1>4 DEF SellStop, TryStop, market, TypeOK
  <2>3. BookOK(book')
    BY <1>4 DEF SellStop, TryStop, TypeOK
  <2>4. BookOK(mem') /\ todo' \subseteq mem'.sleeves \ mem'.stopped
    BY <1>4 DEF SellStop, TryStop, TypeOK, BookOK, Books
  <2>5. pc' \in Steps
    BY <1>4 DEF SellStop, TryStop, TypeOK
  <2>6. held' \in BOOLEAN /\ dirty' \in BOOLEAN
    BY <1>4 DEF SellStop, TryStop, TypeOK
  <2>7. plan' \in [buys : SUBSET Buys, risk : Nat]
    BY <1>4 DEF SellStop, TryStop, TypeOK
  <2>8. /\ accepted' \subseteq Buys
        /\ sells' \in [Buys -> Nat] /\ spent' \in Nat /\ stray' \subseteq Buys
    BY <1>4 DEF SellStop, TryStop, TypeOK
  <2>9. faults' \in 0 .. MaxFaults /\ crashes' \in 0 .. MaxCrashes
    BY <1>4 DEF SellStop, TryStop, Works, Fails, TypeOK
  <2>10. QED
    BY <2>1, <2>2, <2>3, <2>4, <2>5, <2>6, <2>7, <2>8, <2>9 DEF TypeOK
<1>5. ASSUME NEW b \in Buys, StopRefused(b)
      PROVE  TypeOK'
  <2>1. hunt' \in BOOLEAN /\ blocked' \in BOOLEAN /\ cooling' \in BOOLEAN
    BY <1>5 DEF StopRefused, TryStop, market, TypeOK
  <2>2. /\ low' \subseteq Buys /\ floored' \subseteq Secs
        /\ sec' \in [Buys -> Secs] /\ hot' \subseteq Secs
    BY <1>5 DEF StopRefused, TryStop, market, TypeOK
  <2>3. BookOK(book')
    BY <1>5 DEF StopRefused, TryStop, TypeOK
  <2>4. BookOK(mem') /\ todo' \subseteq mem'.sleeves \ mem'.stopped
    BY <1>5 DEF StopRefused, TryStop, TypeOK
  <2>5. pc' \in Steps
    BY <1>5 DEF StopRefused, TryStop, TypeOK
  <2>6. held' \in BOOLEAN /\ dirty' \in BOOLEAN
    BY <1>5 DEF StopRefused, TryStop, TypeOK
  <2>7. plan' \in [buys : SUBSET Buys, risk : Nat]
    BY <1>5 DEF StopRefused, TryStop, TypeOK
  <2>8. /\ accepted' \subseteq Buys
        /\ sells' \in [Buys -> Nat] /\ spent' \in Nat /\ stray' \subseteq Buys
    BY <1>5 DEF StopRefused, TryStop, TypeOK
  <2>9. faults' \in 0 .. MaxFaults /\ crashes' \in 0 .. MaxCrashes
    BY <1>5 DEF StopRefused, TryStop, Works, Fails, TypeOK
  <2>10. QED
    BY <2>1, <2>2, <2>3, <2>4, <2>5, <2>6, <2>7, <2>8, <2>9 DEF TypeOK
<1>6. ASSUME NEW b \in Buys, StopUnconfirmed(b)
      PROVE  TypeOK'
  <2>1. hunt' \in BOOLEAN /\ blocked' \in BOOLEAN /\ cooling' \in BOOLEAN
    BY <1>6 DEF StopUnconfirmed, TryStop, market, TypeOK
  <2>2. /\ low' \subseteq Buys /\ floored' \subseteq Secs
        /\ sec' \in [Buys -> Secs] /\ hot' \subseteq Secs
    BY <1>6 DEF StopUnconfirmed, TryStop, market, TypeOK
  <2>3. BookOK(book')
    BY <1>6 DEF StopUnconfirmed, TryStop, TypeOK
  <2>4. BookOK(mem') /\ todo' \subseteq mem'.sleeves \ mem'.stopped
    BY <1>6 DEF StopUnconfirmed, TryStop, TypeOK
  <2>5. pc' \in Steps
    BY <1>6 DEF StopUnconfirmed, TryStop, TypeOK
  <2>6. held' \in BOOLEAN /\ dirty' \in BOOLEAN
    BY <1>6 DEF StopUnconfirmed, TryStop, TypeOK
  <2>7. plan' \in [buys : SUBSET Buys, risk : Nat]
    BY <1>6 DEF StopUnconfirmed, TryStop, TypeOK
  <2>8. /\ accepted' \subseteq Buys
        /\ sells' \in [Buys -> Nat] /\ spent' \in Nat /\ stray' \subseteq Buys
    BY <1>6 DEF StopUnconfirmed, TryStop, TypeOK
  <2>9. faults' \in 0 .. MaxFaults /\ crashes' \in 0 .. MaxCrashes
    BY <1>6 DEF StopUnconfirmed, TryStop, Fails, TypeOK
  <2>10. QED
    BY <2>1, <2>2, <2>3, <2>4, <2>5, <2>6, <2>7, <2>8, <2>9 DEF TypeOK
<1>7. CASE NoEntry
  BY <1>7 DEF NoEntry, market, redis, broker, TypeOK, Steps
<1>8. ASSUME NEW b \in Buys, NEW r \in 1 .. SleeveRisk, PlanEntry(b, r)
      PROVE  TypeOK'
  BY <1>8 DEF PlanEntry, Works, Fails, market, redis, broker, TypeOK, Steps
<1>9. CASE PlaceBuy
  BY <1>9 DEF PlaceBuy, Works, Fails, BuyAccepted, market, redis, TypeOK, Steps
<1>10. CASE BuyRefused
  BY <1>10 DEF BuyRefused, Works, Fails, market, redis, broker, TypeOK, Steps
<1>11. CASE BuyUnconfirmed
  BY <1>11 DEF BuyUnconfirmed, Fails, BuyAccepted, market, redis, TypeOK, Steps
<1>12. CASE LockEntry
  BY <1>12 DEF LockEntry, Works, market, broker, TypeOK, Steps, NoPlan
<1>13. CASE BookSleeve
  <2>1. hunt' \in BOOLEAN /\ blocked' \in BOOLEAN /\ cooling' \in BOOLEAN
    BY <1>13 DEF BookSleeve, market, TypeOK
  <2>2. /\ low' \subseteq Buys /\ floored' \subseteq Secs
        /\ sec' \in [Buys -> Secs] /\ hot' \subseteq Secs
    BY <1>13 DEF BookSleeve, market, TypeOK
  <2>3. BookOK(book')
    <3>1. PICK c : BookOK(c) /\ book' = WithSleeve(c)
      BY <1>13 DEF BookSleeve, TypeOK, BookOK, Books, EmptyBook
    <3>2. QED
      BY <3>1, WithSleeveTyped DEF TypeOK
  <2>4. BookOK(mem') /\ todo' \subseteq mem'.sleeves \ mem'.stopped
    BY <1>13 DEF BookSleeve, Forget, BookOK, Books, EmptyBook
  <2>5. pc' \in Steps
    BY <1>13 DEF BookSleeve, Forget, Steps
  <2>6. held' \in BOOLEAN /\ dirty' \in BOOLEAN
    BY <1>13 DEF BookSleeve, Forget
  <2>7. plan' \in [buys : SUBSET Buys, risk : Nat]
    BY <1>13 DEF BookSleeve, Forget, NoPlan
  <2>8. /\ accepted' \subseteq Buys
        /\ sells' \in [Buys -> Nat] /\ spent' \in Nat /\ stray' \subseteq Buys
    BY <1>13 DEF BookSleeve, broker, TypeOK
  <2>9. faults' \in 0 .. MaxFaults /\ crashes' \in 0 .. MaxCrashes
    BY <1>13 DEF BookSleeve, Works, Fails, TypeOK
  <2>10. QED
    BY <2>1, <2>2, <2>3, <2>4, <2>5, <2>6, <2>7, <2>8, <2>9 DEF TypeOK
<1>14. CASE TickFails
  <2>1. hunt' \in BOOLEAN /\ blocked' \in BOOLEAN /\ cooling' \in BOOLEAN
    BY <1>14 DEF TickFails, market, redis, TypeOK
  <2>2. /\ low' \subseteq Buys /\ floored' \subseteq Secs
        /\ sec' \in [Buys -> Secs] /\ hot' \subseteq Secs
    BY <1>14 DEF TickFails, market, redis, TypeOK
  <2>3. BookOK(book')
    BY <1>14 DEF TickFails, redis, TypeOK
  <2>4. BookOK(mem') /\ todo' \subseteq mem'.sleeves \ mem'.stopped
    BY <1>14 DEF TickFails, Forget, BookOK, Books, EmptyBook
  <2>5. pc' \in Steps
    BY <1>14 DEF TickFails, Forget, Steps
  <2>6. held' \in BOOLEAN /\ dirty' \in BOOLEAN
    BY <1>14 DEF TickFails, Forget
  <2>7. plan' \in [buys : SUBSET Buys, risk : Nat]
    BY <1>14 DEF TickFails, Forget, NoPlan
  <2>8. /\ accepted' \subseteq Buys
        /\ sells' \in [Buys -> Nat] /\ spent' \in Nat /\ stray' \subseteq Buys
    BY <1>14 DEF TickFails, broker, TypeOK
  <2>9. faults' \in 0 .. MaxFaults /\ crashes' \in 0 .. MaxCrashes
    BY <1>14 DEF TickFails, Fails, TypeOK
  <2>10. QED
    BY <2>1, <2>2, <2>3, <2>4, <2>5, <2>6, <2>7, <2>8, <2>9 DEF TypeOK
<1>15. CASE Crash
  <2>1. hunt' \in BOOLEAN /\ blocked' \in BOOLEAN /\ cooling' \in BOOLEAN
    BY <1>15 DEF Crash, market, redis, TypeOK
  <2>2. /\ low' \subseteq Buys /\ floored' \subseteq Secs
        /\ sec' \in [Buys -> Secs] /\ hot' \subseteq Secs
    BY <1>15 DEF Crash, market, redis, TypeOK
  <2>3. BookOK(book')
    BY <1>15 DEF Crash, redis, TypeOK
  <2>4. BookOK(mem') /\ todo' \subseteq mem'.sleeves \ mem'.stopped
    BY <1>15 DEF Crash, Forget, BookOK, Books, EmptyBook
  <2>5. pc' \in Steps
    BY <1>15 DEF Crash, Forget, Steps
  <2>6. held' \in BOOLEAN /\ dirty' \in BOOLEAN
    BY <1>15 DEF Crash, Forget
  <2>7. plan' \in [buys : SUBSET Buys, risk : Nat]
    BY <1>15 DEF Crash, Forget, NoPlan
  <2>8. /\ accepted' \subseteq Buys
        /\ sells' \in [Buys -> Nat] /\ spent' \in Nat /\ stray' \subseteq Buys
    BY <1>15 DEF Crash, broker, TypeOK
  <2>9. faults' \in 0 .. MaxFaults /\ crashes' \in 0 .. MaxCrashes
    BY <1>15 DEF Crash, TypeOK
  <2>10. QED
    BY <2>1, <2>2, <2>3, <2>4, <2>5, <2>6, <2>7, <2>8, <2>9 DEF TypeOK
<1>16. CASE Publish
  BY <1>16 DEF Publish, redis, process, TypeOK
<1>17. CASE GuardChanges
  BY <1>17 DEF GuardChanges, redis, process, broker, TypeOK
<1>18. CASE EntryLockEnds
  BY <1>18 DEF EntryLockEnds, market, process, broker, TypeOK
<1>19. ASSUME NEW b \in Buys, PriceCrosses(b)
      PROVE  TypeOK'
  BY <1>19 DEF PriceCrosses, redis, process, broker, TypeOK
<1>20. ASSUME NEW s \in Secs, PriceFloors(s)
      PROVE  TypeOK'
  BY <1>20 DEF PriceFloors, redis, process, broker, TypeOK
<1>21. ASSUME NEW s \in Secs, CooldownEnds(s)
      PROVE  TypeOK'
  BY <1>21 DEF CooldownEnds, market, process, broker, TypeOK
<1>22. CASE UNCHANGED vars
  BY <1>22 DEF vars, market, redis, process, broker, TypeOK
<1>23. QED
  BY <1>1, <1>2, <1>3, <1>4, <1>5, <1>6, <1>7, <1>8, <1>9, <1>10, <1>11,
      <1>12, <1>13, <1>14, <1>15, <1>16, <1>17, <1>18, <1>19, <1>20, <1>21,
      <1>22
  DEF Next, ExecutorStep, StopStep, World

-----------------------------------------------------------------------------
(***************************************************************************)
(* The phases of a tick and the book in memory.                            *)
(***************************************************************************)
LEMMA NextPhaseInv == TypeOK /\ PhaseInv /\ [Next]_vars => PhaseInv'
<1> SUFFICES ASSUME TypeOK, PhaseInv, [Next]_vars
             PROVE  PhaseInv'
  OBVIOUS
<1>1. CASE StartTick
  BY <1>1 DEF StartTick, PhaseInv, Planning
<1>2. CASE SaveStops
  BY <1>2 DEF SaveStops, PhaseInv, Planning
<1>3. ASSUME NEW b \in Buys, PassOver(b)
      PROVE  PhaseInv'
  BY <1>3 DEF PassOver, PhaseInv
<1>4. ASSUME NEW b \in Buys, SellStop(b)
      PROVE  PhaseInv'
  BY <1>4 DEF SellStop, TryStop, PhaseInv
<1>5. ASSUME NEW b \in Buys, StopRefused(b)
      PROVE  PhaseInv'
  BY <1>5 DEF StopRefused, TryStop, PhaseInv
<1>6. ASSUME NEW b \in Buys, StopUnconfirmed(b)
      PROVE  PhaseInv'
  BY <1>6 DEF StopUnconfirmed, TryStop, PhaseInv
<1>7. CASE NoEntry
  BY <1>7 DEF NoEntry, PhaseInv, Planning
<1>8. ASSUME NEW b \in Buys, NEW r \in 1 .. SleeveRisk, PlanEntry(b, r)
      PROVE  PhaseInv'
  BY <1>8 DEF PlanEntry, PhaseInv, Planning
<1>9. CASE PlaceBuy
  BY <1>9 DEF PlaceBuy, PhaseInv, Planning
<1>10. CASE BuyRefused
  BY <1>10 DEF BuyRefused, PhaseInv, Planning
<1>11. CASE BuyUnconfirmed
  BY <1>11 DEF BuyUnconfirmed, PhaseInv, Planning
<1>12. CASE LockEntry
  BY <1>12 DEF LockEntry, PhaseInv, Planning
<1>13. CASE BookSleeve
  BY <1>13 DEF BookSleeve, Forget, PhaseInv, Planning
<1>14. CASE TickFails
  BY <1>14 DEF TickFails, Forget, PhaseInv, Planning
<1>15. CASE Crash
  BY <1>15 DEF Crash, Forget, PhaseInv, Planning
<1>16. CASE Publish
  BY <1>16 DEF Publish, process, PhaseInv
<1>17. CASE GuardChanges
  BY <1>17 DEF GuardChanges, process, PhaseInv
<1>18. CASE EntryLockEnds
  BY <1>18 DEF EntryLockEnds, process, PhaseInv
<1>19. ASSUME NEW b \in Buys, PriceCrosses(b)
      PROVE  PhaseInv'
  BY <1>19 DEF PriceCrosses, process, PhaseInv
<1>20. ASSUME NEW s \in Secs, PriceFloors(s)
      PROVE  PhaseInv'
  BY <1>20 DEF PriceFloors, redis, process, broker, PhaseInv
<1>21. ASSUME NEW s \in Secs, CooldownEnds(s)
      PROVE  PhaseInv'
  BY <1>21 DEF CooldownEnds, process, PhaseInv
<1>22. CASE UNCHANGED vars
  BY <1>22 DEF vars, process, PhaseInv
<1>23. QED
  BY <1>1, <1>2, <1>3, <1>4, <1>5, <1>6, <1>7, <1>8, <1>9, <1>10, <1>11,
      <1>12, <1>13, <1>14, <1>15, <1>16, <1>17, <1>18, <1>19, <1>20, <1>21,
      <1>22
  DEF Next, ExecutorStep, StopStep, World

LEMMA NextMemInv == TypeOK /\ PhaseInv /\ MemInv /\ [Next]_vars => MemInv'
<1> SUFFICES ASSUME TypeOK, PhaseInv, MemInv, [Next]_vars
             PROVE  MemInv'
  OBVIOUS
<1>1. CASE StartTick
  <2>1. mem' = book \/ mem' = EmptyBook
    BY <1>1 DEF StartTick
  <2>2. ~dirty' /\ book' = book /\ todo' = mem'.sleeves \ mem'.stopped
    BY <1>1 DEF StartTick, PhaseInv, redis
  <2>3. CASE mem' = book
    BY <2>2, <2>3 DEF MemInv
  <2>4. CASE mem' = EmptyBook
    BY <2>2, <2>4 DEF MemInv, EmptyBook
  <2>5. QED
    BY <2>1, <2>3, <2>4
<1>2. CASE SaveStops
  BY <1>2 DEF SaveStops, MemInv, EmptyBook
<1>3. ASSUME NEW b \in Buys, PassOver(b)
      PROVE  MemInv'
  BY <1>3 DEF PassOver, redis, MemInv
<1>4. ASSUME NEW b \in Buys, SellStop(b)
      PROVE  MemInv'
  BY <1>4 DEF SellStop, TryStop, MemInv
<1>5. ASSUME NEW b \in Buys, StopRefused(b)
      PROVE  MemInv'
  BY <1>5 DEF StopRefused, TryStop, MemInv
<1>6. ASSUME NEW b \in Buys, StopUnconfirmed(b)
      PROVE  MemInv'
  BY <1>6 DEF StopUnconfirmed, TryStop, MemInv
<1>7. CASE NoEntry
  BY <1>7 DEF NoEntry, redis, MemInv
<1>8. ASSUME NEW b \in Buys, NEW r \in 1 .. SleeveRisk, PlanEntry(b, r)
      PROVE  MemInv'
  BY <1>8 DEF PlanEntry, redis, MemInv
<1>9. CASE PlaceBuy
  BY <1>9 DEF PlaceBuy, redis, MemInv
<1>10. CASE BuyRefused
  BY <1>10 DEF BuyRefused, redis, MemInv
<1>11. CASE BuyUnconfirmed
  BY <1>11 DEF BuyUnconfirmed, redis, MemInv
<1>12. CASE LockEntry
  BY <1>12 DEF LockEntry, MemInv
<1>13. CASE BookSleeve
  BY <1>13 DEF BookSleeve, WithSleeve, Forget, PhaseInv, MemInv
<1>14. CASE TickFails
  BY <1>14 DEF TickFails, Forget, MemInv, EmptyBook
<1>15. CASE Crash
  BY <1>15 DEF Crash, Forget, MemInv, EmptyBook
<1>16. CASE Publish
  BY <1>16 DEF Publish, redis, process, MemInv
<1>17. CASE GuardChanges
  BY <1>17 DEF GuardChanges, redis, process, MemInv
<1>18. CASE EntryLockEnds
  BY <1>18 DEF EntryLockEnds, process, MemInv
<1>19. ASSUME NEW b \in Buys, PriceCrosses(b)
      PROVE  MemInv'
  BY <1>19 DEF PriceCrosses, redis, process, MemInv
<1>20. ASSUME NEW s \in Secs, PriceFloors(s)
      PROVE  MemInv'
  BY <1>20 DEF PriceFloors, redis, process, broker, MemInv
<1>21. ASSUME NEW s \in Secs, CooldownEnds(s)
      PROVE  MemInv'
  BY <1>21 DEF CooldownEnds, process, MemInv
<1>22. CASE UNCHANGED vars
  BY <1>22 DEF vars, redis, process, MemInv
<1>23. QED
  BY <1>1, <1>2, <1>3, <1>4, <1>5, <1>6, <1>7, <1>8, <1>9, <1>10, <1>11,
      <1>12, <1>13, <1>14, <1>15, <1>16, <1>17, <1>18, <1>19, <1>20, <1>21,
      <1>22
  DEF Next, ExecutorStep, StopStep, World

LEMMA NextOwnInv == TypeOK /\ PhaseInv /\ OwnInv /\ [Next]_vars => OwnInv'
<1> SUFFICES ASSUME TypeOK, PhaseInv, OwnInv, [Next]_vars
             PROVE  OwnInv'
  OBVIOUS
<1>1. CASE StartTick
  BY <1>1 DEF StartTick, redis, broker, PhaseInv, OwnInv
<1>2. CASE SaveStops
  BY <1>2 DEF SaveStops, broker, OwnInv, EmptyBook
<1>3. ASSUME NEW b \in Buys, PassOver(b)
      PROVE  OwnInv'
  BY <1>3 DEF PassOver, redis, broker, OwnInv
<1>4. ASSUME NEW b \in Buys, SellStop(b)
      PROVE  OwnInv'
  BY <1>4
  DEF SellStop, TryStop, TypeOK, PhaseInv, OwnInv, Planning, NoPlan
<1>5. ASSUME NEW b \in Buys, StopRefused(b)
      PROVE  OwnInv'
  BY <1>5 DEF StopRefused, TryStop, OwnInv
<1>6. ASSUME NEW b \in Buys, StopUnconfirmed(b)
      PROVE  OwnInv'
  BY <1>6
  DEF StopUnconfirmed, TryStop, TypeOK, PhaseInv, OwnInv, Planning,
      NoPlan
<1>7. CASE NoEntry
  BY <1>7 DEF NoEntry, redis, broker, OwnInv
<1>8. ASSUME NEW b \in Buys, NEW r \in 1 .. SleeveRisk, PlanEntry(b, r)
      PROVE  OwnInv'
  BY <1>8 DEF PlanEntry, redis, broker, OwnInv
<1>9. CASE PlaceBuy
  BY <1>9 DEF PlaceBuy, BuyAccepted, redis, TypeOK, OwnInv
<1>10. CASE BuyRefused
  BY <1>10 DEF BuyRefused, redis, broker, OwnInv
<1>11. CASE BuyUnconfirmed
  BY <1>11
  DEF BuyUnconfirmed, Fails, BuyAccepted, redis, TypeOK, OwnInv
<1>12. CASE LockEntry
  BY <1>12 DEF LockEntry, broker, OwnInv, NoPlan
<1>13. CASE BookSleeve
  BY <1>13
  DEF BookSleeve, WithSleeve, Forget, broker, PhaseInv, OwnInv,
      NoPlan
<1>14. CASE TickFails
  BY <1>14
  DEF TickFails, Forget, redis, broker, OwnInv, EmptyBook, NoPlan
<1>15. CASE Crash
  BY <1>15
  DEF Crash, Forget, redis, broker, OwnInv, EmptyBook, NoPlan
<1>16. CASE Publish
  BY <1>16 DEF Publish, redis, process, OwnInv
<1>17. CASE GuardChanges
  BY <1>17 DEF GuardChanges, redis, process, broker, OwnInv
<1>18. CASE EntryLockEnds
  BY <1>18 DEF EntryLockEnds, process, broker, OwnInv
<1>19. ASSUME NEW b \in Buys, PriceCrosses(b)
      PROVE  OwnInv'
  BY <1>19 DEF PriceCrosses, redis, process, broker, OwnInv
<1>20. ASSUME NEW s \in Secs, PriceFloors(s)
      PROVE  OwnInv'
  BY <1>20 DEF PriceFloors, redis, process, broker, OwnInv
<1>21. ASSUME NEW s \in Secs, CooldownEnds(s)
      PROVE  OwnInv'
  BY <1>21 DEF CooldownEnds, process, broker, OwnInv
<1>22. CASE UNCHANGED vars
  BY <1>22 DEF vars, redis, process, broker, OwnInv
<1>23. QED
  BY <1>1, <1>2, <1>3, <1>4, <1>5, <1>6, <1>7, <1>8, <1>9, <1>10, <1>11,
      <1>12, <1>13, <1>14, <1>15, <1>16, <1>17, <1>18, <1>19, <1>20, <1>21,
      <1>22
  DEF Next, ExecutorStep, StopStep, World

LEMMA NextStrayInv == TypeOK /\ PhaseInv /\ StrayInv /\ [Next]_vars => StrayInv'
<1> SUFFICES ASSUME TypeOK, PhaseInv, StrayInv, [Next]_vars
             PROVE  StrayInv'
  OBVIOUS
<1>1. CASE StartTick
  <2>1. stray' = stray /\ hunt' = hunt /\ pc' = "stops"
    BY <1>1 DEF StartTick, market, broker
  <2>2. held' = hunt \/ held' = FALSE
    BY <1>1 DEF StartTick
  <2>3. CASE held' = hunt
    BY <2>1, <2>3 DEF StrayInv
  <2>4. CASE held' = FALSE
    BY <2>1, <2>4 DEF StrayInv
  <2>5. QED
    BY <2>2, <2>3, <2>4
<1>2. CASE SaveStops
  BY <1>2 DEF SaveStops, market, broker, StrayInv
<1>3. ASSUME NEW b \in Buys, PassOver(b)
      PROVE  StrayInv'
  BY <1>3 DEF PassOver, market, broker, StrayInv
<1>4. ASSUME NEW b \in Buys, SellStop(b)
      PROVE  StrayInv'
  BY <1>4 DEF SellStop, TryStop, market, StrayInv
<1>5. ASSUME NEW b \in Buys, StopRefused(b)
      PROVE  StrayInv'
  BY <1>5 DEF StopRefused, TryStop, market, StrayInv
<1>6. ASSUME NEW b \in Buys, StopUnconfirmed(b)
      PROVE  StrayInv'
  BY <1>6 DEF StopUnconfirmed, TryStop, market, StrayInv
<1>7. CASE NoEntry
  BY <1>7 DEF NoEntry, broker, StrayInv
<1>8. ASSUME NEW b \in Buys, NEW r \in 1 .. SleeveRisk, PlanEntry(b, r)
      PROVE  StrayInv'
  BY <1>8 DEF PlanEntry, broker, StrayInv
<1>9. CASE PlaceBuy
  BY <1>9 DEF PlaceBuy, BuyAccepted, market, PhaseInv, StrayInv, Planning
<1>10. CASE BuyRefused
  BY <1>10 DEF BuyRefused, broker, StrayInv
<1>11. CASE BuyUnconfirmed
  BY <1>11
  DEF BuyUnconfirmed, BuyAccepted, market, PhaseInv, StrayInv, Planning
<1>12. CASE LockEntry
  BY <1>12 DEF LockEntry, market, broker, StrayInv
<1>13. CASE BookSleeve
  BY <1>13 DEF BookSleeve, Forget, market, broker, StrayInv
<1>14. CASE TickFails
  BY <1>14 DEF TickFails, Forget, market, broker, StrayInv
<1>15. CASE Crash
  BY <1>15 DEF Crash, Forget, market, broker, StrayInv
<1>16. CASE Publish
  BY <1>16 DEF Publish, StrayInv
<1>17. CASE GuardChanges
  BY <1>17 DEF GuardChanges, process, broker, StrayInv
<1>18. CASE EntryLockEnds
  BY <1>18 DEF EntryLockEnds, market, process, broker, StrayInv
<1>19. ASSUME NEW b \in Buys, PriceCrosses(b)
      PROVE  StrayInv'
  BY <1>19 DEF PriceCrosses, process, broker, StrayInv
<1>20. ASSUME NEW s \in Secs, PriceFloors(s)
      PROVE  StrayInv'
  BY <1>20 DEF PriceFloors, redis, process, broker, StrayInv
<1>21. ASSUME NEW s \in Secs, CooldownEnds(s)
      PROVE  StrayInv'
  BY <1>21 DEF CooldownEnds, market, process, broker, StrayInv
<1>22. CASE UNCHANGED vars
  BY <1>22 DEF vars, market, process, broker, StrayInv
<1>23. QED
  BY <1>1, <1>2, <1>3, <1>4, <1>5, <1>6, <1>7, <1>8, <1>9, <1>10, <1>11,
      <1>12, <1>13, <1>14, <1>15, <1>16, <1>17, <1>18, <1>19, <1>20, <1>21,
      <1>22
  DEF Next, ExecutorStep, StopStep, World

LEMMA NextSold ==
  TypeOK /\ PhaseInv /\ MemInv /\ OwnInv /\ SoldInv /\ SoldOnce /\ [Next]_vars
    => SoldInv' /\ SoldOnce'
<1> SUFFICES ASSUME TypeOK, PhaseInv, MemInv, OwnInv, SoldInv, SoldOnce, [Next]_vars
             PROVE  SoldInv' /\ SoldOnce'
  OBVIOUS
<1> USE TacticalDeskAssumption
<1>1. CASE StartTick
  <2>1. /\ mem' = book \/ mem' = EmptyBook
        /\ todo' = mem'.sleeves \ mem'.stopped
        /\ book' = book /\ sells' = sells /\ crashes' = crashes
    BY <1>1 DEF StartTick, redis, broker
  <2>2. /\ faults \in Nat /\ faults' \in Nat /\ crashes \in Nat
        /\ faults <= faults'
    <3>1. Works \/ Fails
      BY <1>1 DEF StartTick
    <3>2. QED
      BY <3>1 DEF TypeOK, Works, Fails
  <2>3. \A b \in book.sleeves \ book.stopped : sells[b] <= crashes + faults
    BY <1>1 DEF StartTick, PhaseInv, SoldInv, EmptyBook
  <2>4. \A b \in book.sleeves \ book.stopped : sells[b] <= crashes + faults'
    BY <2>2, <2>3 DEF TypeOK, BookOK, Books
  <2>5. todo' \subseteq book.sleeves \ book.stopped
    BY <2>1 DEF EmptyBook
  <2>6. SoldInv'
    BY <2>1, <2>4, <2>5 DEF SoldInv
  <2>7. SoldOnce'
    BY <2>1, <2>2 DEF SoldOnce, TypeOK
  <2>8. QED
    BY <2>6, <2>7
<1>2. CASE SaveStops
  BY <1>2 DEF SaveStops, Works, broker, MemInv, SoldInv, SoldOnce
<1>3. ASSUME NEW b \in Buys, PassOver(b)
      PROVE  SoldInv' /\ SoldOnce'
  BY <1>3
  DEF PassOver, Works, Fails, redis, broker, TypeOK, BookOK, Books, SoldInv,
      SoldOnce
<1>4. ASSUME NEW b \in Buys, SellStop(b)
      PROVE  SoldInv' /\ SoldOnce'
  BY <1>4
  DEF SellStop, TryStop, Works, Fails, TypeOK, BookOK, Books, SoldInv,
      SoldOnce
<1>5. ASSUME NEW b \in Buys, StopRefused(b)
      PROVE  SoldInv' /\ SoldOnce'
  BY <1>5
  DEF StopRefused, TryStop, Works, Fails, TypeOK, BookOK, Books, SoldInv,
      SoldOnce
<1>6. ASSUME NEW b \in Buys, StopUnconfirmed(b)
      PROVE  SoldInv' /\ SoldOnce'
  BY <1>6
  DEF StopUnconfirmed, TryStop, Fails, TypeOK, BookOK, Books, SoldInv,
      SoldOnce
<1>7. CASE NoEntry
  BY <1>7 DEF NoEntry, redis, broker, SoldInv, SoldOnce
<1>8. ASSUME NEW b \in Buys, NEW r \in 1 .. SleeveRisk, PlanEntry(b, r)
      PROVE  SoldInv' /\ SoldOnce'
  BY <1>8
  DEF PlanEntry, Works, Fails, redis, broker, TypeOK, BookOK, Books, SoldInv,
      SoldOnce
<1>9. CASE PlaceBuy
  BY <1>9
  DEF PlaceBuy, Works, Fails, redis, TypeOK, BookOK, Books, SoldInv, SoldOnce
<1>10. CASE BuyRefused
  BY <1>10
  DEF BuyRefused, Works, Fails, redis, broker, TypeOK, BookOK, Books, SoldInv,
      SoldOnce
<1>11. CASE BuyUnconfirmed
  BY <1>11
  DEF BuyUnconfirmed, Fails, redis, TypeOK, BookOK, Books, SoldInv, SoldOnce
<1>12. CASE LockEntry
  BY <1>12 DEF LockEntry, Works, broker, SoldInv, SoldOnce
<1>13. CASE BookSleeve
  BY <1>13
  DEF BookSleeve, Works, Fails, WithSleeve, Forget, broker, TypeOK, BookOK,
      Books, PhaseInv, OwnInv, SoldInv, SoldOnce
<1>14. CASE TickFails
  BY <1>14
  DEF TickFails, Fails, Forget, redis, broker, TypeOK, BookOK, Books, SoldInv,
      SoldOnce
<1>15. CASE Crash
  BY <1>15
  DEF Crash, Forget, redis, broker, TypeOK, BookOK, Books, SoldInv, SoldOnce
<1>16. CASE Publish
  BY <1>16 DEF Publish, redis, process, SoldInv, SoldOnce
<1>17. CASE GuardChanges
  BY <1>17 DEF GuardChanges, redis, process, broker, SoldInv, SoldOnce
<1>18. CASE EntryLockEnds
  BY <1>18 DEF EntryLockEnds, process, broker, SoldInv, SoldOnce
<1>19. ASSUME NEW b \in Buys, PriceCrosses(b)
      PROVE  SoldInv' /\ SoldOnce'
  BY <1>19 DEF PriceCrosses, redis, process, broker, SoldInv, SoldOnce
<1>20. ASSUME NEW s \in Secs, PriceFloors(s)
      PROVE  SoldInv' /\ SoldOnce'
  BY <1>20 DEF PriceFloors, redis, process, broker, SoldInv, SoldOnce
<1>21. ASSUME NEW s \in Secs, CooldownEnds(s)
      PROVE  SoldInv' /\ SoldOnce'
  BY <1>21 DEF CooldownEnds, process, broker, SoldInv, SoldOnce
<1>22. CASE UNCHANGED vars
  BY <1>22 DEF vars, redis, process, broker, SoldInv, SoldOnce
<1>23. QED
  BY <1>1, <1>2, <1>3, <1>4, <1>5, <1>6, <1>7, <1>8, <1>9, <1>10, <1>11,
      <1>12, <1>13, <1>14, <1>15, <1>16, <1>17, <1>18, <1>19, <1>20, <1>21,
      <1>22
  DEF Next, ExecutorStep, StopStep, World

-----------------------------------------------------------------------------
(***************************************************************************)
(* The two caps and the forgotten sleeves.                                 *)
(***************************************************************************)
LEMMA SubsetsFinite ==
  ASSUME NEW S \in SUBSET Buys
  PROVE  IsFiniteSet(S) /\ Cardinality(S) \in Nat
  BY TacticalDeskAssumption, FS_Subset, FS_CardinalityType

\* One more member is one more at most.
LEMMA OneMore ==
  ASSUME NEW S \in SUBSET Buys, NEW T \in SUBSET Buys, NEW b \in Buys,
         T \subseteq S \cup {b}
  PROVE  Cardinality(T) <= Cardinality(S) + 1
<1>1. IsFiniteSet(S) /\ Cardinality(S) \in Nat
  BY SubsetsFinite
<1>2. IsFiniteSet(S \cup {b}) /\ Cardinality(S \cup {b}) <= Cardinality(S) + 1
  BY <1>1, FS_AddElement
<1>3. Cardinality(T) <= Cardinality(S \cup {b})
  BY <1>2, FS_Subset
<1>4. Cardinality(T) \in Nat /\ Cardinality(S \cup {b}) \in Nat
  BY SubsetsFinite
<1>5. QED
  BY <1>1, <1>2, <1>3, <1>4

LEMMA Smaller ==
  ASSUME NEW S \in SUBSET Buys, NEW T \in SUBSET S
  PROVE  Cardinality(T) <= Cardinality(S)
  BY SubsetsFinite, FS_Subset

LEMMA FewerForgotten ==
  ASSUME TypeOK, NoSleeveForgotten, crashes' = crashes, faults' = 0 => faults = 0,
         faults' = 0 => Forgotten' \subseteq Forgotten
  PROVE  NoSleeveForgotten'
<1>1. SUFFICES ASSUME faults' = 0
               PROVE  Cardinality(Forgotten') <= crashes'
  BY DEF NoSleeveForgotten
<1>2. Forgotten \in SUBSET Buys /\ Forgotten' \in SUBSET Buys
  BY <1>1 DEF Forgotten, TypeOK
<1>3. Cardinality(Forgotten) <= crashes
  BY <1>1 DEF NoSleeveForgotten
<1>4. Cardinality(Forgotten') <= Cardinality(Forgotten)
  BY <1>1, <1>2, Smaller
<1>5. /\ Cardinality(Forgotten) \in Nat /\ Cardinality(Forgotten') \in Nat
      /\ crashes \in Nat
  BY <1>2, SubsetsFinite DEF TypeOK
<1>6. QED
  BY <1>3, <1>4, <1>5

LEMMA FaultsGrow ==
  ASSUME TypeOK, Works \/ Fails, faults' = 0
  PROVE  faults = 0 /\ faults' = faults /\ Works
  BY DEF TypeOK, Works, Fails

LEMMA DropPlan ==
  ASSUME TypeOK, CapInv, faults = 0
  PROVE  Cardinality(book.sleeves \cup {}) <= MaxSleeves
<1>1. book.sleeves \cup plan.buys \in SUBSET Buys
  BY DEF TypeOK, BookOK, Books
<1>2. Cardinality(book.sleeves \cup {}) <= Cardinality(book.sleeves \cup plan.buys)
  BY <1>1, Smaller
<1>3. /\ Cardinality(book.sleeves \cup {}) \in Nat
      /\ Cardinality(book.sleeves \cup plan.buys) \in Nat
  BY <1>1, SubsetsFinite
<1>4. QED
  BY <1>2, <1>3, TacticalDeskAssumption DEF CapInv

LEMMA NextCapInv == TypeOK /\ PhaseInv /\ MemInv /\ CapInv /\ [Next]_vars => CapInv'
<1> SUFFICES ASSUME TypeOK, PhaseInv, MemInv, CapInv, [Next]_vars
             PROVE  CapInv'
  OBVIOUS
<1> USE TacticalDeskAssumption
<1>1. CASE StartTick
  <2>1. /\ book' = book /\ plan' = plan /\ spent' = spent /\ crashes' = crashes
        /\ pc = "idle" /\ pc' = "stops" /\ (Works \/ Fails)
    BY <1>1 DEF StartTick, redis, broker
  <2>2. faults' = 0 => faults = 0
    BY <2>1, FaultsGrow
  <2>3. QED
    BY <2>1, <2>2 DEF CapInv
<1>2. CASE SaveStops
  BY <1>2 DEF SaveStops, Works, broker, MemInv, CapInv
<1>3. ASSUME NEW b \in Buys, PassOver(b)
      PROVE  CapInv'
  BY <1>3 DEF PassOver, Works, Fails, redis, broker, TypeOK, CapInv
<1>4. ASSUME NEW b \in Buys, SellStop(b)
      PROVE  CapInv'
  BY <1>4 DEF SellStop, TryStop, Works, Fails, TypeOK, CapInv
<1>5. ASSUME NEW b \in Buys, StopRefused(b)
      PROVE  CapInv'
  BY <1>5 DEF StopRefused, TryStop, Works, Fails, TypeOK, CapInv
<1>6. ASSUME NEW b \in Buys, StopUnconfirmed(b)
      PROVE  CapInv'
  BY <1>6 DEF StopUnconfirmed, Fails, TypeOK, CapInv
<1>7. CASE NoEntry
  BY <1>7 DEF NoEntry, redis, broker, CapInv
<1>8. ASSUME NEW b \in Buys, NEW r \in 1 .. SleeveRisk, PlanEntry(b, r)
      PROVE  CapInv'
  <2>1. CASE Fails
    BY <2>1 DEF Fails, CapInv, TypeOK
  <2>2. CASE Works /\ CanHunt(book) /\ FitsBudget(book, r)
    <3>1. plan' = [buys |-> {b}, risk |-> r] /\ book' = book /\ spent' = spent
            /\ pc = "entry" /\ pc' = "place" /\ crashes' = crashes
            /\ faults' = faults
      BY <1>8, <2>2 DEF PlanEntry, Works, redis, broker
    <3>2. Cardinality(book.sleeves \cup {b}) <= Cardinality(book.sleeves) + 1
      BY OneMore DEF TypeOK, BookOK, Books
    <3>3. /\ Cardinality(book.sleeves) \in Nat
          /\ Cardinality(book.sleeves \cup {b}) \in Nat
      BY SubsetsFinite DEF TypeOK, BookOK, Books
    <3>4. Cardinality(book.sleeves \cup {b}) <= MaxSleeves
      BY <2>2, <3>2, <3>3 DEF CanHunt
    <3>5. QED
      BY <2>2, <3>1, <3>4 DEF FitsBudget, CapInv, TypeOK, BookOK, Books
  <2>3. QED
    BY <1>8, <2>1, <2>2 DEF PlanEntry
<1>9. CASE PlaceBuy
  BY <1>9
  DEF PlaceBuy, Works, Fails, BuyAccepted, redis, TypeOK, BookOK, Books,
      CapInv
<1>10. CASE BuyRefused
  BY <1>10 DEF BuyRefused, Works, Fails, redis, broker, TypeOK, CapInv
<1>11. CASE BuyUnconfirmed
  BY <1>11 DEF BuyUnconfirmed, Fails, TypeOK, CapInv
<1>12. CASE LockEntry
  <2>1. /\ book' = book /\ spent' = spent /\ crashes' = crashes /\ faults' = faults
        /\ pc \in {"lock", "refused"}
        /\ IF pc = "lock" THEN pc' = "book" /\ plan' = plan
                          ELSE pc' = "idle" /\ plan' = NoPlan
    BY <1>12 DEF LockEntry, Works, market, broker
  <2>2. CASE pc = "lock"
    BY <2>1, <2>2 DEF CapInv
  <2>3. CASE pc = "refused"
    <3>1. ASSUME faults = 0
          PROVE  Cardinality(book.sleeves \cup {}) <= MaxSleeves
      BY <3>1, DropPlan
    <3>2. pc' = "idle" /\ plan'.buys = {} /\ plan'.risk = 0
      BY <2>1, <2>3 DEF NoPlan
    <3>3. faults = 0 => book.deployed + 0 <= RiskCap
      BY DEF CapInv, TypeOK, BookOK, Books
    <3>4. QED
      BY <2>1, <2>3, <3>1, <3>2, <3>3 DEF CapInv, TypeOK, BookOK, Books
  <2>4. QED
    BY <2>1, <2>2, <2>3
<1>13. CASE BookSleeve
  <2>1. CASE Fails
    BY <2>1 DEF Fails, CapInv, TypeOK
  <2>2. CASE Works /\ book' = WithSleeve(book)
    <3>1. /\ pc = "book" /\ pc' = "idle" /\ plan'.buys = {} /\ plan'.risk = 0
          /\ spent' = spent /\ crashes' = crashes /\ faults' = faults
      BY <1>13, <2>2 DEF BookSleeve, Forget, NoPlan, Works, broker
    <3>2. /\ book'.sleeves \cup {} = book.sleeves \cup plan.buys
          /\ book'.deployed + 0 = book.deployed + plan.risk
      BY <2>2 DEF WithSleeve, TypeOK, BookOK, Books
    <3>3. QED
      BY <3>1, <3>2 DEF CapInv
  <2>3. QED
    BY <1>13, <2>1, <2>2 DEF BookSleeve
<1>14. CASE TickFails
  BY <1>14 DEF TickFails, Fails, TypeOK, CapInv
<1>15. CASE Crash
  <2>1. /\ book' = book /\ faults' = faults /\ crashes' # 0
        /\ plan'.buys = {} /\ plan'.risk = 0
    BY <1>15 DEF Crash, Forget, NoPlan, redis, TypeOK
  <2>2. ASSUME faults = 0
        PROVE  Cardinality(book.sleeves \cup {}) <= MaxSleeves
    BY <2>2, DropPlan
  <2>3. faults = 0 => book.deployed + 0 <= RiskCap
    BY DEF CapInv, TypeOK, BookOK, Books
  <2>4. QED
    BY <2>1, <2>2, <2>3 DEF CapInv
<1>16. CASE Publish
  BY <1>16 DEF Publish, redis, process, CapInv
<1>17. CASE GuardChanges
  BY <1>17 DEF GuardChanges, redis, process, broker, CapInv
<1>18. CASE EntryLockEnds
  BY <1>18 DEF EntryLockEnds, process, broker, CapInv
<1>19. ASSUME NEW b \in Buys, PriceCrosses(b)
      PROVE  CapInv'
  BY <1>19 DEF PriceCrosses, redis, process, broker, CapInv
<1>20. ASSUME NEW s \in Secs, PriceFloors(s)
      PROVE  CapInv'
  BY <1>20 DEF PriceFloors, redis, process, broker, CapInv
<1>21. ASSUME NEW s \in Secs, CooldownEnds(s)
      PROVE  CapInv'
  BY <1>21 DEF CooldownEnds, process, broker, CapInv
<1>22. CASE UNCHANGED vars
  BY <1>22 DEF vars, redis, process, broker, CapInv
<1>23. QED
  BY <1>1, <1>2, <1>3, <1>4, <1>5, <1>6, <1>7, <1>8, <1>9, <1>10, <1>11,
      <1>12, <1>13, <1>14, <1>15, <1>16, <1>17, <1>18, <1>19, <1>20, <1>21,
      <1>22
  DEF Next, ExecutorStep, StopStep, World

LEMMA NextForgotten ==
  TypeOK /\ PhaseInv /\ MemInv /\ OwnInv /\ NoSleeveForgotten /\ [Next]_vars
    => NoSleeveForgotten'
<1> SUFFICES ASSUME TypeOK, PhaseInv, MemInv, OwnInv, NoSleeveForgotten, [Next]_vars
             PROVE  NoSleeveForgotten'
  OBVIOUS
<1> USE TacticalDeskAssumption
<1>1. CASE StartTick
  <2>1. Forgotten' = Forgotten /\ crashes' = crashes /\ (Works \/ Fails)
    BY <1>1 DEF StartTick, Forgotten, redis, broker
  <2>2. QED
    BY <2>1, FaultsGrow, FewerForgotten
<1>2. CASE SaveStops
  <2>1. crashes' = crashes /\ (faults' = 0 => faults = 0)
    BY <1>2 DEF SaveStops, Works
  <2>2. ASSUME faults' = 0
        PROVE  Forgotten' \subseteq Forgotten
    BY <1>2, <2>1, <2>2 DEF SaveStops, broker, MemInv, Forgotten
  <2>3. QED
    BY <2>1, <2>2, FewerForgotten
<1>3. ASSUME NEW b \in Buys, PassOver(b)
      PROVE  NoSleeveForgotten'
  BY <1>3
  DEF PassOver, Works, Fails, redis, broker, TypeOK, Forgotten,
      NoSleeveForgotten
<1>4. ASSUME NEW b \in Buys, SellStop(b)
      PROVE  NoSleeveForgotten'
  BY <1>4
  DEF SellStop, TryStop, Works, Fails, TypeOK, Forgotten,
      NoSleeveForgotten
<1>5. ASSUME NEW b \in Buys, StopRefused(b)
      PROVE  NoSleeveForgotten'
  BY <1>5
  DEF StopRefused, TryStop, Works, Fails, TypeOK, Forgotten,
      NoSleeveForgotten
<1>6. ASSUME NEW b \in Buys, StopUnconfirmed(b)
      PROVE  NoSleeveForgotten'
  BY <1>6 DEF StopUnconfirmed, Fails, TypeOK, NoSleeveForgotten
<1>7. CASE NoEntry
  BY <1>7 DEF NoEntry, redis, broker, Forgotten, NoSleeveForgotten
<1>8. ASSUME NEW b \in Buys, NEW r \in 1 .. SleeveRisk, PlanEntry(b, r)
      PROVE  NoSleeveForgotten'
  <2>1. crashes' = crashes /\ (faults' = 0 => faults = 0)
    BY <1>8 DEF PlanEntry, Works, Fails, TypeOK
  <2>2. ASSUME faults' = 0
        PROVE  Forgotten' \subseteq Forgotten
    BY <1>8, <2>1, <2>2
    DEF PlanEntry, redis, broker, PhaseInv, Forgotten, Planning,
        NoPlan
  <2>3. QED
    BY <2>1, <2>2, FewerForgotten
<1>9. CASE PlaceBuy
  <2>1. crashes' = crashes /\ (faults' = 0 => faults = 0)
    BY <1>9 DEF PlaceBuy, Works, Fails, TypeOK
  <2>2. ASSUME faults' = 0
        PROVE  Forgotten' \subseteq Forgotten
    BY <1>9, <2>1, <2>2 DEF PlaceBuy, BuyAccepted, redis, Forgotten
  <2>3. QED
    BY <2>1, <2>2, FewerForgotten
<1>10. CASE BuyRefused
  BY <1>10
  DEF BuyRefused, Works, Fails, redis, broker, TypeOK, Forgotten,
      NoSleeveForgotten
<1>11. CASE BuyUnconfirmed
  BY <1>11 DEF BuyUnconfirmed, Fails, TypeOK, NoSleeveForgotten
<1>12. CASE LockEntry
  <2>1. crashes' = crashes /\ (faults' = 0 => faults = 0)
    BY <1>12 DEF LockEntry, Works
  <2>2. ASSUME faults' = 0
        PROVE  Forgotten' \subseteq Forgotten
    BY <1>12, <2>1, <2>2 DEF LockEntry, broker, OwnInv, Forgotten
  <2>3. QED
    BY <2>1, <2>2, FewerForgotten
<1>13. CASE BookSleeve
  <2>1. crashes' = crashes /\ (faults' = 0 => faults = 0)
    BY <1>13 DEF BookSleeve, Works, Fails, TypeOK
  <2>2. ASSUME faults' = 0
        PROVE  Forgotten' \subseteq Forgotten
    BY <1>13, <2>1, <2>2
    DEF BookSleeve, Fails, WithSleeve, broker, Forgotten
  <2>3. QED
    BY <2>1, <2>2, FewerForgotten
<1>14. CASE TickFails
  BY <1>14 DEF TickFails, Fails, TypeOK, NoSleeveForgotten
<1>15. CASE Crash
  <2>1. SUFFICES ASSUME faults' = 0
                 PROVE  Cardinality(Forgotten') <= crashes'
    BY DEF NoSleeveForgotten
  <2>2. faults = 0 /\ crashes' = crashes + 1
    BY <1>15, <2>1 DEF Crash
  <2>3. Forgotten' = accepted \ book.sleeves
    BY <1>15 DEF Crash, Forget, NoPlan, Forgotten, redis, broker
  <2>4. ASSUME pc \in Planning
        PROVE  Cardinality(Forgotten') <= Cardinality(Forgotten) + 1
    <3>1. PICK b \in Buys : plan.buys = {b}
      BY <2>4 DEF PhaseInv
    <3>2. QED
      BY <2>3, <3>1, OneMore DEF Forgotten, TypeOK
  <2>5. ASSUME pc \notin Planning
        PROVE  Forgotten' = Forgotten
    BY <2>3, <2>5 DEF PhaseInv, NoPlan, Forgotten
  <2>6. /\ Cardinality(Forgotten) \in Nat /\ Cardinality(Forgotten') \in Nat
        /\ crashes \in Nat
    BY SubsetsFinite, <2>3 DEF Forgotten, TypeOK
  <2>7. QED
    <3>1. \/ Cardinality(Forgotten') <= Cardinality(Forgotten) + 1
          \/ Forgotten' = Forgotten
      BY <2>4, <2>5
    <3>2. QED
      BY <2>2, <2>6, <3>1 DEF NoSleeveForgotten
<1>16. CASE Publish
  BY <1>16 DEF Publish, redis, process, Forgotten, NoSleeveForgotten
<1>17. CASE GuardChanges
  BY <1>17
  DEF GuardChanges, redis, process, broker, Forgotten,
      NoSleeveForgotten
<1>18. CASE EntryLockEnds
  BY <1>18
  DEF EntryLockEnds, process, broker, Forgotten, NoSleeveForgotten
<1>19. ASSUME NEW b \in Buys, PriceCrosses(b)
      PROVE  NoSleeveForgotten'
  BY <1>19
  DEF PriceCrosses, redis, process, broker, Forgotten,
      NoSleeveForgotten
<1>20. ASSUME NEW s \in Secs, PriceFloors(s)
      PROVE  NoSleeveForgotten'
  BY <1>20
  DEF PriceFloors, redis, process, broker, Forgotten, NoSleeveForgotten
<1>21. ASSUME NEW s \in Secs, CooldownEnds(s)
      PROVE  NoSleeveForgotten'
  BY <1>21
  DEF CooldownEnds, process, broker, Forgotten, NoSleeveForgotten
<1>22. CASE UNCHANGED vars
  BY <1>22
  DEF vars, redis, process, broker, Forgotten, NoSleeveForgotten
<1>23. QED
  BY <1>1, <1>2, <1>3, <1>4, <1>5, <1>6, <1>7, <1>8, <1>9, <1>10, <1>11,
      <1>12, <1>13, <1>14, <1>15, <1>16, <1>17, <1>18, <1>19, <1>20, <1>21,
      <1>22
  DEF Next, ExecutorStep, StopStep, World

-----------------------------------------------------------------------------
(***************************************************************************)
(* The inductive invariant.                                                *)
(***************************************************************************)
LEMMA InitIInv == Init => IInv
<1> SUFFICES ASSUME Init
             PROVE  IInv
  OBVIOUS
<1> USE TacticalDeskAssumption
<1>1. TypeOK
  <2>1. BookOK(book) /\ BookOK(mem) /\ todo \subseteq mem.sleeves \ mem.stopped
    BY DEF Init, BookOK, Books, EmptyBook
  <2>2. plan \in [buys : SUBSET Buys, risk : Nat]
    BY DEF Init, NoPlan
  <2>3. hunt \in BOOLEAN /\ blocked \in BOOLEAN /\ cooling \in BOOLEAN
          /\ held \in BOOLEAN /\ dirty \in BOOLEAN
    BY DEF Init
  <2>4. /\ low \subseteq Buys /\ floored \subseteq Secs
        /\ hot \subseteq Secs /\ stray \subseteq Buys
        /\ sec \in [Buys -> Secs] /\ pc \in Steps
        /\ accepted \subseteq Buys
        /\ sells \in [Buys -> Nat] /\ spent \in Nat
    BY DEF Init, Steps
  <2>5. faults \in 0 .. MaxFaults /\ crashes \in 0 .. MaxCrashes
    BY DEF Init
  <2>6. QED
    BY <2>1, <2>2, <2>3, <2>4, <2>5 DEF TypeOK
<1>2. PhaseInv /\ MemInv /\ OwnInv
  BY DEF Init, PhaseInv, MemInv, OwnInv, Planning, EmptyBook, NoPlan
<1>3. Cardinality(book.sleeves \cup plan.buys) = 0 /\ Cardinality(Forgotten) = 0
  BY FS_EmptySet DEF Init, EmptyBook, NoPlan, Forgotten
<1>4. CapInv
  BY <1>3 DEF Init, CapInv, EmptyBook, NoPlan
<1>5. StrayInv /\ SoldInv /\ SoldOnce
  BY DEF Init, StrayInv, SoldInv, SoldOnce, EmptyBook
<1>6. NoSleeveForgotten
  BY <1>3 DEF Init, NoSleeveForgotten
<1>7. QED
  BY <1>1, <1>2, <1>4, <1>5, <1>6 DEF IInv

LEMMA NextIInv == IInv /\ [Next]_vars => IInv'
  BY NextTypeOK, NextPhaseInv, NextMemInv, NextOwnInv, NextCapInv, NextStrayInv,
     NextSold, NextForgotten
  DEF IInv

THEOREM Inductive == Spec => []IInv
  BY InitIInv, NextIInv, PTL DEF Spec

(***************************************************************************)
(* Type correctness, and a stop is only marked on a booked sleeve.         *)
(***************************************************************************)
THEOREM TypeCorrect == Spec => []TypeOK
<1>1. IInv => TypeOK
  BY DEF IInv
<1>2. QED
  BY <1>1, Inductive, PTL

(***************************************************************************)
(* A sleeve is sold once, plus once for each crash or outage.              *)
(***************************************************************************)
THEOREM SoldOnceAlways == Spec => []SoldOnce
<1>1. IInv => SoldOnce
  BY DEF IInv
<1>2. QED
  BY <1>1, Inductive, PTL

(***************************************************************************)
(* A BUY without a stop takes a crash of its own.                          *)
(***************************************************************************)
THEOREM NoSleeveForgottenAlways == Spec => []NoSleeveForgotten
<1>1. IInv => NoSleeveForgotten
  BY DEF IInv
<1>2. QED
  BY <1>1, Inductive, PTL

(***************************************************************************)
(* The cap on the number of sleeves: an accepted BUY is forgotten, booked  *)
(* or about to be booked.                                                  *)
(***************************************************************************)
THEOREM SleeveCapAlways == Spec => []SleeveCap
<1>1. IInv => SleeveCap
  <2> SUFFICES ASSUME IInv, faults = 0
               PROVE  Cardinality(accepted) <= MaxSleeves + crashes
    BY DEF SleeveCap
  <2> DEFINE Covered == book.sleeves \cup plan.buys
  <2>1. Forgotten \in SUBSET Buys /\ Covered \in SUBSET Buys
          /\ accepted \in SUBSET (Forgotten \cup Covered)
    BY DEF IInv, TypeOK, BookOK, Books, Forgotten
  <2>2. Cardinality(accepted) <= Cardinality(Forgotten \cup Covered)
    BY <2>1, Smaller
  <2>3. Cardinality(Forgotten \cup Covered)
          <= Cardinality(Forgotten) + Cardinality(Covered)
    <3>1. Cardinality(Forgotten \cup Covered)
            = Cardinality(Forgotten) + Cardinality(Covered)
                - Cardinality(Forgotten \cap Covered)
      BY <2>1, SubsetsFinite, FS_Union
    <3>2. /\ Cardinality(Forgotten) \in Nat /\ Cardinality(Covered) \in Nat
          /\ Cardinality(Forgotten \cap Covered) \in Nat
      BY <2>1, SubsetsFinite
    <3>3. QED
      BY <3>1, <3>2
  <2>4. Cardinality(Forgotten) <= crashes /\ Cardinality(Covered) <= MaxSleeves
    BY DEF IInv, NoSleeveForgotten, CapInv
  <2>5. /\ Cardinality(accepted) \in Nat /\ Cardinality(Forgotten) \in Nat
        /\ Cardinality(Covered) \in Nat
        /\ Cardinality(Forgotten \cup Covered) \in Nat
        /\ crashes \in Nat /\ MaxSleeves \in Nat
    BY <2>1, SubsetsFinite, TacticalDeskAssumption DEF IInv, TypeOK
  <2> HIDE DEF Covered
  <2>6. QED
    BY <2>2, <2>3, <2>4, <2>5
<1>2. QED
  BY <1>1, Inductive, PTL

(***************************************************************************)
(* The cap on the day's risk.                                              *)
(***************************************************************************)
THEOREM RiskCapAlways == Spec => []RiskCapHolds
<1>1. IInv => RiskCapHolds
  <2> SUFFICES ASSUME IInv, faults = 0, crashes = 0
               PROVE  spent <= RiskCap
    BY DEF RiskCapHolds
  <2>1. /\ spent = book.deployed + IF pc \in {"lock", "book"} THEN plan.risk ELSE 0
        /\ book.deployed + plan.risk <= RiskCap
    BY DEF IInv, CapInv
  <2>2. book.deployed \in Nat /\ plan.risk \in Nat
    BY DEF IInv, TypeOK, BookOK, Books
  <2>3. QED
    BY <2>1, <2>2, TacticalDeskAssumption
<1>2. QED
  BY <1>1, Inductive, PTL

(***************************************************************************)
(* At most one BUY follows a directive that turned against entry.          *)
(***************************************************************************)
THEOREM OneStrayAlways == Spec => []OneStray
<1>1. IInv => OneStray
  <2> SUFFICES ASSUME StrayInv
               PROVE  Cardinality(stray) <= 1
    BY DEF IInv, OneStray
  <2>1. Cardinality({}) = 0 /\ \A b \in Buys : Cardinality({b}) = 1
    BY FS_EmptySet, FS_Singleton
  <2>2. QED
    BY <2>1 DEF StrayInv
<1>2. QED
  BY <1>1, Inductive, PTL

(***************************************************************************)
(* Without an outage no store takes anything out of the book.              *)
(***************************************************************************)
LEMMA StepGrowsBook ==
  ASSUME IInv, [Next]_vars, faults' = faults
  PROVE  /\ book.sleeves \subseteq book'.sleeves
         /\ book.stopped \subseteq book'.stopped
         /\ book.deployed <= book'.deployed
<1>1. book.deployed \in Nat /\ plan.risk \in Nat
  BY DEF IInv, TypeOK, BookOK, Books
<1>2. CASE book' = book
  BY <1>1, <1>2
<1>3. CASE SaveStops
  BY <1>1, <1>3 DEF SaveStops, IInv, MemInv
<1>4. CASE BookSleeve
  <2>1. ~Fails
    BY DEF Fails, IInv, TypeOK
  <2>2. book' = WithSleeve(book)
    BY <1>4, <2>1 DEF BookSleeve
  <2>3. QED
    BY <1>1, <2>2 DEF WithSleeve
<1>5. book' = book \/ SaveStops \/ BookSleeve
  BY DEF Next, ExecutorStep, StopStep, World, vars, redis, StartTick, PassOver,
         SellStop, StopRefused, StopUnconfirmed, TryStop, NoEntry, PlanEntry,
         PlaceBuy, BuyRefused, BuyUnconfirmed, LockEntry, TickFails, Crash,
         Publish, GuardChanges, EntryLockEnds, PriceCrosses, PriceFloors, CooldownEnds
<1>6. QED
  BY <1>2, <1>3, <1>4, <1>5

THEOREM BookGrowsAlways == Spec => BookGrows
<1>1. IInv /\ [Next]_vars
        => [ faults' = faults =>
               /\ book.sleeves \subseteq book'.sleeves
               /\ book.stopped \subseteq book'.stopped
               /\ book.deployed <= book'.deployed ]_vars
  BY StepGrowsBook
<1>2. QED
  BY <1>1, Inductive, PTL DEF Spec, BookGrows

=============================================================================
