---------------------------- MODULE TacticalDesk ----------------------------
(***************************************************************************)
(* The tactical executor (services/tactical_executor.py) and the day-risk  *)
(* book it keeps in Redis (services/intraday_hunt.py).  One process loops: *)
(* read the strategic directive, load the book, try the stop of every      *)
(* sleeve, store the book if any stop was tried, then perhaps buy one more *)
(* sleeve and book it.  Nobody else writes the book, but the process dies  *)
(* or a tick fails between any two of its steps, prices move, cooldowns    *)
(* expire, the order guard blocks and unblocks, and the strategic          *)
(* controller publishes a new directive.                                   *)
(*                                                                         *)
(* A fault is one step of the executor that meets a Redis or broker        *)
(* outage; which of the step's accesses it hits is left open.  Amounts are *)
(* in units of the 200-rupee minimum below which can_hunt is false.  The   *)
(* book lives for one session: its date never changes here.                *)
(***************************************************************************)
EXTENDS Naturals, FiniteSets

CONSTANTS
  Buys,          \* BUY orders the executor may send, one per sleeve
  Secs,          \* security ids a sleeve may be in
  MaxSleeves,    \* max_sleeves(): TRADE_MAX_SLEEVES
  RiskCap,       \* util_cap: the share of MAX_DAILY_LOSS the day may risk
  SleeveRisk,    \* bound: the largest planned risk of one sleeve
  MaxFaults,     \* bound: steps that meet an outage
  MaxCrashes     \* bound: deaths of the process in the middle of a tick

ASSUME TacticalDeskAssumption ==
  /\ IsFiniteSet(Buys)
  /\ MaxSleeves \in Nat \ {0}
  /\ RiskCap \in Nat /\ SleeveRisk \in Nat
  /\ MaxFaults \in Nat /\ MaxCrashes \in Nat

VARIABLES
  hunt,      \* the published directive allows entry
  blocked,   \* terminal:controls makes the order guard refuse
  low,       \* sleeves whose last tick is at or below their stop price
  floored,   \* securities of low sleeves that trade at 50 paise or less
  sec,       \* sec[b]: the security the plan for b picks
  book,      \* Redis agent:console:day_risk
  hot,       \* securities with a live agent:tactical:stop_cooldown key
  cooling,   \* the last entry attempt still blocks the next one
  pc,        \* the step the executor takes next
  held,      \* the directive this tick began with allows entry
  mem,       \* the book evaluate_stops loaded and marks in place
  todo,      \* sleeves whose stop this tick has not tried yet
  dirty,     \* this tick has tried a stop: "actions" is not empty
  plan,      \* the BUY being placed, and its planned risk
  accepted,  \* BUYs the broker has accepted
  sells,     \* sells[b]: stop orders for b the broker has accepted
  faults, crashes,   \* how much of each bound is used
  spent,     \* history: the planned risk of every BUY accepted so far
  stray      \* history: BUYs accepted since the directive turned against entry

market  == <<hunt, blocked, low, floored, sec>>
redis   == <<book, hot, cooling>>
process == <<pc, held, mem, todo, dirty, plan>>
broker  == <<accepted, sells, spent, stray>>
vars    == <<market, redis, process, broker, faults, crashes>>

Books == [sleeves : SUBSET Buys, stopped : SUBSET Buys, deployed : Nat]

\* What load_day_risk answers when the key is missing, dated or unreadable.
EmptyBook == [sleeves |-> {}, stopped |-> {}, deployed |-> 0]

NoPlan == [buys |-> {}, risk |-> 0]

-----------------------------------------------------------------------------
Init ==
  /\ hunt = FALSE /\ blocked = FALSE /\ low = {} /\ floored = {}
  /\ sec \in [Buys -> Secs]
  /\ book = EmptyBook /\ hot = {} /\ cooling = FALSE
  /\ pc = "idle" /\ held = FALSE
  /\ mem = EmptyBook /\ todo = {} /\ dirty = FALSE
  /\ plan = NoPlan
  /\ accepted = {}
  /\ sells = [b \in Buys |-> 0]
  /\ faults = 0 /\ crashes = 0
  /\ spent = 0 /\ stray = {}

Works == faults' = faults
Fails == faults < MaxFaults /\ faults' = faults + 1

\* Back to the top of the loop with nothing in memory.
Forget ==
  /\ pc' = "idle" /\ held' = FALSE
  /\ mem' = EmptyBook /\ todo' = {} /\ dirty' = FALSE
  /\ plan' = NoPlan

-----------------------------------------------------------------------------
\* evaluate_stops.

\* Mutant: a directive that once allowed entry is kept.
StartTickSticky ==
  /\ pc = "idle"
  /\ Works /\ held' = TRUE /\ mem' = book
  /\ pc' = "stops" /\ todo' = mem'.sleeves \ mem'.stopped
  /\ UNCHANGED <<market, redis, dirty, plan, broker, crashes>>

\* tactical_tick reads the directive, evaluate_stops the book.
StartTick ==
  /\ pc = "idle"
  /\ \/ Works /\ held' = hunt /\ mem' = book
     \/ Fails /\ held' \in {FALSE, hunt} /\ mem' \in {EmptyBook, book}
  /\ pc' = "stops"
  /\ todo' = mem'.sleeves \ mem'.stopped
  /\ UNCHANGED <<market, redis, dirty, plan, broker, crashes>>

\* The price is above the stop, the security is cooling down, or no price
\* can be read.
PassOver(b) ==
  /\ pc = "stops" /\ b \in todo
  /\ \/ Works /\ (b \notin low \/ sec[b] \in hot)
     \/ Fails
  /\ todo' = todo \ {b}
  /\ UNCHANGED <<market, redis, pc, held, mem, dirty, plan, broker, crashes>>

\* compute_protected_limit_price: a SELL is limited to 50 paise under the last
\* tick, and a limit that is not positive is refused whatever the controls say.
NoLimitPrice(b) == sec[b] \in floored

\* The stop of b is tried: the order goes through the guard to the broker.
TryStop(b) ==
  /\ pc = "stops" /\ b \in todo /\ b \in low
  /\ todo' = todo \ {b}
  /\ dirty' = TRUE
  /\ UNCHANGED <<market, book, cooling, pc, held, plan, accepted, spent,
                 stray, crashes>>

\* Mutant: the accepted order does not mark its sleeve.
SellStopUnmarked(b) ==
  /\ TryStop(b)
  /\ ~NoLimitPrice(b)
  /\ Works /\ sec[b] \notin hot /\ ~blocked /\ hot' = hot \cup {sec[b]}
  /\ sells' = [sells EXCEPT ![b] = @ + 1]
  /\ UNCHANGED mem

\* Accepted: the sleeve is marked stopped in memory, the cooldown set.  An
\* outage may hide a live cooldown, let the guard pass, or lose the key.
SellStop(b) ==
  /\ TryStop(b)
  /\ ~NoLimitPrice(b)
  /\ \/ Works /\ sec[b] \notin hot /\ ~blocked /\ hot' = hot \cup {sec[b]}
     \/ Fails /\ hot' \in {hot, hot \cup {sec[b]}}
  /\ sells' = [sells EXCEPT ![b] = @ + 1]
  /\ mem' = [mem EXCEPT !.stopped = @ \cup {b}]

\* Mutant: a refused stop counts as done.
StopRefusedMarked(b) ==
  /\ TryStop(b)
  /\ \/ /\ Works /\ sec[b] \notin hot /\ (blocked \/ NoLimitPrice(b))
        /\ hot' = hot \cup {sec[b]}
     \/ Fails /\ hot' \in {hot, hot \cup {sec[b]}}
  /\ mem' = [mem EXCEPT !.stopped = @ \cup {b}]
  /\ UNCHANGED sells

\* Refused by the guard (which blocks SELLs as it blocks BUYs, and finds no
\* limit price at 50 paise) or by the broker: the sleeve stays armed behind a
\* shorter cooldown.
StopRefused(b) ==
  /\ TryStop(b)
  /\ \/ /\ Works /\ sec[b] \notin hot /\ (blocked \/ NoLimitPrice(b))
        /\ hot' = hot \cup {sec[b]}
     \/ Fails /\ hot' \in {hot, hot \cup {sec[b]}}
  /\ UNCHANGED <<mem, sells>>

\* Accepted, but the answer is lost: the code takes it for a refusal.
StopUnconfirmed(b) ==
  /\ TryStop(b)
  /\ ~NoLimitPrice(b)
  /\ Fails
  /\ hot' \in {hot, hot \cup {sec[b]}}
  /\ sells' = [sells EXCEPT ![b] = @ + 1]
  /\ UNCHANGED mem

\* save_day_risk if a stop was tried; the entry is attempted only under a
\* directive that allows it.
SaveStops ==
  /\ pc = "stops" /\ todo = {}
  /\ Works
  /\ book' = IF dirty THEN mem ELSE book
  /\ pc' = IF held THEN "entry" ELSE "idle"
  /\ held' = FALSE /\ mem' = EmptyBook /\ dirty' = FALSE
  /\ UNCHANGED <<market, hot, cooling, todo, plan, broker, crashes>>

-----------------------------------------------------------------------------
\* maybe_enter and execute_hunt.

\* remaining_risk_budget(...)["can_hunt"] and ["remaining"].
CanHunt(c)   == RiskCap > c.deployed /\ Cardinality(c.sleeves) < MaxSleeves

\* Mutant: every sleeve is sized against the whole day's budget.
FitsCap(c, r) == r <= RiskCap

FitsBudget(c, r) == c.deployed + r <= RiskCap

\* No entry this time: the directive has gone stale, the last attempt is too
\* recent, the budget is used up, no strike fits.  The chain is not modelled,
\* so this may always happen.
NoEntry ==
  /\ pc = "entry"
  /\ pc' = "idle"
  /\ UNCHANGED <<market, redis, held, mem, todo, dirty, plan, broker, faults, crashes>>

\* BUYs are named in the order they are planned.
NextBuy == CHOOSE b \in Buys : b \notin accepted

\* already_entered_today, remaining_risk_budget and build_hunt_plan let one
\* sleeve of risk r through.  An unreadable book is an empty one to them.
PlanEntry(b, r) ==
  /\ pc = "entry" /\ b \notin accepted /\ b = NextBuy
  /\ \/ Works /\ ~cooling /\ CanHunt(book) /\ FitsBudget(book, r)
     \/ Fails /\ CanHunt(EmptyBook) /\ FitsBudget(EmptyBook, r)
  /\ plan' = [buys |-> {b}, risk |-> r]
  /\ pc' = "place"
  /\ UNCHANGED <<market, redis, held, mem, todo, dirty, broker, crashes>>

\* The broker has the BUY.  Whether it fills, ends unfilled or is rejected
\* after all is told to nobody and so is not a step.
BuyAccepted ==
  /\ accepted' = accepted \cup plan.buys
  /\ spent' = spent + plan.risk
  /\ stray' = IF hunt THEN stray ELSE stray \cup plan.buys

PlaceBuy ==
  /\ pc = "place"
  /\ (Works /\ ~blocked) \/ Fails
  /\ BuyAccepted
  /\ pc' = "lock"
  /\ UNCHANGED <<market, redis, held, mem, todo, dirty, plan, sells, crashes>>

\* Refused by the guard or the broker.
BuyRefused ==
  /\ pc = "place"
  /\ (Works /\ blocked) \/ Fails
  /\ pc' = "refused"
  /\ UNCHANGED <<market, redis, held, mem, todo, dirty, plan, broker, crashes>>

\* Accepted, but the answer is lost: taken for a refusal, never booked.
BuyUnconfirmed ==
  /\ pc = "place"
  /\ Fails
  /\ BuyAccepted
  /\ pc' = "refused"
  /\ UNCHANGED <<market, redis, held, mem, todo, dirty, plan, sells, crashes>>

\* Mutant: the lock is the end of it, the sleeve is not booked.
LockEntryOnly ==
  /\ pc \in {"lock", "refused"}
  /\ Works
  /\ cooling' = TRUE
  /\ pc' = "idle" /\ plan' = NoPlan
  /\ UNCHANGED <<market, book, hot, held, mem, todo, dirty, broker, crashes>>

\* _set_lock; only an accepted BUY goes on to be booked.
LockEntry ==
  /\ pc \in {"lock", "refused"}
  /\ Works
  /\ cooling' = TRUE
  /\ IF pc = "lock" THEN pc' = "book" /\ UNCHANGED plan
                    ELSE pc' = "idle" /\ plan' = NoPlan
  /\ UNCHANGED <<market, book, hot, held, mem, todo, dirty, broker, crashes>>

\* The book c with the planned sleeve appended.
WithSleeve(c) ==
  [sleeves  |-> c.sleeves \cup plan.buys,
   stopped  |-> c.stopped,
   deployed |-> c.deployed + plan.risk]

\* Mutant: the list of sleeves is replaced by the new one.
BookSleeveAlone ==
  /\ pc = "book"
  /\ Works
  /\ book' = [book EXCEPT !.sleeves = plan.buys, !.deployed = @ + plan.risk]
  /\ Forget
  /\ UNCHANGED <<market, hot, cooling, broker, crashes>>

\* The book is loaded again -- empty if the load fails -- and stored with
\* the sleeve, unless the store fails: then the tick does.
BookSleeve ==
  /\ pc = "book"
  /\ \/ Works /\ book' = WithSleeve(book)
     \/ Fails /\ book' = WithSleeve(EmptyBook)
  /\ Forget
  /\ UNCHANGED <<market, hot, cooling, broker, crashes>>

-----------------------------------------------------------------------------
\* An exception that no handler of the tick swallows ends the tick: a store
\* that raises, a chain that cannot be read, a cooldown that cannot be set
\* in the handler of a refused stop.
TickFails ==
  /\ pc # "idle"
  /\ Fails
  /\ Forget
  /\ UNCHANGED <<market, redis, broker, crashes>>

\* The process dies in the middle of a tick; PM2 starts it again.
Crash ==
  /\ pc # "idle"
  /\ crashes < MaxCrashes /\ crashes' = crashes + 1
  /\ Forget
  /\ UNCHANGED <<market, redis, broker, faults>>

-----------------------------------------------------------------------------
\* Everything that moves without the executor.

Publish ==
  /\ hunt' = ~hunt
  /\ stray' = {}
  /\ UNCHANGED <<blocked, low, floored, sec, redis, process, accepted,
                 sells, spent, faults, crashes>>

GuardChanges ==
  /\ blocked' = ~blocked
  /\ UNCHANGED <<hunt, low, floored, sec, redis, process, broker, faults, crashes>>

PriceCrosses(b) ==
  /\ b \in accepted
  /\ low' = IF b \in low THEN low \ {b} ELSE low \cup {b}
  /\ floored' = floored \cap {sec[x] : x \in low'}
  /\ UNCHANGED <<hunt, blocked, sec, redis, process, broker, faults, crashes>>

PriceFloors(s) ==
  /\ \E b \in low : sec[b] = s
  /\ floored' = IF s \in floored THEN floored \ {s} ELSE floored \cup {s}
  /\ UNCHANGED <<hunt, blocked, low, sec, redis, process, broker, faults, crashes>>

\* The 120 s (30 s after a refusal) are over.
CooldownEnds(s) ==
  /\ s \in hot
  /\ hot' = hot \ {s}
  /\ UNCHANGED <<market, book, cooling, process, broker, faults, crashes>>

\* The 120 s after a success (180 or 1800 s after a failure) are over.
EntryLockEnds ==
  /\ cooling
  /\ cooling' = FALSE
  /\ UNCHANGED <<market, book, hot, process, broker, faults, crashes>>

-----------------------------------------------------------------------------
StopStep(b) == PassOver(b) \/ SellStop(b) \/ StopRefused(b) \/ StopUnconfirmed(b)

ExecutorStep ==
  \/ StartTick \/ SaveStops
  \/ \E b \in Buys : StopStep(b)
  \/ NoEntry
  \/ \E b \in Buys, r \in 1 .. SleeveRisk : PlanEntry(b, r)
  \/ PlaceBuy \/ BuyRefused \/ BuyUnconfirmed
  \/ LockEntry \/ BookSleeve

World ==
  \/ Publish \/ GuardChanges \/ EntryLockEnds
  \/ \E b \in Buys : PriceCrosses(b)
  \/ \E s \in Secs : CooldownEnds(s) \/ PriceFloors(s)

Next == ExecutorStep \/ TickFails \/ Crash \/ World

Spec == Init /\ [][Next]_vars

\* The loop goes on for ever (run_forever, restarted by PM2) and a Redis key
\* with a time to live expires.
FairSpec ==
  /\ Spec
  /\ WF_vars(ExecutorStep)
  /\ \A s \in Secs : WF_vars(CooldownEnds(s))

-----------------------------------------------------------------------------
Steps == {"idle", "stops", "entry", "place", "lock", "refused", "book"}

BookOK(c) == c \in Books /\ c.stopped \subseteq c.sleeves

\* Every variable stays in its type, and a stop is only ever marked on a
\* sleeve of the same book.
TypeOK ==
  /\ hunt \in BOOLEAN /\ blocked \in BOOLEAN
  /\ low \subseteq Buys /\ floored \subseteq Secs
  /\ sec \in [Buys -> Secs]
  /\ BookOK(book) /\ BookOK(mem)
  /\ hot \subseteq Secs /\ cooling \in BOOLEAN
  /\ pc \in Steps /\ held \in BOOLEAN /\ dirty \in BOOLEAN
  /\ todo \subseteq mem.sleeves \ mem.stopped
  /\ plan \in [buys : SUBSET Buys, risk : Nat]
  /\ accepted \subseteq Buys
  /\ sells \in [Buys -> Nat]
  /\ faults \in 0 .. MaxFaults /\ crashes \in 0 .. MaxCrashes
  /\ spent \in Nat
  /\ stray \subseteq Buys

\* A sleeve is sold once: the mark reaches the book before the cooldown can
\* matter, and only a crash or an outage between the order and the store
\* sells it again (services/tactical_executor.py:132 and :162).
SoldOnce == \A b \in Buys : sells[b] <= 1 + crashes + faults

\* The day never holds more sleeves than TRADE_MAX_SLEEVES, plus one for
\* each crash that hit between a BUY and its booking
\* (services/intraday_hunt.py:9 and :156).
SleeveCap == faults = 0 => Cardinality(accepted) <= MaxSleeves + crashes

\* The risk of all the day's BUYs stays inside the utilisation cap, although
\* the budget is read several steps before the risk is booked
\* (services/intraday_hunt.py:146 and :517).
RiskCapHolds == faults = 0 /\ crashes = 0 => spent <= RiskCap

\* Every BUY the broker has accepted is under a stop or about to be booked:
\* a crash can leave at most one without (services/intraday_hunt.py:484-533).
Forgotten == accepted \ (book.sleeves \cup plan.buys)

NoSleeveForgotten == faults = 0 => Cardinality(Forgotten) <= crashes

\* The directive is read before the stops and used after them: once it turns
\* against entry at most one BUY still follows
\* (services/tactical_executor.py:252 and :255).
OneStray == Cardinality(stray) <= 1

\* Without an outage the book only grows: no store, in particular not that
\* of the book loaded before the stops, takes back a sleeve or a stop mark
\* (services/tactical_executor.py:86 and :162).
BookGrows ==
  [][ faults' = faults =>
        /\ book.sleeves \subseteq book'.sleeves
        /\ book.stopped \subseteq book'.stopped
        /\ book.deployed <= book'.deployed ]_vars

\* A booked sleeve whose price stays at or below its stop is sold, whatever
\* cooldowns other sleeves of its security leave, unless the guard blocks or
\* the price is down at 50 paise, where the guard finds no limit to sell at
\* (services/tactical_executor.py:4, services/order_guard.py:112).
StopExits ==
  \A b \in Buys :
    (b \in book.sleeves /\ b \in low)
      ~> \/ sells[b] > 0 \/ b \notin low \/ b \notin book.sleeves
         \/ blocked \/ NoLimitPrice(b)

-----------------------------------------------------------------------------
\* The inductive strengthening of the safety properties.

Planning == {"place", "lock", "refused", "book"}

\* What each variable of the process holds when it is not in use.
PhaseInv ==
  /\ pc # "stops" => mem = EmptyBook /\ todo = {} /\ ~dirty /\ ~held
  /\ IF pc \in Planning THEN \E b \in Buys : plan.buys = {b}
                         ELSE plan = NoPlan

\* A book about to be stored is the stored one with more stop marks.
MemInv ==
  /\ dirty \/ todo # {} =>
       /\ mem.sleeves = book.sleeves /\ mem.deployed = book.deployed
       /\ book.stopped \subseteq mem.stopped
  /\ ~dirty => mem.stopped \subseteq book.stopped

\* Only BUYs the broker accepted are booked or sold.
OwnInv ==
  /\ book.sleeves \subseteq accepted
  /\ mem.sleeves \subseteq accepted
  /\ pc \in {"lock", "book"} => plan.buys \subseteq accepted
  /\ pc = "place" => plan.buys \cap accepted = {}
  /\ faults = 0 /\ pc = "refused" => plan.buys \cap accepted = {}
  /\ \A b \in Buys : b \notin accepted \/ b \in plan.buys => sells[b] = 0

\* The sleeve being bought already counts against both caps.
CapInv ==
  /\ faults = 0 =>
       /\ Cardinality(book.sleeves \cup plan.buys) <= MaxSleeves
       /\ book.deployed + plan.risk <= RiskCap
  /\ faults = 0 /\ crashes = 0 =>
       spent = book.deployed + IF pc \in {"lock", "book"} THEN plan.risk ELSE 0

\* After a stray BUY the executor has no permission to enter left.
StrayInv ==
  /\ stray = {} \/ \E b \in Buys : stray = {b}
  /\ stray # {} => ~hunt /\ ~held /\ pc \notin {"entry", "place"}

\* A sleeve that may be sold in this tick, or in a later one, has been sold
\* at most as often as something went wrong.
SoldInv ==
  /\ \A b \in todo : sells[b] <= crashes + faults
  /\ \A b \in book.sleeves \ book.stopped :
       sells[b] <= crashes + faults \/ b \in mem.stopped

IInv ==
  /\ TypeOK /\ PhaseInv /\ MemInv /\ OwnInv /\ CapInv /\ StrayInv /\ SoldInv
  /\ SoldOnce /\ NoSleeveForgotten

=============================================================================
