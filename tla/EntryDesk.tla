----------------------------- MODULE EntryDesk -----------------------------
(***************************************************************************)
(* Three processes that meet in Redis: the strategic controller gathers    *)
(* facts and publishes a directive (services/strategic_controller), the    *)
(* tactical executor turns a fresh directive into one priced order         *)
(* (services/tactical_executor.py, services/intraday_hunt.py), and the     *)
(* console says what they do (dashboard/components/console_runtime.py).    *)
(*                                                                         *)
(* The clock moves between any two steps.  When a cycle, a tick or a       *)
(* render begins is left open, so sleeping, dying and being restarted look *)
(* alike.  A fault is one step that meets a Redis or broker outage.        *)
(***************************************************************************)
EXTENDS SleeveSizing

CONSTANTS
  Markets,     \* what does not move: [score, pcr, volHigh, voicesRich, top, conf]
  Ladders,     \* option prices: [strike -> [CE, PE]]
  Margins,     \* available margin, rupees
  Pnls,        \* profit and loss of the open positions
  NoDirective,
  MaxTime,     \* bound on the clock
  MaxEvents    \* bound: moves of the world, and steps that meet an outage

ASSUME EntryDeskAssumption ==
  /\ Pnls \subseteq Int /\ Margins \subseteq Nat
  /\ \A m \in Markets :
       /\ m.conf \in Int /\ m.conf >= NoConf /\ m.score \in Int /\ m.pcr \in Int
       /\ m.volHigh \in BOOLEAN /\ m.voicesRich \in BOOLEAN
  /\ \A l \in Ladders :
       /\ DOMAIN l \subseteq Int /\ 0 \in DOMAIN l
       /\ \A k \in DOMAIN l : l[k].CE \in Nat /\ l[k].PE \in Nat

VARIABLES
  now,        \* the clock
  market, ladder, margin,
  world,      \* what moves: [kill, pnl, chainLive]
  since,      \* history: since when [kill, pnl] forbid entry, while they do
  cycle,      \* the controller's: [pc, facts]
  directive,  \* Redis agent:strategy:directive
  held,       \* the directive this tick of the executor loaded
  plan,       \* the order it is about to place
  book,       \* Redis agent:console:day_risk: [risk, sleeves]
  console,    \* the render in progress: [pc, kill, pnl, chainLive]
  events,
  misread     \* history: a failed read of controls, positions or book looked harmless

still  == <<market, ladder, margin>>
desk   == <<cycle, directive, held, plan, book, console>>
vars   == <<now, still, world, since, desk, events, misread>>

Event == events < MaxEvents /\ events' = events + 1
Works == UNCHANGED <<events, misread>>
Fault == Event /\ UNCHANGED misread
Blind == Event /\ misread' = TRUE

-----------------------------------------------------------------------------
\* The world

Blank == [ asof |-> 0, kill |-> FALSE, pnl |-> 0, chainLive |-> FALSE, deployed |-> 0,
           pcr |-> NoPcr, top |-> NoStrategy, conf |-> NoConf,
           score |-> 0, volHigh |-> FALSE, voicesRich |-> FALSE ]

\* Nothing but the outlook files, which every cycle reads, survives here
\* while the controller sleeps.
Asleep == [pc |-> "idle", facts |-> Blank]
NoRender == [pc |-> "idle", kill |-> FALSE, pnl |-> 0, chainLive |-> FALSE]

Init ==
  /\ now = 0
  /\ market \in Markets /\ ladder \in Ladders /\ margin \in Margins
  /\ world = [kill |-> FALSE, pnl |-> 0, chainLive |-> TRUE]
  /\ since = [kill |-> 0, pnl |-> 0]
  /\ cycle = Asleep /\ directive = NoDirective
  /\ held = NoDirective /\ plan = NoPlan /\ book = [risk |-> 0, sleeves |-> 0]
  /\ console = NoRender /\ events = 0 /\ misread = FALSE

Clock ==
  /\ now < MaxTime /\ now' = now + 1
  /\ UNCHANGED <<still, world, since, desk, events, misread>>

\* A kill switch or day disable is armed or cleared.
KillSwitch ==
  /\ world' = [world EXCEPT !.kill = ~@]
  /\ since' = [since EXCEPT !.kill = IF world.kill THEN 0 ELSE now]
  /\ Event /\ UNCHANGED <<now, still, desk, misread>>

PnlMoves ==
  /\ \E p \in Pnls :
       /\ p # world.pnl
       /\ world' = [world EXCEPT !.pnl = p]
       /\ since' = [since EXCEPT !.pnl = IF ~NearLoss(p) THEN 0
                                        ELSE IF NearLoss(world.pnl) THEN @ ELSE now]
  /\ Event /\ UNCHANGED <<now, still, desk, misread>>

ChainStops ==
  /\ world.chainLive /\ world' = [world EXCEPT !.chainLive = FALSE]
  /\ Event /\ UNCHANGED <<now, still, since, desk, misread>>

-----------------------------------------------------------------------------
\* The strategic controller: gather_market reads in this order, and each
\* part has its own handler for exceptions.

Gather(step, next, facts) ==
  /\ cycle.pc = step
  /\ cycle' = [pc |-> next, facts |-> facts]
  /\ UNCHANGED <<now, still, world, since, directive, held, plan, book, console>>

StartCycle ==
  /\ Gather("idle", "controls",
       [ Blank EXCEPT !.asof = now, !.score = market.score,
                      !.volHigh = market.volHigh, !.voicesRich = market.voicesRich ])
  /\ Works

\* load_terminal_controls answers its defaults when Redis fails.
ReadControls ==
  \E kill \in BOOLEAN :
    /\ Gather("controls", "chain", [cycle.facts EXCEPT !.kill = kill])
    /\ \/ kill = world.kill /\ Works
       \/ ~kill /\ Blind

\* The chain, the book and the ranking.  A failure of the chain leaves all
\* of them blank; an unreadable book is an empty one.
ReadChain ==
  LET seen(deployed) ==
        [ cycle.facts EXCEPT !.chainLive = world.chainLive,
                             !.pcr = IF world.chainLive THEN market.pcr ELSE NoPcr,
                             !.deployed = deployed,
                             !.top = market.top, !.conf = market.conf ]
  IN  \/ Gather("chain", "positions", seen(book.risk)) /\ Works
      \/ Gather("chain", "positions", seen(0)) /\ Blind
      \/ Gather("chain", "positions", cycle.facts) /\ Fault

\* fetch_positions answers no rows when the broker fails, and their sum is 0.
ReadPositions ==
  \E pnl \in Pnls \cup {0} :
    /\ Gather("positions", "publish", [cycle.facts EXCEPT !.pnl = pnl])
    /\ \/ pnl = world.pnl /\ Works
       \/ pnl = 0 /\ Blind

\* Mutant: stamped when published.
PublishStamped ==
  /\ cycle.pc = "publish" /\ cycle' = Asleep
  /\ directive' = [Directive(cycle.facts) EXCEPT !.asof = now] /\ Works
  /\ UNCHANGED <<now, still, world, since, held, plan, book, console>>

Publish ==
  /\ cycle.pc = "publish" /\ cycle' = Asleep
  /\ \/ directive' = Directive(cycle.facts) /\ Works
     \/ directive' = directive /\ Fault
  /\ UNCHANGED <<now, still, world, since, held, plan, book, console>>

CycleDies ==
  /\ cycle.pc # "idle" /\ cycle' = Asleep
  /\ UNCHANGED <<now, still, world, since, directive, held, plan, book, console>>
  /\ Works

\* The key lives for three times ttl_sec, longer than the directive is fresh.
KeyExpires ==
  /\ directive # NoDirective /\ ~IsFresh(directive, now)
  /\ directive' = NoDirective
  /\ UNCHANGED <<now, still, world, since, cycle, held, plan, book, console>>
  /\ Works

-----------------------------------------------------------------------------
\* The tactical executor.  Between the load and the entry it tries the stops
\* (see TacticalDesk), which takes time.

Remaining == Greater(0, UtilCap - book.risk)
CanHunt   == Remaining >= MinRisk /\ book.sleeves < MaxSleeves

LoadDirective ==
  /\ held = NoDirective /\ plan = NoPlan /\ directive # NoDirective
  /\ held' = directive
  /\ UNCHANGED <<now, still, world, since, cycle, directive, plan, book, console>>
  /\ Works

\* fetch_capital answers zeros when the broker fails, and zero is no margin.
CapitalAnswers == {margin, NoMargin}

\* The book is read for the gate and for the size; unreadable, it is empty.
PlanEntry ==
  /\ held # NoDirective /\ held' = NoDirective
  /\ IF ~AllowsEntry(held, now) \/ ~world.chainLive
     THEN UNCHANGED plan /\ Works
     ELSE \/ \E capital \in CapitalAnswers :
               /\ plan' = IF CanHunt THEN EntryPlan(held, ladder, Remaining, capital)
                          ELSE NoPlan
               /\ IF capital = margin THEN Works ELSE CanHunt /\ Fault
          \/ \E budget \in {Remaining, UtilCap} :
               plan' = EntryPlan(held, ladder, budget, margin) /\ Blind
  /\ UNCHANGED <<now, still, world, since, cycle, directive, book, console>>

\* The order is accepted and booked, or refused, or the executor dies.
PlaceEntry ==
  /\ plan # NoPlan /\ plan' = NoPlan
  /\ \/ book' = [risk |-> book.risk + plan.risk, sleeves |-> book.sleeves + 1]
     \/ book' = book
  /\ UNCHANGED <<now, still, world, since, cycle, directive, held, console>>
  /\ Works

-----------------------------------------------------------------------------
\* The console

\* classify_day_outcome.  capital is 0 when it is not known.
Share(capital, tenthousandths, otherwise) ==
  IF capital > 0 THEN capital * tenthousandths ELSE otherwise * 10000

DayGrade(pnl, capital) ==
  LET p == 10000 * pnl
  IN  IF p >= Share(capital, 120, 15000) THEN "PHENOMENAL"
      ELSE IF p >= Share(capital, 20, 2000) THEN "OKAY"
      ELSE IF pnl >= 0 \/ -pnl <= 500 \/ (capital > 0 /\ -p <= 5 * capital) THEN "FLAT"
      ELSE IF -p <= Share(capital, 80, 8000) THEN "ACCEPTABLE_LOSS" ELSE "BREACH"

\* session_clock; which phase it is does not depend on anything here.
Phases == {"PRE_MARKET", "PRE_OPEN", "OPEN", "CLOSING", "CLOSED", "WEEKEND"}

\* What a fresh directive makes of the console's stance.
Advice(d) ==
  IF d.kill \/ d.stance = "FLAT" THEN "FLAT"
  ELSE IF d.stance \in {"HOLD", "REDUCE"} \/ ~d.allow THEN "OBSERVE"
  ELSE IF AllowsEntry(d, now) THEN "ENTRY" ELSE "none"

\* What the console proposes by itself: failed is the entry lock's cooldown.
OwnStances == {"FAILED", "MANAGE", "HUNT", "SKIP", "SLEEVE"}
OwnStance(failed, capital) ==
  LET pcr  == IF world.chainLive THEN market.pcr ELSE NoPcr
      side == PickSide(market.top, Bias(market.score), pcr)
      conf == IF market.conf = NoConf THEN 224 * 650 ELSE 224 * market.conf
  IN  IF failed THEN "FAILED"
      ELSE IF ~CanHunt THEN "MANAGE"
      ELSE IF ~world.chainLive THEN "HUNT"
      ELSE IF HuntPlan(ladder, side, conf, Remaining, capital) = NoPlan THEN "SKIP"
      ELSE "SLEEVE"

\* _compose_trade_decision
Stances ==
  {"BLOCKED", "SQUARE_OFF", "WAIT", "NO_CHAIN", "FLAT", "OBSERVE", "ENTRY"} \cup OwnStances
Compose(phase, failed, capital) ==
  IF console.kill THEN "BLOCKED"
  ELSE IF DayGrade(console.pnl, capital) = "BREACH" THEN "SQUARE_OFF"
  ELSE IF phase # "OPEN" THEN "WAIT"
  ELSE IF ~console.chainLive THEN "NO_CHAIN"
  ELSE IF directive # NoDirective /\ IsFresh(directive, now) /\ Advice(directive) # "none"
       THEN Advice(directive)
  ELSE OwnStance(failed, capital)

\* A render reads positions, controls and chain, and composes later.
ConsoleLoads ==
  /\ console.pc = "idle"
  /\ \E kill \in {world.kill, FALSE}, pnl \in {world.pnl, 0} :
       /\ console' = [ pc |-> "compose", kill |-> kill, pnl |-> pnl,
                       chainLive |-> world.chainLive ]
       /\ IF kill = world.kill /\ pnl = world.pnl THEN Works ELSE Fault
  /\ UNCHANGED <<now, still, world, since, cycle, directive, held, plan, book>>

\* What it says (Compose) goes to the screen and the journal, for people to read.
ConsoleComposes ==
  /\ console.pc = "compose" /\ console' = NoRender /\ Works
  /\ UNCHANGED <<now, still, world, since, cycle, directive, held, plan, book>>

-----------------------------------------------------------------------------
World == Clock \/ KillSwitch \/ PnlMoves \/ ChainStops \/ KeyExpires
Controller ==
  StartCycle \/ ReadControls \/ ReadChain \/ ReadPositions \/ Publish \/ CycleDies
Executor == LoadDirective \/ PlanEntry \/ PlaceEntry
Console  == ConsoleLoads \/ ConsoleComposes

Next == World \/ Controller \/ Executor \/ Console
Spec == Init /\ [][Next]_vars

-----------------------------------------------------------------------------
(***************************************************************************)
(* Properties                                                              *)
(***************************************************************************)

\* Type invariant.
Facts ==
  [ asof : Nat, kill : BOOLEAN, pnl : Pnls \cup {0}, chainLive : BOOLEAN, deployed : Nat,
    pcr   : {m.pcr : m \in Markets} \cup {NoPcr},
    top   : {m.top : m \in Markets} \cup {NoStrategy},
    conf  : {m.conf : m \in Markets} \cup {NoConf},
    score : {m.score : m \in Markets} \cup {0},
    volHigh : BOOLEAN, voicesRich : BOOLEAN ]
Directives ==
  [ asof : Nat, stance : {"FLAT", "HOLD", "REDUCE", "HUNT"}, side : {"CE", "PE", "NONE"},
    conf : Int, allow : BOOLEAN, kill : BOOLEAN, weight : Int ]
Plans ==
  [ strike : Int, side : {"CE", "PE"}, ltp : Nat, qty : {Lot, 2 * Lot}, weight : Int,
    risk : Nat, stop : Int, limit : Int ]

TypeOK ==
  /\ now \in Nat /\ events \in Nat /\ misread \in BOOLEAN
  /\ market \in Markets /\ ladder \in Ladders /\ margin \in Margins
  /\ world \in [kill : BOOLEAN, pnl : Pnls \cup {0}, chainLive : BOOLEAN]
  /\ since \in [kill : Nat, pnl : Nat]
  /\ cycle \in [ pc : {"idle", "controls", "chain", "positions", "publish"}, facts : Facts ]
  /\ directive \in Directives \cup {NoDirective}
  /\ held \in Directives \cup {NoDirective}
  /\ plan \in Plans \cup {NoPlan}
  /\ book \in [risk : Nat, sleeves : Nat]
  /\ console \in [ pc : {"idle", "compose"}, kill : BOOLEAN, pnl : Pnls \cup {0},
                   chainLive : BOOLEAN ]

\* However long a cycle of the controller, a tick of the executor or the gap
\* between them takes, an entry is planned at most FreshFor after a kill
\* switch was armed or the day's loss came near its limit: a directive's age
\* counts from before its facts were read.  (Unless a failed read looked
\* harmless.)
KillBoundsEntries ==
  [][ plan' # NoPlan /\ plan = NoPlan /\ ~misread' =>
        /\ world.kill => now <= since.kill + FreshFor
        /\ NearLoss(world.pnl) => now <= since.pnl + FreshFor ]_vars

\* No sleeve is planned for more of the day's loss than the confidence of the
\* top strategy grants, through the controller's limit, its way over Redis
\* where zero becomes the full weight, and back through the confidence that
\* maybe_enter derives from it.
SleeveWithinConfidence ==
  plan # NoPlan =>
    plan.weight <= (IF market.conf = NoConf THEN FullWeight ELSE WeightFor(market.conf))

\* What the sleeves of the day may lose together stays within the 70 percent
\* of the day's loss, sized one after the other from what is left.  (Unless
\* the book could not be read.)
DayRiskCap == ~misread => book.risk <= UtilCap /\ book.sleeves <= MaxSleeves

\* A sleeve bought at its limit and sold at its stop's limit loses no more
\* than the risk it was booked with and what the two buffers and their
\* roundings cost: 1.08 rupees a unit, and half a paisa.
RoundTripLoss ==
  plan # NoPlan /\ plan.stop > 50 =>
    200 * plan.qty * (plan.limit - LimitPrice(plan.stop, "SELL"))
      <= 2 * plan.risk + 200 * 108 * plan.qty + 100 * plan.qty

\* When every strike is quoted and premiums fall away from the money, the
\* strike bought is at or out of the money: one at the money that is too dear
\* never makes a dearer one fit.
Quoted == \A k \in DOMAIN ladder : ladder[k].CE > 0 /\ ladder[k].PE > 0
FallsAway ==
  \A j, k \in DOMAIN ladder :
    j < k => ladder[j].CE > ladder[k].CE /\ ladder[j].PE < ladder[k].PE
NeverInTheMoney ==
  plan # NoPlan /\ Quoted /\ FallsAway =>
    IF plan.side = "CE" THEN plan.strike >= 0 ELSE plan.strike <= 0

\* While a directive is fresh the console has no stance of its own, and it
\* speaks of an entry only if the executor, given the same directive, would
\* take one: every directive the controller can publish is one of the three
\* the console has an answer to.
OneVoice ==
  console.pc = "compose" /\ directive # NoDirective /\ IsFresh(directive, now) =>
    \A phase \in Phases, failed \in BOOLEAN, capital \in CapitalAnswers :
      LET says == Compose(phase, failed, capital)
      IN  /\ says \in Stances \ OwnStances
          /\ says = "ENTRY" => AllowsEntry(directive, now)

=============================================================================
