-------------------------- MODULE EntryDesk_proofs --------------------------
(***************************************************************************)
(* Theorems about the entry desk: type correctness, the time a kill switch *)
(* takes to stop entries, what a sleeve and a day may risk, and where a    *)
(* sleeve's strike and stop lie.                                           *)
(***************************************************************************)
EXTENDS EntryDesk, TLAPS

USE StrategicPolicyAssumption, SleeveSizingAssumption, EntryDeskAssumption

-----------------------------------------------------------------------------
\* Lemmas about the operators

LEMMA LesserGreater ==
  ASSUME NEW a \in Int, NEW b \in Int
  PROVE  /\ Lesser(a, b) \in Int /\ Greater(a, b) \in Int
         /\ Lesser(a, b) <= a /\ Lesser(a, b) <= b
         /\ Lesser(a, b) \in {a, b}
         /\ Greater(a, b) >= a /\ Greater(a, b) >= b
         /\ Greater(a, b) \in {a, b}
BY DEF Lesser, Greater

LEMMA TimesMonotone ==
  ASSUME NEW n \in Nat, NEW a \in Int, NEW b \in Int, a <= b
  PROVE  n * a <= n * b
<1>1. n * (b - a) >= 0
  <2>1. b - a \in Nat OBVIOUS
  <2> QED BY <2>1
<1> QED BY <1>1

LEMMA UtilCapNat == UtilCap \in Nat
BY DEF UtilCap, Rupee

LEMMA WeightForBound ==
  ASSUME NEW c \in Int, c >= 0
  PROVE  WeightFor(c) \in Int /\ WeightFor(c) >= 1200
BY DEF WeightFor

\* The confidence maybe_enter derives from a directive never earns more than
\* the directive's weight.
LEMMA SleeveWeightBound ==
  ASSUME NEW c \in Int, NEW w \in Int, 1200 <= w, w <= FullWeight
  PROVE  /\ SleeveWeight(Lesser(224 * c, 76 * w)) \in Int
         /\ 1200 <= SleeveWeight(Lesser(224 * c, 76 * w))
         /\ SleeveWeight(Lesser(224 * c, 76 * w)) <= w
<1> DEFINE x == Lesser(224 * c, 76 * w)
<1>1. x \in Int /\ x <= 76 * w BY DEF Lesser
<1> HIDE DEF x
<1>2. Clamp(100800, x, 212800) \in Int
      /\ 100800 <= Clamp(100800, x, 212800)
      /\ (Clamp(100800, x, 212800) <= 76 * w \/ Clamp(100800, x, 212800) = 100800)
  BY <1>1 DEF Clamp, Lesser, Greater
<1> DEFINE y == Clamp(100800, x, 212800)
<1> HIDE DEF y
<1>3. y \in Int /\ 100800 <= y /\ (y <= 76 * w \/ y = 100800) BY <1>2 DEF y
<1>4. /\ (y + 35) \div 70 - 240 \in Int
      /\ 1200 <= (y + 35) \div 70 - 240
      /\ (y + 35) \div 70 - 240 <= w
  BY <1>3 DEF FullWeight
<1> QED BY <1>4 DEF SleeveWeight, x, y

LEMMA RoundToTickBound ==
  ASSUME NEW p \in Int
  PROVE  /\ RoundToTick(p, "BUY") \in Int /\ RoundToTick(p, "SELL") \in Int
         /\ p <= RoundToTick(p, "BUY") /\ RoundToTick(p, "BUY") <= p + 4
         /\ p - 4 <= RoundToTick(p, "SELL") /\ RoundToTick(p, "SELL") <= p
BY DEF RoundToTick

LEMMA LimitPriceBound ==
  ASSUME NEW p \in Int
  PROVE  /\ LimitPrice(p, "BUY") \in Int /\ LimitPrice(p, "SELL") \in Int
         /\ LimitPrice(p, "BUY") <= p + 54
         /\ p - 54 <= LimitPrice(p, "SELL")
<1>1. p + 50 \in Int /\ p - 50 \in Int OBVIOUS
<1> QED BY <1>1, RoundToTickBound DEF LimitPrice

\* The stop is at most half a paisa below the risk it was made from.
LEMMA StopPriceBound ==
  ASSUME NEW l \in Int, NEW q \in Nat \ {0}, NEW r \in Int
  PROVE  /\ StopPrice(l, q, r) \in Int
         /\ 200 * q * StopPrice(l, q, r) > 200 * q * l - 2 * r - 100 * q
<1> DEFINE n == 200 * q
           a == n * l - 2 * r + 100 * q
<1>1. n \in Nat \ {0} OBVIOUS
<1>2. n * l \in Int BY <1>1
<1>3. a \in Int BY <1>2
<1>4. StopPrice(l, q, r) = a \div n BY DEF StopPrice
<1>5. n = 2 * (100 * q) OBVIOUS
<1> HIDE DEF n, a
<1>6. a \div n \in Int /\ n * (a \div n) > a - n
  BY <1>1, <1>3
<1>7. a - n = n * l - 2 * r - 100 * q BY <1>1, <1>2, <1>5 DEF a
<1> QED BY <1>4, <1>6, <1>7 DEF n

LEMMA LotsBound ==
  ASSUME NEW p, NEW b, NEW mg
  PROVE  Lots(p, b, mg) \in {1, 2}
BY DEF Lots

LEMMA OwnRiskNat ==
  ASSUME NEW p \in Nat, NEW n \in {1, 2}
  PROVE  StopPct * p * Lot * n \in Nat
<1>1. StopPct \in Nat OBVIOUS
<1>2. StopPct * p \in Nat BY <1>1
<1>3. (StopPct * p) * Lot \in Nat BY <1>2
<1>4. ((StopPct * p) * Lot) * n \in Nat BY <1>3
<1> QED BY <1>4

LEMMA PlannedRiskBound ==
  ASSUME NEW p \in Nat, NEW n \in {1, 2}, NEW b \in Nat
  PROVE  PlannedRisk(p, n, b) \in Nat /\ PlannedRisk(p, n, b) <= b
BY OwnRiskNat DEF PlannedRisk, Lesser

LEMMA SleeveWeightRange ==
  ASSUME NEW c \in Int
  PROVE  SleeveWeight(c) \in Int /\ 1200 <= SleeveWeight(c) /\ SleeveWeight(c) <= 2800
<1> DEFINE y == Clamp(100800, c, 212800)
<1>1. y \in Int /\ 100800 <= y /\ y <= 212800 BY DEF Clamp, Lesser, Greater
<1> HIDE DEF y
<1>2. /\ (y + 35) \div 70 - 240 \in Int
      /\ 1200 <= (y + 35) \div 70 - 240 /\ (y + 35) \div 70 - 240 <= 2800
  BY <1>1
<1> QED BY <1>2 DEF SleeveWeight, y

\* What fits at some price fits at any lower price.
LEMMA FitsMonotone ==
  ASSUME NEW p \in Nat, NEW r \in Nat, r <= p, NEW b \in Nat, NEW mg, Fits(p, b, mg)
  PROVE  Fits(r, b, mg)
<1> DEFINE own(x, n) == StopPct * x * Lot * n
<1>1. \A x \in Nat, n \in {1, 2} : own(x, n) \in Nat BY OwnRiskNat
<1>2. \A x \in Nat : own(x, 2) = 2 * own(x, 1)
      /\ own(x, 1) = StopPct * x * Lot
  <2> TAKE x \in Nat
  <2>1. StopPct * x * Lot \in Nat BY OwnRiskNat, <1>1
  <2> QED BY <2>1
<1>3. own(r, 1) <= own(p, 1)
  <2>1. StopPct \in Nat /\ Lot \in Nat OBVIOUS
  <2>2. StopPct * r <= StopPct * p BY <2>1, TimesMonotone
  <2>3. Lot * (StopPct * r) <= Lot * (StopPct * p) BY <2>1, <2>2, TimesMonotone
  <2> QED BY <2>1, <2>3
<1>4. 8 * r * Lot <= 8 * p * Lot
  <2>1. Lot * (8 * r) <= Lot * (8 * p) BY TimesMonotone
  <2> QED BY <2>1
<1>5. b >= MinRisk BY DEF Fits
<1>6. CASE Lots(r, b, mg) = 2
  <2>1. 2 * own(r, 1) <= b BY <1>6, <1>2 DEF Lots
  <2>2. own(r, 2) <= b BY <2>1, <1>2
  <2> QED BY <1>1, <1>5, <1>6, <2>2 DEF Fits, PlannedRisk, Lesser
<1>7. CASE Lots(r, b, mg) = 1
  <2>1. CASE own(r, 1) <= b
    BY <1>1, <1>5, <1>7, <2>1 DEF Fits, PlannedRisk, Lesser
  <2>2. CASE own(r, 1) > b
    <3>1. own(p, 1) > b BY <1>1, <1>3, <2>2
    <3>2. Lots(p, b, mg) = 1 BY <1>1, <1>2, <3>1 DEF Lots
    <3>3. b >= 8 * p * Lot * 1
      BY <1>1, <3>1, <3>2 DEF Fits, PlannedRisk, Lesser
    <3>4. b >= 8 * r * Lot * 1 BY <3>3, <1>4
    <3>5. PlannedRisk(r, 1, b) = b BY <1>1, <2>2 DEF PlannedRisk, Lesser
    <3> QED BY <1>5, <1>7, <3>4, <3>5 DEF Fits
  <2> QED BY <1>1, <2>1, <2>2
<1> QED BY <1>6, <1>7, LotsBound

LEMMA QuoteNat ==
  ASSUME NEW l \in Ladders, NEW side \in {"CE", "PE"}, NEW k \in DOMAIN l
  PROVE  l[k][side] \in Nat /\ k \in Int
<1>1. CASE side = "CE" BY <1>1
<1>2. CASE side = "PE" BY <1>2
<1> QED BY <1>1, <1>2

\* What a hunt plan says of its own size, price and place.
Consistent(pl, l, rem) ==
  /\ pl \in Plans
  /\ pl.risk <= rem
  /\ pl.limit = LimitPrice(pl.ltp, "BUY")
  /\ pl.stop = StopPrice(pl.ltp, pl.qty, pl.risk)
  /\ pl.strike \in DOMAIN l
  /\ l[pl.strike][pl.side] > 0
  /\ \E b \in Nat, mg \in Nat :
       /\ Fits(l[pl.strike][pl.side], b, mg)
       /\ \A j \in DOMAIN l :
            l[j][pl.side] > 0 /\ Fits(l[j][pl.side], b, mg)
              => j = pl.strike \/ Earlier(pl.side, pl.strike, j)

LEMMA HuntPlanConsistent ==
  ASSUME NEW l \in Ladders, NEW side \in {"CE", "PE"}, NEW c \in Int,
         NEW rem \in Nat, NEW mg \in Nat,
         HuntPlan(l, side, c, rem, mg) # NoPlan
  PROVE  /\ Consistent(HuntPlan(l, side, c, rem, mg), l, rem)
         /\ HuntPlan(l, side, c, rem, mg).weight = SleeveWeight(c)
<1> DEFINE w == SleeveWeight(c)
           b == Lesser(rem, MaxDailyLoss * w)
           first == FirstFit(l, side, b, mg)
           k == CHOOSE k \in first : TRUE
<1>1. w \in Int /\ w >= 1200 BY SleeveWeightRange
<1>2. MaxDailyLoss * w \in Nat
  <2> HIDE DEF w
  <2>1. w \in Nat BY <1>1
  <2> QED BY <2>1
<1>3. b \in Nat /\ b <= rem
  <2> HIDE DEF w
  <2> QED BY <1>2 DEF Lesser
<1>4. first # {} BY DEF HuntPlan
<1>5. HuntPlan(l, side, c, rem, mg) = Sized(k, side, l[k][side], w, b, mg)
  BY <1>4 DEF HuntPlan
<1>6. k \in first BY <1>4
<1> HIDE DEF w, b, k
<1>7. /\ k \in DOMAIN l /\ l[k][side] > 0 /\ Fits(l[k][side], b, mg)
      /\ \A j \in DOMAIN l :
           l[j][side] > 0 /\ Fits(l[j][side], b, mg) => j = k \/ Earlier(side, k, j)
  BY <1>6 DEF FirstFit, Candidates
<1> DEFINE p == l[k][side]
           n == Lots(p, b, mg)
           risk == PlannedRisk(p, n, b)
           pl == Sized(k, side, p, w, b, mg)
<1>8. p \in Nat /\ k \in Int BY <1>7, QuoteNat
<1>9. n \in {1, 2} BY LotsBound
<1> HIDE DEF p, n
<1>10. risk \in Nat /\ risk <= b BY <1>3, <1>8, <1>9, PlannedRiskBound
<1>11. n * Lot \in {Lot, 2 * Lot} /\ n * Lot \in Nat \ {0} BY <1>9
<1> HIDE DEF risk
<1>12. StopPrice(p, n * Lot, risk) \in Int
  <2>1. \A q \in Nat \ {0} : StopPrice(p, q, risk) \in Int
    <3>1. p \in Int /\ risk \in Int BY <1>8, <1>10
    <3> QED BY <3>1, StopPriceBound
  <2> QED BY <1>11, <2>1
<1>13. LimitPrice(p, "BUY") \in Int BY <1>8, LimitPriceBound
<1>14. pl = [ strike |-> k, side |-> side, ltp |-> p, qty |-> n * Lot, weight |-> w,
              risk |-> risk, stop |-> StopPrice(p, n * Lot, risk),
              limit |-> LimitPrice(p, "BUY") ]
  BY DEF Sized, n, risk
<1>15. pl \in Plans
  BY <1>1, <1>8, <1>10, <1>11, <1>12, <1>13, <1>14 DEF Plans
<1> HIDE DEF pl
<1>16. /\ pl.risk <= rem /\ pl.limit = LimitPrice(pl.ltp, "BUY")
       /\ pl.stop = StopPrice(pl.ltp, pl.qty, pl.risk)
       /\ pl.strike = k /\ pl.side = side /\ pl.weight = w
  BY <1>3, <1>10, <1>14
<1>17. Consistent(pl, l, rem)
  BY <1>3, <1>7, <1>15, <1>16 DEF Consistent
<1>18. HuntPlan(l, side, c, rem, mg) = pl BY <1>5 DEF p, pl
<1> QED BY <1>16, <1>17, <1>18 DEF w

\* Under a directive that grants a weight the entry plan is the hunt plan.
LEMMA EntryPlanConsistent ==
  ASSUME NEW d \in Directives, d.side \in {"CE", "PE"},
         1200 <= d.weight, d.weight <= FullWeight,
         NEW l \in Ladders, NEW rem \in Nat, NEW mg \in Nat,
         EntryPlan(d, l, rem, mg) # NoPlan
  PROVE  /\ Consistent(EntryPlan(d, l, rem, mg), l, rem)
         /\ EntryPlan(d, l, rem, mg).weight <= d.weight
<1> DEFINE c == EntryConfidence(d)
           pl == HuntPlan(l, d.side, c, rem, mg)
<1>1. d.weight \in Int /\ d.conf \in Int BY DEF Directives
<1>2. c \in Int BY <1>1 DEF EntryConfidence, Lesser
<1>3. SleeveWeight(c) <= d.weight BY <1>1, SleeveWeightBound DEF EntryConfidence
<1> HIDE DEF c
<1>4. pl # NoPlan BY DEF EntryPlan, c
<1>5. Consistent(pl, l, rem) /\ pl.weight = SleeveWeight(c)
  BY <1>2, <1>4, HuntPlanConsistent
<1>6. EntryPlan(d, l, rem, mg) = pl BY <1>3, <1>4, <1>5 DEF EntryPlan, c
<1> QED BY <1>3, <1>5, <1>6

-----------------------------------------------------------------------------
\* What a published directive says of the facts it was made from

Grant(conf) == IF conf = NoConf THEN FullWeight ELSE WeightFor(conf)

LEMMA PnlsInt == \A p \in Pnls \cup {0} : p \in Int
OBVIOUS

LEMMA FactsTyped ==
  ASSUME NEW f \in Facts
  PROVE  /\ f.asof \in Nat /\ f.kill \in BOOLEAN /\ f.pnl \in Int /\ f.chainLive \in BOOLEAN
         /\ f.deployed \in Nat /\ f.conf \in Int /\ f.conf >= NoConf
<1>1. f.pnl \in Pnls \cup {0} BY DEF Facts
<1>2. f.conf \in {m.conf : m \in Markets} \cup {NoConf} BY DEF Facts
<1>3. f.conf \in Int /\ f.conf >= NoConf BY <1>2 DEF NoConf
<1>4. f.asof \in Nat /\ f.deployed \in Nat BY DEF Facts
<1>5. f.kill \in BOOLEAN /\ f.chainLive \in BOOLEAN BY DEF Facts
<1>6. f.pnl \in Int BY <1>1, PnlsInt
<1> QED BY <1>3, <1>4, <1>5, <1>6

LEMMA RiskLimitsTyped ==
  ASSUME NEW f \in Facts
  PROVE  /\ RiskLimits(f).allow \in BOOLEAN
         /\ RiskLimits(f).kill \in BOOLEAN
         /\ RiskLimits(f).weight \in Int
         /\ RiskLimits(f).allow =>
              /\ ~f.kill /\ ~NearLoss(f.pnl) /\ f.chainLive
              /\ ~RiskLimits(f).kill
              /\ 1200 <= RiskLimits(f).weight /\ RiskLimits(f).weight <= FullWeight
              /\ RiskLimits(f).weight <= Grant(f.conf)
<1>1. f.conf # NoConf => WeightFor(f.conf) \in Int /\ WeightFor(f.conf) >= 1200
  BY FactsTyped, WeightForBound DEF NoConf
<1>2. NearLoss(f.pnl) \in BOOLEAN /\ Loss(f.pnl) \in BOOLEAN /\ Spent(f) \in BOOLEAN
  BY DEF NearLoss, Loss, Spent
<1>3. BaseWeight(f) \in Int BY DEF BaseWeight, FullWeight
<1>4. ~NearLoss(f.pnl) => ~Loss(f.pnl) BY FactsTyped DEF NearLoss, Loss
<1>5. ~f.kill /\ ~NearLoss(f.pnl) /\ f.chainLive => BaseWeight(f) = FullWeight
  BY <1>4 DEF BaseWeight
<1>6. RiskLimits(f).weight = IF f.conf = NoConf THEN BaseWeight(f)
                             ELSE Lesser(BaseWeight(f), WeightFor(f.conf))
  BY DEF RiskLimits
<1>7. /\ RiskLimits(f).allow = (~f.kill /\ ~NearLoss(f.pnl) /\ ~Spent(f) /\ f.chainLive)
      /\ RiskLimits(f).kill = (f.kill \/ Loss(f.pnl))
  BY DEF RiskLimits
<1>8. RiskLimits(f).weight \in Int BY <1>1, <1>3, <1>6, LesserGreater
<1>9. ASSUME RiskLimits(f).allow
      PROVE  /\ 1200 <= RiskLimits(f).weight /\ RiskLimits(f).weight <= FullWeight
             /\ RiskLimits(f).weight <= Grant(f.conf)
  <2>1. BaseWeight(f) = FullWeight BY <1>5, <1>7, <1>9
  <2> QED BY <1>1, <1>6, <2>1 DEF Grant, Lesser, FullWeight
<1> QED BY <1>2, <1>4, <1>7, <1>8, <1>9, FactsTyped

LEMMA DirectiveSound ==
  ASSUME NEW f \in Facts
  PROVE  /\ Directive(f) \in Directives
         /\ Directive(f).asof = f.asof
         /\ Directive(f).allow =>
              /\ ~f.kill /\ ~NearLoss(f.pnl) /\ f.chainLive
              /\ 1200 <= Directive(f).weight /\ Directive(f).weight <= FullWeight
              /\ Directive(f).weight <= Grant(f.conf)
         /\ Directive(f).stance = "HUNT" =>
              Directive(f).side \in {"CE", "PE"} /\ Directive(f).allow /\ ~Directive(f).kill
<1> DEFINE risk == RiskLimits(f)
<1>1. Stance(f) \in {"FLAT", "HOLD", "REDUCE", "HUNT"}
      /\ (Stance(f) = "HUNT" => risk.allow /\ ~risk.kill)
  BY DEF Stance
<1>2. PreferredSide(f) \in {"CE", "PE"} BY DEF PreferredSide
<1>3. StanceConfidence(f) \in Int BY FactsTyped DEF StanceConfidence
<1> HIDE DEF risk
<1>4. ReadBack(risk.weight) \in Int /\ (risk.weight >= 1200 => ReadBack(risk.weight) = risk.weight)
  BY RiskLimitsTyped DEF ReadBack, FullWeight, risk
<1>5. Directive(f) = [ asof |-> f.asof, stance |-> Stance(f),
                       side |-> IF Stance(f) = "HUNT" THEN PreferredSide(f) ELSE "NONE",
                       conf |-> StanceConfidence(f), allow |-> risk.allow,
                       kill |-> risk.kill, weight |-> ReadBack(risk.weight) ]
  BY DEF Directive, risk
<1>6. Directive(f) \in Directives
  BY <1>1, <1>2, <1>3, <1>4, <1>5, FactsTyped, RiskLimitsTyped DEF Directives, risk
<1>7. ASSUME Directive(f).allow
      PROVE  /\ ~f.kill /\ ~NearLoss(f.pnl) /\ f.chainLive
             /\ 1200 <= Directive(f).weight /\ Directive(f).weight <= FullWeight
             /\ Directive(f).weight <= Grant(f.conf)
  BY <1>4, <1>5, <1>7, RiskLimitsTyped DEF risk
<1>8. Directive(f).stance = "HUNT" =>
        Directive(f).side \in {"CE", "PE"} /\ Directive(f).allow /\ ~Directive(f).kill
  BY <1>1, <1>2, <1>5
<1> QED BY <1>5, <1>6, <1>7, <1>8

-----------------------------------------------------------------------------
\* The inductive invariant

\* What a cycle has read so far is no older than it claims: its stamp is from
\* before the kill switch was armed, or the loss came near, if it missed it.
FactsInv ==
  /\ cycle.facts.asof <= now
  /\ cycle.facts.chainLive => cycle.facts.conf = market.conf
  /\ ~misread =>
       /\ cycle.pc \in {"chain", "positions", "publish"} /\ ~cycle.facts.kill /\ world.kill
            => cycle.facts.asof <= since.kill
       /\ cycle.pc = "publish" /\ ~NearLoss(cycle.facts.pnl) /\ NearLoss(world.pnl)
            => cycle.facts.asof <= since.pnl

\* The same of a directive that allows entry.
Honest(d) ==
  d # NoDirective =>
    /\ d.asof <= now
    /\ ~misread /\ d.allow =>
         /\ world.kill => d.asof <= since.kill
         /\ NearLoss(world.pnl) => d.asof <= since.pnl

\* What a directive grants.
Entitled(d) ==
  d # NoDirective =>
    /\ d.allow => /\ 1200 <= d.weight /\ d.weight <= FullWeight
                  /\ d.weight <= Grant(market.conf)
    /\ d.stance = "HUNT" => d.side \in {"CE", "PE"} /\ d.allow /\ ~d.kill

PlanInv ==
  plan # NoPlan => Consistent(plan, ladder, UtilCap) /\ plan.weight <= Grant(market.conf)

BookInv ==
  ~misread =>
    /\ book.sleeves <= MaxSleeves /\ book.risk <= UtilCap
    /\ plan # NoPlan => book.sleeves < MaxSleeves /\ book.risk + plan.risk <= UtilCap

IInv ==
  /\ TypeOK /\ FactsInv
  /\ Honest(directive) /\ Honest(held) /\ Entitled(directive) /\ Entitled(held)
  /\ PlanInv /\ BookInv

LEMMA BlankTyped == Blank \in Facts /\ Blank.asof = 0 /\ Blank.chainLive = FALSE
BY DEF Blank, Facts, NoStrategy

LEMMA InitIInv == Init => IInv
<1> SUFFICES ASSUME Init PROVE IInv OBVIOUS
<1>1. TypeOK BY BlankTyped DEF Init, TypeOK, Asleep, NoRender
<1>2. FactsInv BY BlankTyped DEF Init, FactsInv, Asleep
<1>3. Honest(directive) /\ Honest(held) /\ Entitled(directive) /\ Entitled(held)
  BY DEF Init, Honest, Entitled
<1>4. PlanInv BY DEF Init, PlanInv
<1>5. BookInv BY UtilCapNat DEF Init, BookInv
<1> QED BY <1>1, <1>2, <1>3, <1>4, <1>5 DEF IInv

\* One part of the facts is filled in at a time.
LEMMA FactsStarted ==
  ASSUME NEW t \in Nat, NEW mk \in Markets,
         NEW g, g = [ Blank EXCEPT !.asof = t, !.score = mk.score,
                                   !.volHigh = mk.volHigh, !.voicesRich = mk.voicesRich ]
  PROVE  g \in Facts /\ g.asof = t /\ g.chainLive = FALSE
<1>1. mk.volHigh \in BOOLEAN /\ mk.voicesRich \in BOOLEAN BY EntryDeskAssumption
<1>2. PICK x : x = mk.score /\ x \in {m.score : m \in Markets} \cup {0} OBVIOUS
<1>3. PICK v, w : v = mk.volHigh /\ w = mk.voicesRich OBVIOUS
<1>4. v \in BOOLEAN /\ w \in BOOLEAN BY <1>1, <1>3
<1>5. PICK f : f = Blank OBVIOUS
<1>6. f \in Facts /\ f.chainLive = FALSE BY <1>5, BlankTyped
<1>7. g = [f EXCEPT !.asof = t, !.score = x, !.volHigh = v, !.voicesRich = w]
  BY <1>2, <1>3, <1>5
<1> HIDE <1>1, <1>3, <1>5
<1>8. g \in Facts /\ g.asof = t /\ g.chainLive = f.chainLive
  BY ONLY <1>2, <1>4, <1>6, <1>7, t \in Nat DEF Facts
<1> QED BY <1>6, <1>8

LEMMA FactsWithKill ==
  ASSUME NEW f \in Facts, NEW k \in BOOLEAN, NEW g, g = [f EXCEPT !.kill = k]
  PROVE  /\ g \in Facts /\ g.asof = f.asof /\ g.kill = k
         /\ g.chainLive = f.chainLive /\ g.conf = f.conf
BY DEF Facts

LEMMA FactsWithPnl ==
  ASSUME NEW f \in Facts, NEW p \in Pnls \cup {0}, NEW g, g = [f EXCEPT !.pnl = p]
  PROVE  /\ g \in Facts /\ g.asof = f.asof /\ g.kill = f.kill /\ g.pnl = p
         /\ g.chainLive = f.chainLive /\ g.conf = f.conf
BY DEF Facts

LEMMA Typed ==
  ASSUME TypeOK
  PROVE  /\ now \in Nat /\ events \in Nat /\ market \in Markets /\ ladder \in Ladders
         /\ margin \in Nat
         /\ since.kill \in Nat /\ since.pnl \in Nat
         /\ world.kill \in BOOLEAN /\ world.chainLive \in BOOLEAN
         /\ world.pnl \in Pnls \cup {0}
         /\ cycle = [pc |-> cycle.pc, facts |-> cycle.facts]
         /\ cycle.facts \in Facts /\ cycle.facts.asof \in Nat
         /\ directive # NoDirective => directive \in Directives /\ directive.asof \in Nat
         /\ held # NoDirective => held \in Directives /\ held.asof \in Nat
         /\ plan # NoPlan => plan \in Plans /\ plan.risk \in Nat
         /\ book.risk \in Nat /\ book.sleeves \in Nat
         /\ book = [risk |-> book.risk, sleeves |-> book.sleeves]
<1>1. now \in Nat /\ events \in Nat /\ market \in Markets /\ ladder \in Ladders
      /\ margin \in Nat
  BY DEF TypeOK
<1>2. since.kill \in Nat /\ since.pnl \in Nat BY DEF TypeOK
<1>3. /\ world.kill \in BOOLEAN /\ world.chainLive \in BOOLEAN
      /\ world.pnl \in Pnls \cup {0}
  BY DEF TypeOK
<1>4. cycle.facts \in Facts /\ cycle = [pc |-> cycle.pc, facts |-> cycle.facts] BY DEF TypeOK
<1>5. cycle.facts.asof \in Nat BY <1>4, FactsTyped
<1>6. /\ directive # NoDirective => directive \in Directives
      /\ held # NoDirective => held \in Directives
  BY DEF TypeOK
<1>7. \A d \in Directives : d.asof \in Nat BY DEF Directives
<1>8. plan # NoPlan => plan \in Plans BY DEF TypeOK
<1>9. \A pl \in Plans : pl.risk \in Nat BY DEF Plans
<1>10. /\ book.risk \in Nat /\ book.sleeves \in Nat
       /\ book = [risk |-> book.risk, sleeves |-> book.sleeves]
  BY DEF TypeOK
<1> QED BY <1>1, <1>2, <1>3, <1>4, <1>5, <1>6, <1>7, <1>8, <1>9, <1>10

\* A step of the executor's plan: none, the one there was, or one sized for
\* a directive that grants it.
LEMMA PlanEntryStep ==
  ASSUME IInv, PlanEntry
  PROVE  \/ plan' \in {NoPlan, plan}
         \/ /\ AllowsEntry(held, now)
            /\ Consistent(plan', ladder, UtilCap) /\ plan'.weight <= Grant(market.conf)
            /\ ~misread' => CanHunt /\ plan'.risk <= Remaining
<1>1. TypeOK /\ Entitled(held) BY DEF IInv
<1>2. SUFFICES ASSUME plan' # NoPlan, plan' # plan
      PROVE  /\ AllowsEntry(held, now)
             /\ Consistent(plan', ladder, UtilCap) /\ plan'.weight <= Grant(market.conf)
             /\ ~misread' => CanHunt /\ plan'.risk <= Remaining
  OBVIOUS
<1>3. held \in Directives BY <1>1, Typed DEF PlanEntry
<1>4. AllowsEntry(held, now) BY <1>2 DEF PlanEntry
<1>5. /\ held.side \in {"CE", "PE"} /\ held.stance = "HUNT" /\ held.allow BY <1>4 DEF AllowsEntry
<1>6. 1200 <= held.weight /\ held.weight <= FullWeight /\ held.weight <= Grant(market.conf)
  BY <1>1, <1>5 DEF Entitled, PlanEntry
<1>7. Remaining \in Nat /\ Remaining <= UtilCap
  BY <1>1, Typed, UtilCapNat DEF Remaining, Greater
<1>8. margin \in Nat /\ NoMargin \in Nat BY <1>1, Typed DEF NoMargin
<1>9. PICK b \in {Remaining, UtilCap}, mg \in {margin, NoMargin} :
        /\ plan' = EntryPlan(held, ladder, b, mg)
        /\ ~misread' => CanHunt /\ b = Remaining
  BY <1>2, <1>4 DEF PlanEntry, CapitalAnswers, Works, Fault, Blind, Event
<1>10. b \in Nat /\ b <= UtilCap /\ mg \in Nat BY <1>7, <1>8, UtilCapNat
<1>11. ladder \in Ladders BY <1>1, Typed
<1>12. Consistent(plan', ladder, b) /\ plan'.weight <= held.weight
  BY <1>2, <1>3, <1>5, <1>6, <1>9, <1>10, <1>11, EntryPlanConsistent
<1>13. plan'.risk \in Int /\ plan'.weight \in Int BY <1>12 DEF Consistent, Plans
<1>14. Consistent(plan', ladder, UtilCap)
  BY <1>10, <1>12, <1>13, UtilCapNat DEF Consistent
<1>15. held.weight \in Int BY <1>3 DEF Directives
<1>16. Grant(market.conf) \in Int
  <2>1. market.conf \in Int /\ market.conf >= NoConf BY <1>1, EntryDeskAssumption DEF TypeOK
  <2> QED BY <2>1 DEF Grant, WeightFor, FullWeight
<1>17. plan'.weight <= Grant(market.conf) BY <1>6, <1>12, <1>13, <1>15, <1>16
<1>18. ~misread' => CanHunt /\ plan'.risk <= Remaining BY <1>9, <1>12 DEF Consistent
<1> QED BY <1>4, <1>14, <1>17, <1>18

LEMMA Reported ==
  ASSUME TypeOK, Works \/ Fault \/ Blind
  PROVE  (misread' \in BOOLEAN) /\ (misread => misread') /\ events' \in Nat
<1>1. misread' \in BOOLEAN /\ (misread => misread')
  BY Zenon DEF TypeOK, Works, Fault, Blind
<1>2. events' \in Nat BY DEF TypeOK, Works, Fault, Blind, Event
<1> QED BY <1>1, <1>2

\* The steps of the world, of the controller, of the executor and of the
\* console each preserve the invariant.
LEMMA WorldIInv ==
  ASSUME IInv, World
  PROVE  IInv'
<1>0. /\ TypeOK /\ FactsInv /\ PlanInv /\ BookInv
      /\ Honest(directive) /\ Honest(held) /\ Entitled(directive) /\ Entitled(held)
  BY DEF IInv
<1>1. CASE Clock
  <2>1. TypeOK'
    BY <1>0, <1>1 DEF Clock, still, desk, Works, Fault, Blind, Event, TypeOK
  <2>2. FactsInv'
    BY <1>0, <1>1, Typed DEF Clock, still, desk, Works, Fault, Blind, Event, FactsInv
  <2>3. Honest(directive)' /\ Honest(held)'
    BY <1>0, <1>1, Typed DEF Clock, still, desk, Works, Fault, Blind, Event, Honest
  <2>4. Entitled(directive)' /\ Entitled(held)'
    BY <1>0, <1>1 DEF Clock, still, desk, Works, Fault, Blind, Event, Entitled
  <2>5. PlanInv' /\ BookInv'
    BY <1>0, <1>1 DEF Clock, still, desk, Works, Fault, Blind, Event, PlanInv, BookInv
  <2> QED BY <2>1, <2>2, <2>3, <2>4, <2>5 DEF IInv
<1>2. CASE KillSwitch
  <2>a. /\ world' \in [kill : BOOLEAN, pnl : Pnls \cup {0}, chainLive : BOOLEAN]
        /\ since' \in [kill : Nat, pnl : Nat]
    BY <1>0, <1>2 DEF KillSwitch, TypeOK
  <2>b. /\ world'.kill = ~world.kill /\ world'.pnl = world.pnl
        /\ since'.kill = (IF world.kill THEN 0 ELSE now) /\ since'.pnl = since.pnl
    BY <1>0, <1>2 DEF KillSwitch, TypeOK
  <2>c. UNCHANGED <<now, market, cycle, directive, held, misread>>
    BY <1>2 DEF KillSwitch, still, desk
  <2>1. TypeOK'
    BY <1>0, <1>2, <2>a DEF KillSwitch, still, desk, Works, Fault, Blind, Event, TypeOK
  <2>2. FactsInv'
    BY <1>0, <2>b, <2>c, Typed DEF FactsInv
  <2>3. Honest(directive)' /\ Honest(held)'
    BY <1>0, <2>b, <2>c, Typed DEF Honest
  <2>4. Entitled(directive)' /\ Entitled(held)'
    BY <1>0, <1>2 DEF KillSwitch, still, desk, Works, Fault, Blind, Event, Entitled
  <2>5. PlanInv' /\ BookInv'
    BY <1>0, <1>2 DEF KillSwitch, still, desk, Works, Fault, Blind, Event, PlanInv, BookInv
  <2> QED BY <2>1, <2>2, <2>3, <2>4, <2>5 DEF IInv
<1>3. CASE PnlMoves
  <2>1. TypeOK'
    BY <1>0, <1>3 DEF PnlMoves, still, desk, Works, Fault, Blind, Event, TypeOK
  <2>2. FactsInv'
    BY <1>0, <1>3, Typed DEF PnlMoves, still, desk, Works, Fault, Blind, Event, FactsInv
  <2>3. Honest(directive)' /\ Honest(held)'
    BY <1>0, <1>3, Typed DEF PnlMoves, still, desk, Works, Fault, Blind, Event, Honest
  <2>4. Entitled(directive)' /\ Entitled(held)'
    BY <1>0, <1>3 DEF PnlMoves, still, desk, Works, Fault, Blind, Event, Entitled
  <2>5. PlanInv' /\ BookInv'
    BY <1>0, <1>3 DEF PnlMoves, still, desk, Works, Fault, Blind, Event, PlanInv, BookInv
  <2> QED BY <2>1, <2>2, <2>3, <2>4, <2>5 DEF IInv
<1>4. CASE ChainStops
  <2>a. world' \in [kill : BOOLEAN, pnl : Pnls \cup {0}, chainLive : BOOLEAN]
    BY <1>0, <1>4 DEF ChainStops, TypeOK
  <2>1. TypeOK'
    BY <1>0, <1>4, <2>a DEF ChainStops, still, desk, Works, Fault, Blind, Event, TypeOK
  <2>2. FactsInv'
    BY <1>0, <1>4, Typed DEF ChainStops, still, desk, Works, Fault, Blind, Event, FactsInv
  <2>3. Honest(directive)' /\ Honest(held)'
    BY <1>0, <1>4, Typed DEF ChainStops, still, desk, Works, Fault, Blind, Event, Honest
  <2>4. Entitled(directive)' /\ Entitled(held)'
    BY <1>0, <1>4 DEF ChainStops, still, desk, Works, Fault, Blind, Event, Entitled
  <2>5. PlanInv' /\ BookInv'
    BY <1>0, <1>4 DEF ChainStops, still, desk, Works, Fault, Blind, Event, PlanInv, BookInv
  <2> QED BY <2>1, <2>2, <2>3, <2>4, <2>5 DEF IInv
<1>5. CASE KeyExpires
  <2>1. TypeOK'
    BY <1>0, <1>5 DEF KeyExpires, still, desk, Works, Fault, Blind, Event, TypeOK
  <2>2. FactsInv'
    BY <1>0, <1>5, Typed DEF KeyExpires, still, desk, Works, Fault, Blind, Event, FactsInv
  <2>3. Honest(directive)' /\ Honest(held)'
    BY <1>0, <1>5, Typed DEF KeyExpires, still, desk, Works, Fault, Blind, Event, Honest
  <2>4. Entitled(directive)' /\ Entitled(held)'
    BY <1>0, <1>5 DEF KeyExpires, still, desk, Works, Fault, Blind, Event, Entitled
  <2>5. PlanInv' /\ BookInv'
    BY <1>0, <1>5 DEF KeyExpires, still, desk, Works, Fault, Blind, Event, PlanInv, BookInv
  <2> QED BY <2>1, <2>2, <2>3, <2>4, <2>5 DEF IInv
<1> QED BY <1>1, <1>2, <1>3, <1>4, <1>5 DEF World

LEMMA ControllerIInv ==
  ASSUME IInv, Controller
  PROVE  IInv'
<1>0. /\ TypeOK /\ FactsInv /\ PlanInv /\ BookInv
      /\ Honest(directive) /\ Honest(held) /\ Entitled(directive) /\ Entitled(held)
  BY DEF IInv
<1>1. CASE StartCycle
  <2>a. /\ cycle'.facts \in Facts /\ cycle' = [pc |-> "controls", facts |-> cycle'.facts]
        /\ cycle'.facts.asof = now /\ ~cycle'.facts.chainLive
    BY <1>0, <1>1, Typed, FactsStarted DEF StartCycle, Gather
  <2>b. UNCHANGED <<now, still, world, since, directive, held, plan, book, console>>
    BY <1>1 DEF StartCycle, Gather
  <2>c. Works \/ Fault \/ Blind BY <1>1 DEF StartCycle, Gather
  <2>d. (misread' \in BOOLEAN) /\ events' \in Nat BY <1>0, <2>c, Reported
  <2>1. TypeOK'
    BY <1>0, <2>a, <2>b, <2>d DEF TypeOK, still
  <2>2. FactsInv'
    BY <1>0, <1>1, <2>a, Typed DEF StartCycle, Gather, still, desk, Works, Fault, Blind, Event, FactsInv
  <2>3. Honest(directive)' /\ Honest(held)'
    BY <1>0, <1>1, Typed DEF StartCycle, Gather, still, desk, Works, Fault, Blind, Event, Honest
  <2>4. Entitled(directive)' /\ Entitled(held)'
    BY <1>0, <1>1 DEF StartCycle, Gather, still, desk, Works, Fault, Blind, Event, Entitled
  <2>5. PlanInv' /\ BookInv'
    BY <1>0, <1>1 DEF StartCycle, Gather, still, desk, Works, Fault, Blind, Event, PlanInv, BookInv
  <2> QED BY <2>1, <2>2, <2>3, <2>4, <2>5 DEF IInv
<1>2. CASE ReadControls
  <2>a. /\ cycle'.facts \in Facts /\ cycle' = [pc |-> "chain", facts |-> cycle'.facts]
        /\ cycle'.facts.asof = cycle.facts.asof
        /\ cycle'.facts.chainLive = cycle.facts.chainLive
        /\ cycle'.facts.conf = cycle.facts.conf
        /\ ~misread' => cycle'.facts.kill = world.kill
    BY <1>0, <1>2, Typed, FactsWithKill DEF ReadControls, Gather, Works, Blind
  <2>b. UNCHANGED <<now, still, world, since, directive, held, plan, book, console>>
    BY <1>2 DEF ReadControls, Gather
  <2>c. Works \/ Fault \/ Blind BY <1>2 DEF ReadControls, Gather
  <2>d. (misread' \in BOOLEAN) /\ events' \in Nat BY <1>0, <2>c, Reported
  <2>1. TypeOK'
    BY <1>0, <2>a, <2>b, <2>d DEF TypeOK, still
  <2>2. FactsInv'
    BY <1>0, <1>2, <2>a, Typed DEF ReadControls, Gather, still, desk, Works, Fault, Blind, Event, FactsInv
  <2>3. Honest(directive)' /\ Honest(held)'
    BY <1>0, <1>2, Typed DEF ReadControls, Gather, still, desk, Works, Fault, Blind, Event, Honest
  <2>4. Entitled(directive)' /\ Entitled(held)'
    BY <1>0, <1>2 DEF ReadControls, Gather, still, desk, Works, Fault, Blind, Event, Entitled
  <2>5. PlanInv' /\ BookInv'
    BY <1>0, <1>2 DEF ReadControls, Gather, still, desk, Works, Fault, Blind, Event, PlanInv, BookInv
  <2> QED BY <2>1, <2>2, <2>3, <2>4, <2>5 DEF IInv
<1>3. CASE ReadChain
  <2>a. /\ cycle'.facts \in Facts /\ cycle' = [pc |-> "positions", facts |-> cycle'.facts]
        /\ cycle'.facts.asof = cycle.facts.asof
        /\ cycle'.facts.kill = cycle.facts.kill
        /\ cycle'.facts \in {cycle.facts} \/ cycle'.facts.conf = market.conf
    <3>1. cycle' = [pc |-> "positions", facts |-> cycle'.facts]
      BY <1>3 DEF ReadChain, Gather
    <3>2. CASE cycle'.facts = cycle.facts BY <1>0, <3>1, <3>2, Typed
    <3>3. ASSUME NEW n \in {book.risk, 0},
                 cycle'.facts = [ cycle.facts EXCEPT
                   !.chainLive = world.chainLive,
                   !.pcr = IF world.chainLive THEN market.pcr ELSE NoPcr,
                   !.deployed = n, !.top = market.top, !.conf = market.conf ]
          PROVE  /\ cycle'.facts \in Facts /\ cycle'.facts.asof = cycle.facts.asof
                 /\ cycle'.facts.kill = cycle.facts.kill
                 /\ cycle'.facts.conf = market.conf
      <4>1. n \in Nat /\ market \in Markets BY <1>0, Typed
      <4>2. cycle.facts \in Facts /\ world.chainLive \in BOOLEAN BY <1>0, Typed
      <4>3. PICK f, c, mk : f = cycle.facts /\ c = world.chainLive /\ mk = market OBVIOUS
      <4>4. f \in Facts /\ c \in BOOLEAN /\ mk \in Markets BY <4>1, <4>2, <4>3
      <4>5. PICK g : g = cycle'.facts OBVIOUS
      <4>6. g = [ f EXCEPT !.chainLive = c, !.pcr = IF c THEN mk.pcr ELSE NoPcr,
                           !.deployed = n, !.top = mk.top, !.conf = mk.conf ]
        BY <3>3, <4>3, <4>5
      <4>7. /\ g \in Facts /\ g.asof = f.asof /\ g.kill = f.kill /\ g.conf = mk.conf
        BY ONLY <4>1, <4>4, <4>6 DEF Facts
      <4> QED BY <4>3, <4>5, <4>7
    <3> QED BY <1>3, <3>1, <3>2, <3>3 DEF ReadChain, Gather
  <2>b. UNCHANGED <<now, still, world, since, directive, held, plan, book, console>>
    BY <1>3 DEF ReadChain, Gather
  <2>c. Works \/ Fault \/ Blind BY <1>3 DEF ReadChain, Gather
  <2>d. (misread' \in BOOLEAN) /\ events' \in Nat BY <1>0, <2>c, Reported
  <2>1. TypeOK'
    BY <1>0, <2>a, <2>b, <2>d DEF TypeOK, still
  <2>2. FactsInv'
    BY <1>0, <1>3, <2>a, Typed DEF ReadChain, Gather, still, desk, Works, Fault, Blind, Event, FactsInv
  <2>3. Honest(directive)' /\ Honest(held)'
    BY <1>0, <1>3, Typed DEF ReadChain, Gather, still, desk, Works, Fault, Blind, Event, Honest
  <2>4. Entitled(directive)' /\ Entitled(held)'
    BY <1>0, <1>3 DEF ReadChain, Gather, still, desk, Works, Fault, Blind, Event, Entitled
  <2>5. PlanInv' /\ BookInv'
    BY <1>0, <1>3 DEF ReadChain, Gather, still, desk, Works, Fault, Blind, Event, PlanInv, BookInv
  <2> QED BY <2>1, <2>2, <2>3, <2>4, <2>5 DEF IInv
<1>4. CASE ReadPositions
  <2>a. /\ cycle'.facts \in Facts /\ cycle' = [pc |-> "publish", facts |-> cycle'.facts]
        /\ cycle'.facts.asof = cycle.facts.asof
        /\ cycle'.facts.kill = cycle.facts.kill
        /\ cycle'.facts.chainLive = cycle.facts.chainLive
        /\ cycle'.facts.conf = cycle.facts.conf
        /\ ~misread' => cycle'.facts.pnl = world.pnl
    <3>1. PICK p \in Pnls \cup {0} :
            /\ cycle' = [pc |-> "publish", facts |-> [cycle.facts EXCEPT !.pnl = p]]
            /\ ~misread' => p = world.pnl
      BY <1>4 DEF ReadPositions, Gather, Works, Blind
    <3>2. cycle.facts \in Facts BY <1>0, Typed
    <3> QED BY <3>1, <3>2, FactsWithPnl
  <2>b. UNCHANGED <<now, still, world, since, directive, held, plan, book, console>>
    BY <1>4 DEF ReadPositions, Gather
  <2>c. Works \/ Fault \/ Blind BY <1>4 DEF ReadPositions, Gather
  <2>d. (misread' \in BOOLEAN) /\ events' \in Nat BY <1>0, <2>c, Reported
  <2>1. TypeOK'
    BY <1>0, <2>a, <2>b, <2>d DEF TypeOK, still
  <2>2. FactsInv'
    BY <1>0, <1>4, <2>a, Typed DEF ReadPositions, Gather, still, desk, Works, Fault, Blind, Event, FactsInv
  <2>3. Honest(directive)' /\ Honest(held)'
    BY <1>0, <1>4, Typed DEF ReadPositions, Gather, still, desk, Works, Fault, Blind, Event, Honest
  <2>4. Entitled(directive)' /\ Entitled(held)'
    BY <1>0, <1>4 DEF ReadPositions, Gather, still, desk, Works, Fault, Blind, Event, Entitled
  <2>5. PlanInv' /\ BookInv'
    BY <1>0, <1>4 DEF ReadPositions, Gather, still, desk, Works, Fault, Blind, Event, PlanInv, BookInv
  <2> QED BY <2>1, <2>2, <2>3, <2>4, <2>5 DEF IInv
<1>5. CASE Publish
  <2> DEFINE f == cycle.facts
             d == Directive(f)
  <2>a. f \in Facts BY <1>0, Typed
  <2>b. /\ d \in Directives /\ d.asof = f.asof
        /\ d.allow => /\ ~f.kill /\ ~NearLoss(f.pnl) /\ f.chainLive
                      /\ 1200 <= d.weight /\ d.weight <= FullWeight
                      /\ d.weight <= Grant(f.conf)
        /\ d.stance = "HUNT" => d.side \in {"CE", "PE"} /\ d.allow /\ ~d.kill
    BY <2>a, DirectiveSound
  <2>c. directive' \in {d, directive} /\ misread' = misread /\ cycle' = Asleep
    BY <1>5 DEF Publish, Works, Fault, Event
  <2> HIDE DEF d
  <2>1. TypeOK'
    BY <1>0, <1>5, <2>b, <2>c, BlankTyped DEF Publish, Asleep, still, desk, Works, Fault, Blind, Event, TypeOK
  <2>2. FactsInv'
    BY <1>0, <1>5, BlankTyped, Typed DEF Publish, Asleep, still, desk, Works, Fault, Blind, Event, FactsInv
  <2>3. Honest(directive)' /\ Honest(held)'
    <3>1. Honest(held)' BY <1>0, <1>5, <2>c DEF Publish, still, Honest
    <3>2. CASE directive' = directive BY <1>0, <1>5, <2>c, <3>2 DEF Publish, still, Honest
    <3>3. CASE directive' = d
      BY <1>0, <1>5, <2>b, <2>c, <3>3 DEF Publish, still, Honest, FactsInv
    <3> QED BY <2>c, <3>1, <3>2, <3>3
  <2>4. Entitled(directive)' /\ Entitled(held)'
    <3>1. Entitled(held)' BY <1>0, <1>5 DEF Publish, still, Entitled
    <3>2. CASE directive' = directive BY <1>0, <1>5, <3>2 DEF Publish, still, Entitled
    <3>3. CASE directive' = d
      BY <1>0, <1>5, <2>b, <2>c, <3>3 DEF Publish, still, Entitled, FactsInv
    <3> QED BY <2>c, <3>1, <3>2, <3>3
  <2>5. PlanInv' /\ BookInv'
    BY <1>0, <1>5 DEF Publish, Asleep, still, desk, Works, Fault, Blind, Event, PlanInv, BookInv
  <2> QED BY <2>1, <2>2, <2>3, <2>4, <2>5 DEF IInv
<1>6. CASE CycleDies
  <2>1. TypeOK'
    BY <1>0, <1>6, BlankTyped DEF CycleDies, Asleep, still, desk, Works, Fault, Blind, Event, TypeOK
  <2>2. FactsInv'
    BY <1>0, <1>6, BlankTyped, Typed DEF CycleDies, Asleep, still, desk, Works, Fault, Blind, Event, FactsInv
  <2>3. Honest(directive)' /\ Honest(held)'
    BY <1>0, <1>6, Typed DEF CycleDies, Asleep, still, desk, Works, Fault, Blind, Event, Honest
  <2>4. Entitled(directive)' /\ Entitled(held)'
    BY <1>0, <1>6 DEF CycleDies, Asleep, still, desk, Works, Fault, Blind, Event, Entitled
  <2>5. PlanInv' /\ BookInv'
    BY <1>0, <1>6 DEF CycleDies, Asleep, still, desk, Works, Fault, Blind, Event, PlanInv, BookInv
  <2> QED BY <2>1, <2>2, <2>3, <2>4, <2>5 DEF IInv
<1> QED BY <1>1, <1>2, <1>3, <1>4, <1>5, <1>6 DEF Controller

LEMMA ExecutorIInv ==
  ASSUME IInv, Executor
  PROVE  IInv'
<1>0. /\ TypeOK /\ FactsInv /\ PlanInv /\ BookInv
      /\ Honest(directive) /\ Honest(held) /\ Entitled(directive) /\ Entitled(held)
  BY DEF IInv
<1>1. CASE LoadDirective
  <2>1. TypeOK'
    BY <1>0, <1>1 DEF LoadDirective, still, desk, Works, Fault, Blind, Event, TypeOK
  <2>2. FactsInv'
    BY <1>0, <1>1, Typed DEF LoadDirective, still, desk, Works, Fault, Blind, Event, FactsInv
  <2>3. Honest(directive)' /\ Honest(held)'
    BY <1>0, <1>1, Typed DEF LoadDirective, still, desk, Works, Fault, Blind, Event, Honest
  <2>4. Entitled(directive)' /\ Entitled(held)'
    BY <1>0, <1>1 DEF LoadDirective, still, desk, Works, Fault, Blind, Event, Entitled
  <2>5. PlanInv' /\ BookInv'
    BY <1>0, <1>1 DEF LoadDirective, still, desk, Works, Fault, Blind, Event, PlanInv, BookInv
  <2> QED BY <2>1, <2>2, <2>3, <2>4, <2>5 DEF IInv
<1>2. CASE PlanEntry
  <2>a. /\ held' = NoDirective
        /\ UNCHANGED <<now, still, world, since, cycle, directive, book, console>>
    BY <1>2 DEF PlanEntry
  <2>c. Works \/ Fault \/ Blind BY <1>2 DEF PlanEntry
  <2>d. (misread' \in BOOLEAN) /\ (misread => misread') /\ events' \in Nat
    BY <1>0, <2>c, Reported
  <2>b. \/ plan' \in {NoPlan, plan}
        \/ /\ Consistent(plan', ladder, UtilCap) /\ plan'.weight <= Grant(market.conf)
           /\ ~misread' => CanHunt /\ plan'.risk <= Remaining
    BY <1>2, PlanEntryStep
  <2>1. TypeOK'
    <3>1. plan' \in Plans \cup {NoPlan} BY <1>0, <2>b DEF TypeOK, Consistent
    <3> QED BY <1>0, <2>a, <2>d, <3>1 DEF TypeOK, still
  <2>2. FactsInv'
    BY <1>0, <2>a, <2>d, Typed DEF still, FactsInv
  <2>3. Honest(directive)' /\ Honest(held)'
    BY <1>0, <2>a, <2>d DEF still, Honest
  <2>4. Entitled(directive)' /\ Entitled(held)'
    BY <1>0, <2>a DEF still, Entitled
  <2>5. PlanInv' /\ BookInv'
    <3>1. PlanInv' BY <1>0, <2>a, <2>b DEF still, PlanInv
    <3>2. ASSUME ~misread', plan' # NoPlan, plan' # plan
          PROVE  book.sleeves < MaxSleeves /\ book.risk + plan'.risk <= UtilCap
      <4>1. CanHunt /\ plan'.risk <= Remaining /\ plan'.risk \in Int
        BY <2>b, <3>2 DEF Consistent, Plans
      <4>2. Remaining = UtilCap - book.risk
        BY <1>0, <2>a, <2>d, <3>2, Typed, UtilCapNat DEF BookInv, Remaining, Greater
      <4> QED BY <1>0, <4>1, <4>2, Typed, UtilCapNat DEF CanHunt
    <3>3. BookInv' BY <1>0, <2>a, <2>d, <3>2 DEF BookInv
    <3> QED BY <3>1, <3>3
  <2> QED BY <2>1, <2>2, <2>3, <2>4, <2>5 DEF IInv
<1>3. CASE PlaceEntry
  <2>a. /\ book' \in [risk : Nat, sleeves : Nat]
        /\ book' \in {[risk |-> book.risk + plan.risk, sleeves |-> book.sleeves + 1], book}
    BY <1>0, <1>3, Typed DEF PlaceEntry
  <2>1. TypeOK'
    BY <1>0, <1>3, <2>a DEF PlaceEntry, still, desk, Works, Fault, Blind, Event, TypeOK
  <2>2. FactsInv'
    BY <1>0, <1>3, Typed DEF PlaceEntry, still, desk, Works, Fault, Blind, Event, FactsInv
  <2>3. Honest(directive)' /\ Honest(held)'
    BY <1>0, <1>3, Typed DEF PlaceEntry, still, desk, Works, Fault, Blind, Event, Honest
  <2>4. Entitled(directive)' /\ Entitled(held)'
    BY <1>0, <1>3 DEF PlaceEntry, still, desk, Works, Fault, Blind, Event, Entitled
  <2>5. PlanInv' /\ BookInv'
    BY <1>0, <1>3, <2>a, Typed DEF PlaceEntry, Works, PlanInv, BookInv
  <2> QED BY <2>1, <2>2, <2>3, <2>4, <2>5 DEF IInv
<1> QED BY <1>1, <1>2, <1>3 DEF Executor

LEMMA ConsoleIInv ==
  ASSUME IInv, Console
  PROVE  IInv'
<1>0. /\ TypeOK /\ FactsInv /\ PlanInv /\ BookInv
      /\ Honest(directive) /\ Honest(held) /\ Entitled(directive) /\ Entitled(held)
  BY DEF IInv
<1>1. CASE ConsoleLoads
  <2>a. console' \in [ pc : {"idle", "compose"}, kill : BOOLEAN, pnl : Pnls \cup {0},
                       chainLive : BOOLEAN ]
    <3>1. \A k \in {world.kill, FALSE}, p \in {world.pnl, 0} :
            k \in BOOLEAN /\ p \in Pnls \cup {0}
      BY <1>0, Typed
    <3>2. world.chainLive \in BOOLEAN BY <1>0, Typed
    <3>3. PICK k \in {world.kill, FALSE}, p \in {world.pnl, 0} :
            console' = [ pc |-> "compose", kill |-> k, pnl |-> p,
                         chainLive |-> world.chainLive ]
      BY <1>1 DEF ConsoleLoads
    <3> QED BY <3>1, <3>2, <3>3
  <2>1. TypeOK'
    BY <1>0, <1>1, <2>a DEF ConsoleLoads, still, desk, Works, Fault, Blind, Event, TypeOK
  <2>2. FactsInv'
    BY <1>0, <1>1, Typed DEF ConsoleLoads, still, desk, Works, Fault, Blind, Event, FactsInv
  <2>3. Honest(directive)' /\ Honest(held)'
    BY <1>0, <1>1, Typed DEF ConsoleLoads, still, desk, Works, Fault, Blind, Event, Honest
  <2>4. Entitled(directive)' /\ Entitled(held)'
    BY <1>0, <1>1 DEF ConsoleLoads, still, desk, Works, Fault, Blind, Event, Entitled
  <2>5. PlanInv' /\ BookInv'
    BY <1>0, <1>1 DEF ConsoleLoads, still, desk, Works, Fault, Blind, Event, PlanInv, BookInv
  <2> QED BY <2>1, <2>2, <2>3, <2>4, <2>5 DEF IInv
<1>2. CASE ConsoleComposes
  <2>1. TypeOK'
    BY <1>0, <1>2 DEF ConsoleComposes, NoRender, still, desk, Works, Fault, Blind, Event, TypeOK
  <2>2. FactsInv'
    BY <1>0, <1>2, Typed DEF ConsoleComposes, NoRender, still, desk, Works, Fault, Blind, Event, FactsInv
  <2>3. Honest(directive)' /\ Honest(held)'
    BY <1>0, <1>2, Typed DEF ConsoleComposes, NoRender, still, desk, Works, Fault, Blind, Event, Honest
  <2>4. Entitled(directive)' /\ Entitled(held)'
    BY <1>0, <1>2 DEF ConsoleComposes, NoRender, still, desk, Works, Fault, Blind, Event, Entitled
  <2>5. PlanInv' /\ BookInv'
    BY <1>0, <1>2 DEF ConsoleComposes, NoRender, still, desk, Works, Fault, Blind, Event, PlanInv, BookInv
  <2> QED BY <2>1, <2>2, <2>3, <2>4, <2>5 DEF IInv
<1> QED BY <1>1, <1>2 DEF Console

LEMMA NextIInv == IInv /\ [Next]_vars => IInv'
<1> SUFFICES ASSUME IInv, [Next]_vars PROVE IInv' OBVIOUS
<1>1. CASE Next BY <1>1, WorldIInv, ControllerIInv, ExecutorIInv, ConsoleIInv DEF Next
<1>2. CASE UNCHANGED vars
  BY <1>2 DEF vars, still, desk, IInv, TypeOK, FactsInv, Honest, Entitled, PlanInv, BookInv
<1> QED BY <1>1, <1>2

-----------------------------------------------------------------------------
\* The theorems

\* Every reachable state satisfies the inductive invariant.
LEMMA IInvAlways == Spec => []IInv
BY InitIInv, NextIInv, PTL DEF Spec

\* Type correctness of the three processes and of what they keep in Redis.
THEOREM TypeCorrect == Spec => []TypeOK
<1>1. IInv => TypeOK BY DEF IInv
<1> QED BY IInvAlways, <1>1, PTL

\* An entry is planned at most FreshFor after a kill switch was armed or the
\* loss came near its limit, however the clock and the processes interleave
\* (strategic_controller/graph.py, tactical_executor.maybe_enter).
THEOREM KillBoundsEntriesAlways == Spec => KillBoundsEntries
<1> DEFINE Bounded ==
      plan' # NoPlan /\ plan = NoPlan /\ ~misread' =>
        /\ world.kill => now <= since.kill + FreshFor
        /\ NearLoss(world.pnl) => now <= since.pnl + FreshFor
<1>1. IInv /\ [Next]_vars => [Bounded]_vars
  <2> SUFFICES ASSUME IInv, Next, plan' # NoPlan, plan = NoPlan, ~misread'
               PROVE  /\ world.kill => now <= since.kill + FreshFor
                      /\ NearLoss(world.pnl) => now <= since.pnl + FreshFor
    OBVIOUS
  <2>1. PlanEntry
    BY DEF Next, World, Controller, Executor, Console, Clock, KillSwitch, PnlMoves,
           ChainStops, KeyExpires, StartCycle, ReadControls, ReadChain, ReadPositions,
           Gather, Publish, CycleDies, LoadDirective, PlaceEntry, ConsoleLoads,
           ConsoleComposes, desk
  <2>2. AllowsEntry(held, now) /\ held # NoDirective
    BY <2>1, PlanEntryStep DEF PlanEntry
  <2>3. ~misread BY <2>1 DEF PlanEntry, Works, Fault, Blind
  <2>4. /\ world.kill => held.asof <= since.kill
        /\ NearLoss(world.pnl) => held.asof <= since.pnl
    BY <2>2, <2>3 DEF IInv, Honest, AllowsEntry
  <2>5. /\ held.asof \in Nat /\ now \in Nat /\ since.kill \in Nat /\ since.pnl \in Nat
    BY <2>2, Typed DEF IInv
  <2>6. now - held.asof <= FreshFor BY <2>2 DEF AllowsEntry, IsFresh
  <2>7. FreshFor \in Nat BY StrategicPolicyAssumption
  <2> QED BY <2>4, <2>5, <2>6, <2>7
<1>2. [][Bounded]_vars <=> KillBoundsEntries BY DEF KillBoundsEntries
<1> HIDE DEF Bounded
<1>3. Spec => [][Bounded]_vars BY IInvAlways, <1>1, PTL DEF Spec
<1> QED BY <1>2, <1>3

\* No sleeve has more than the confidence of the top strategy grants
\* (enforce_risk_limits, load_directive, maybe_enter, sleeve_weight).
THEOREM SleeveWithinConfidenceAlways == Spec => []SleeveWithinConfidence
<1>1. IInv => SleeveWithinConfidence BY DEF IInv, PlanInv, Grant, SleeveWithinConfidence
<1> QED BY IInvAlways, <1>1, PTL

\* The sleeves of a day together stay within 70 percent of the day's loss
\* (intraday_hunt.can_hunt, build_hunt_plan, maybe_enter).
THEOREM DayRiskCapAlways == Spec => []DayRiskCap
<1>1. IInv => DayRiskCap BY DEF IInv, BookInv, DayRiskCap
<1> QED BY IInvAlways, <1>1, PTL

\* From the buy limit to the stop's sell limit a sleeve loses its booked risk
\* and the buffers, for every premium, lot and budget (intraday_hunt.size_sleeve,
\* order_guard.compute_protected_limit_price).
THEOREM RoundTripLossAlways == Spec => []RoundTripLoss
<1>1. ASSUME IInv, plan # NoPlan
      PROVE  200 * plan.qty * (plan.limit - LimitPrice(plan.stop, "SELL"))
               <= 2 * plan.risk + 200 * 108 * plan.qty + 100 * plan.qty
  <2> DEFINE q == plan.qty
             n == 200 * q
             sell == LimitPrice(plan.stop, "SELL")
  <2>1. /\ plan \in Plans /\ plan.limit = LimitPrice(plan.ltp, "BUY")
        /\ plan.stop = StopPrice(plan.ltp, q, plan.risk)
    BY <1>1 DEF IInv, PlanInv, Consistent
  <2>2. Lot \in Nat \ {0} BY SleeveSizingAssumption
  <2>3. /\ q \in Nat \ {0} /\ plan.ltp \in Int /\ plan.risk \in Int /\ plan.stop \in Int
    BY <2>1, <2>2 DEF Plans
  <2>4. n * plan.stop > n * plan.ltp - 2 * plan.risk - 100 * q
    <3>1. \A l, r \in Int, m \in Nat \ {0} :
            200 * m * StopPrice(l, m, r) > 200 * m * l - 2 * r - 100 * m
      BY StopPriceBound
    <3>2. 200 * q * StopPrice(plan.ltp, q, plan.risk)
            > 200 * q * plan.ltp - 2 * plan.risk - 100 * q
      <4> HIDE DEF q
      <4> QED BY <2>3, <3>1
    <3> QED BY <2>1, <3>2
  <2>5. /\ plan.limit \in Int /\ sell \in Int
        /\ plan.limit - sell <= plan.ltp - plan.stop + 108
    BY <2>1, <2>3, LimitPriceBound
  <2>6. n \in Nat BY <2>3
  <2> HIDE DEF q, n, sell
  <2>7. n * (plan.limit - sell) <= n * (plan.ltp - plan.stop + 108)
    BY <2>3, <2>5, <2>6, TimesMonotone
  <2>8. n * (plan.ltp - plan.stop + 108) = n * plan.ltp - n * plan.stop + n * 108
    BY <2>3, <2>6
  <2>9. n * plan.ltp \in Int /\ n * plan.stop \in Int /\ n * (plan.limit - sell) \in Int
    BY <2>3, <2>5, <2>6
  <2>10. n * (plan.limit - sell) <= 2 * plan.risk + n * 108 + 100 * q
    BY <2>3, <2>4, <2>6, <2>7, <2>8, <2>9
  <2>11. n * 108 = 200 * 108 * q BY <2>3 DEF n
  <2> QED BY <2>10, <2>11 DEF n, q, sell
<1>2. IInv => RoundTripLoss BY <1>1 DEF RoundTripLoss
<1> QED BY IInvAlways, <1>2, PTL

\* When premiums fall away from the money a sleeve never goes in the money
\* (intraday_hunt.build_hunt_plan, _strike_candidates, size_sleeve).
THEOREM NeverInTheMoneyAlways == Spec => []NeverInTheMoney
<1>1. ASSUME IInv, plan # NoPlan, Quoted, FallsAway
      PROVE  IF plan.side = "CE" THEN plan.strike >= 0 ELSE plan.strike <= 0
  <2> DEFINE k == plan.strike
             side == plan.side
             price(j) == ladder[j][side]
  <2>1. /\ plan \in Plans /\ k \in DOMAIN ladder
    BY <1>1 DEF IInv, PlanInv, Consistent
  <2>2. PICK b \in Nat, mg \in Nat :
          /\ Fits(price(k), b, mg)
          /\ \A j \in DOMAIN ladder :
               price(j) > 0 /\ Fits(price(j), b, mg) => j = k \/ Earlier(side, k, j)
    BY <1>1 DEF IInv, PlanInv, Consistent
  <2>3. ladder \in Ladders BY <1>1, Typed DEF IInv
  <2>4. side \in {"CE", "PE"} BY <2>1 DEF Plans
  <2>5. 0 \in DOMAIN ladder BY <2>3, EntryDeskAssumption
  <2>6. price(k) \in Nat /\ price(0) \in Nat /\ k \in Int
    BY <2>1, <2>3, <2>4, <2>5, QuoteNat
  <2>7. price(0) > 0 BY <1>1, <2>4, <2>5 DEF Quoted
  <2>8. ASSUME IF side = "CE" THEN k < 0 ELSE k > 0 PROVE FALSE
    <3>1. price(0) <= price(k)
      BY <1>1, <2>1, <2>4, <2>5, <2>6, <2>8 DEF FallsAway
    <3>2. Fits(price(0), b, mg)
      <4> HIDE DEF price
      <4> QED BY <2>2, <2>6, <3>1, FitsMonotone
    <3>3. Earlier(side, k, 0) BY <2>2, <2>5, <2>6, <2>7, <2>8, <3>2
    <3> QED BY <2>6, <2>8, <3>3 DEF Earlier, Distance
  <2> QED BY <2>6, <2>8
<1>2. IInv => NeverInTheMoney BY <1>1 DEF NeverInTheMoney
<1> QED BY IInvAlways, <1>2, PTL

\* While a directive is fresh the console speaks with the executor's voice
\* (console_runtime._compose_trade_decision, tactical_executor.maybe_enter).
THEOREM OneVoiceAlways == Spec => []OneVoice
<1>1. ASSUME IInv, directive # NoDirective, IsFresh(directive, now),
             NEW phase \in Phases, NEW failed \in BOOLEAN,
             NEW capital \in CapitalAnswers
      PROVE  LET says == Compose(phase, failed, capital)
             IN  /\ says \in Stances \ OwnStances
                 /\ says = "ENTRY" => AllowsEntry(directive, now)
  <2>1. directive \in Directives BY <1>1, Typed DEF IInv
  <2>2. directive.stance = "HUNT" =>
          directive.side \in {"CE", "PE"} /\ directive.allow /\ ~directive.kill
    BY <1>1 DEF IInv, Entitled
  <2>3. /\ Advice(directive) \in {"FLAT", "OBSERVE", "ENTRY"}
        /\ Advice(directive) = "ENTRY" => AllowsEntry(directive, now)
    BY <1>1, <2>1, <2>2 DEF Advice, AllowsEntry, Directives
  <2>4. Compose(phase, failed, capital)
          \in {"BLOCKED", "SQUARE_OFF", "WAIT", "NO_CHAIN", Advice(directive)}
    BY <1>1, <2>3 DEF Compose
  <2> QED BY <2>3, <2>4 DEF Stances, OwnStances
<1>2. IInv => OneVoice BY <1>1 DEF OneVoice
<1> QED BY IInvAlways, <1>2, PTL

=============================================================================
