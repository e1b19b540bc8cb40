--------------------------- MODULE SleeveSizing ---------------------------
(***************************************************************************)
(* From a directive to one priced order: side, strike, lots, stop and      *)
(* limit price (services/intraday_hunt.py, the entry half of               *)
(* services/tactical_executor.py, the prices of services/order_guard.py).  *)
(*                                                                         *)
(* Option prices are in paise, margin in rupees, risk and premium in       *)
(* Rupee units.  A strike is its distance from the money in steps of the   *)
(* ladder; quotes[k][side] is the last price at strike k, 0 when there is  *)
(* none yet.  A confidence on its way into sleeve_weight is in units of    *)
(* 1/224000, in which both of its bounds are whole.                        *)
(***************************************************************************)
EXTENDS StrategicPolicy

CONSTANTS
  Lot,        \* lot_size()
  StopPct,    \* stop_fraction(), percent
  MaxSleeves, \* max_sleeves()
  NoPlan

ASSUME SleeveSizingAssumption ==
  Lot \in Nat \ {0} /\ StopPct \in 15..60 /\ MaxSleeves \in Nat

NoMargin == 0
MinRisk  == 200 * Rupee

\* _pick_side.  The executor passes a strategy of the directive's side.
PickSide(top, bias, pcr) ==
  IF top \in {"bear_call_credit"} THEN "PE"
  ELSE IF top \in {"bull_put_credit", "breakout_long", "buy_dip_reclaim"} THEN "CE"
  ELSE IF top \in {"iron_fly_range"}
         THEN IF pcr >= 110 THEN "CE"
              ELSE IF (pcr # NoPcr /\ pcr <= 85) \/ bias = "BEAR" THEN "PE" ELSE "CE"
  ELSE IF bias = "BEAR" THEN "PE"
  ELSE IF bias = "BULL" \/ pcr >= 105 THEN "CE"
  ELSE IF pcr # NoPcr /\ pcr <= 90 THEN "PE" ELSE "CE"

\* Mutant: not within the weight.
EntryConfidenceAlone(d) == 224 * d.conf

\* The confidence maybe_enter passes: the directive's, within its weight.
EntryConfidence(d) == Lesser(224 * d.conf, 76 * d.weight)

\* sleeve_weight: 0.45..0.95 onto SLEEVE_MIN..SLEEVE_MAX.
SleeveWeight(c) == (Clamp(100800, c, 212800) + 35) \div 70 - 240

\* size_sleeve: what one sleeve at this price would be, if it fits.
PremiumPerLot(ltp) == 100 * ltp * Lot
MarginLots(ltp, margin) ==
  IF margin = NoMargin THEN 2 ELSE (1500 * margin) \div PremiumPerLot(ltp)

\* Mutant: as many as the margin pays, up to three.
LotsByMargin(ltp, budget, margin) == Lesser(3, MarginLots(ltp, margin))

Lots(ltp, budget, margin) ==
  LET risk == StopPct * ltp * Lot
  IN  IF 2 * risk <= budget /\ 5 * budget >= 11 * risk /\ MarginLots(ltp, margin) >= 2
      THEN 2 ELSE 1

PlannedRisk(ltp, lots, budget) == Lesser(StopPct * ltp * Lot * lots, budget)

\* A stop tightened to the budget must leave 8 percent of the premium.
Fits(ltp, budget, margin) ==
  LET lots == Lots(ltp, budget, margin)
      risk == PlannedRisk(ltp, lots, budget)
  IN  /\ budget >= MinRisk
      /\ \/ risk = StopPct * ltp * Lot * lots
         \/ risk >= 8 * ltp * Lot * lots

\* _strike_candidates: quoted strikes by distance; of two equally far the
\* lower call and the higher put come first.
Distance(k) == IF k >= 0 THEN k ELSE -k
Earlier(side, j, k) ==
  \/ Distance(j) < Distance(k)
  \/ Distance(j) = Distance(k) /\ (IF side = "CE" THEN j < k ELSE j > k)

Candidates(quotes, side) == {k \in DOMAIN quotes : quotes[k][side] > 0}
FirstFit(quotes, side, budget, margin) ==
  LET fits == {k \in Candidates(quotes, side) : Fits(quotes[k][side], budget, margin)}
  IN  {k \in fits : \A j \in fits : j = k \/ Earlier(side, k, j)}

\* round_to_tick and compute_protected_limit_price: ticks of 5 paise, a
\* buffer of 50.
RoundToTick(price, action) ==
  IF action = "BUY" THEN ((price + 4) \div 5) * 5 ELSE (price \div 5) * 5
LimitPrice(ltp, action) ==
  RoundToTick(IF action = "BUY" THEN ltp + 50 ELSE ltp - 50, action)

\* Mutant: the planned fraction, however the risk was tightened.
StopByFraction(ltp, qty, risk) == (ltp * (100 - StopPct) + 50) \div 100

\* The stop, rounded to a paisa.
StopPrice(ltp, qty, risk) == (200 * qty * ltp - 2 * risk + 100 * qty) \div (200 * qty)

\* build_hunt_plan
Sized(k, side, ltp, weight, budget, margin) ==
  LET lots == Lots(ltp, budget, margin)
      risk == PlannedRisk(ltp, lots, budget)
  IN  [ strike |-> k, side |-> side, ltp |-> ltp, qty |-> lots * Lot, weight |-> weight,
        risk |-> risk, stop |-> StopPrice(ltp, lots * Lot, risk),
        limit |-> LimitPrice(ltp, "BUY") ]

\* Mutant: sized without what is left of the day.
HuntPlanAlone(quotes, side, conf, remaining, margin) ==
  LET weight == SleeveWeight(conf)
      first  == FirstFit(quotes, side, MaxDailyLoss * weight, margin)
  IN  IF first = {} THEN NoPlan
      ELSE LET k == CHOOSE k \in first : TRUE
           IN  Sized(k, side, quotes[k][side], weight, MaxDailyLoss * weight, margin)

HuntPlan(quotes, side, conf, remaining, margin) ==
  LET weight == SleeveWeight(conf)
      budget == Lesser(remaining, MaxDailyLoss * weight)
      first  == FirstFit(quotes, side, budget, margin)
  IN  IF first = {} THEN NoPlan
      ELSE LET k == CHOOSE k \in first : TRUE
           IN  Sized(k, side, quotes[k][side], weight, budget, margin)

\* maybe_enter: the plan of directive d, its risk within the directive's cap.
EntryPlan(d, quotes, remaining, margin) ==
  LET plan == HuntPlan(quotes, d.side, EntryConfidence(d), remaining, margin)
  IN  IF plan = NoPlan \/ plan.weight <= d.weight THEN plan
      ELSE [plan EXCEPT !.risk = Lesser(@, MaxDailyLoss * d.weight)]
=============================================================================
