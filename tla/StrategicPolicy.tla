-------------------------- MODULE StrategicPolicy --------------------------
(***************************************************************************)
(* The strategic controller's judgement                                    *)
(* (services/strategic_controller/graph.py, directive.py) as operators:    *)
(* from the facts one cycle gathered to the directive its readers get.     *)
(* Nothing here changes state.                                             *)
(*                                                                         *)
(* Scores, put-call ratios and sentiment are in hundredths, confidences in *)
(* thousandths, sleeve weights in ten-thousandths, profit and loss in      *)
(* rupees, planned risk in ten-thousandths of a rupee (Rupee): as fine as  *)
(* the code rounds them, or finer.                                         *)
(***************************************************************************)
EXTENDS Integers

CONSTANTS
  MaxDailyLoss,   \* MAX_DAILY_LOSS, rupees
  FreshFor        \* ttl_sec + 15 s, in ticks of the clock

ASSUME StrategicPolicyAssumption ==
  MaxDailyLoss \in Nat \ {0} /\ FreshFor \in Nat

NoPcr  == -1     \* no call OI, or no chain
NoConf == -1     \* no ranked strategy
FullWeight == 2800

Lesser(a, b)  == IF a <= b THEN a ELSE b
Greater(a, b) == IF a >= b THEN a ELSE b
Clamp(lo, x, hi) == Greater(lo, Lesser(hi, x))

-----------------------------------------------------------------------------
Bias(score) == IF score >= 150 THEN "BULL" ELSE IF score <= -150 THEN "BEAR" ELSE "MIXED"

Loud(f)    == f.score >= 400 \/ f.score <= -400 \/ f.volHigh
Quiet(f)   == f.score < 250 /\ f.score > -250
InRange(f) == f.pcr >= 85 /\ f.pcr <= 125 /\ Quiet(f)

\* classify_regime.  Both trends give way to a range when the put-call ratio
\* speaks against them and sits inside the range.
Regime(f) ==
  LET up   == Bias(f.score) = "BULL"
      down == Bias(f.score) = "BEAR"
  IN  IF ~f.chainLive THEN "UNKNOWN"
      ELSE IF Loud(f) THEN "HIGH_VOL"
      ELSE IF up   /\ (f.pcr = NoPcr \/ f.pcr >= 95 \/ ~InRange(f)) THEN "TREND_UP"
      ELSE IF down /\ (f.pcr = NoPcr \/ f.pcr <= 105 \/ ~InRange(f)) THEN "TREND_DOWN"
      ELSE "RANGE"

\* score_sentiment
PcrLean(pcr) == IF pcr >= 120 THEN 60 ELSE IF pcr # NoPcr /\ pcr <= 80 THEN -60 ELSE 0
BiasLean(bias) == IF bias = "BULL" THEN 40 ELSE IF bias = "BEAR" THEN -40 ELSE 0

SentimentScore(f) ==
  Clamp(-300, f.score \div 2, 300) + PcrLean(f.pcr)
    + (IF f.voicesRich THEN 15 ELSE 0) + BiasLean(Bias(f.score))

Sentiment(f) ==
  IF SentimentScore(f) >= 75 THEN "BULLISH"
  ELSE IF SentimentScore(f) <= -75 THEN "BEARISH" ELSE "NEUTRAL"

-----------------------------------------------------------------------------
\* enforce_risk_limits.  weight is the largest share of the day's loss one
\* sleeve may risk.
Rupee   == 10000
UtilCap == MaxDailyLoss * 7 * (Rupee \div 10)

WeightFor(conf) == 1200 + (16 * conf + 5) \div 10

Loss(pnl)     == pnl <= -MaxDailyLoss
NearLoss(pnl) == 10 * pnl <= -7 * MaxDailyLoss
Spent(f)      == f.deployed >= UtilCap

BaseWeight(f) ==
  IF f.kill \/ Loss(f.pnl) THEN 0
  ELSE IF NearLoss(f.pnl) THEN 1200
  ELSE IF Spent(f) \/ f.chainLive THEN FullWeight ELSE 0

RiskLimits(f) ==
  [ allow  |-> ~f.kill /\ ~NearLoss(f.pnl) /\ ~Spent(f) /\ f.chainLive,
    kill   |-> f.kill \/ Loss(f.pnl),
    weight |-> IF f.conf = NoConf THEN BaseWeight(f)
                                  ELSE Lesser(BaseWeight(f), WeightFor(f.conf)) ]

-----------------------------------------------------------------------------
\* decide_stance.  Strategies are named by the words the code looks for.
NoStrategy == "none"
BearNamed  == {"bear_call_credit"}
BullNamed  == {"bull_put_credit", "breakout_long"}

Stance(f) ==
  LET risk == RiskLimits(f)
  IN  IF risk.kill THEN "FLAT"
      ELSE IF ~risk.allow THEN "HOLD"
      ELSE IF Regime(f) = "HIGH_VOL" THEN "REDUCE"
      ELSE IF Regime(f) = "UNKNOWN" THEN "HOLD"
      ELSE "HUNT"

\* Mutant: no side while nothing speaks for one.
PreferredSideIfClear(f) ==
  IF Sentiment(f) = "BEARISH" THEN "PE"
  ELSE IF Sentiment(f) = "BULLISH" THEN "CE" ELSE "NONE"

PreferredSide(f) ==
  IF f.top \in BearNamed \/ Sentiment(f) = "BEARISH" \/ Regime(f) = "TREND_DOWN" THEN "PE"
  ELSE IF f.top \in BullNamed \/ Sentiment(f) = "BULLISH" \/ Regime(f) = "TREND_UP" THEN "CE"
  ELSE IF SentimentScore(f) >= 0 THEN "CE" ELSE "PE"

\* A confidence of zero reads as none ("or 0.65").  Unless the stance is HUNT
\* the number is only shown.
StanceConfidence(f) ==
  IF Stance(f) # "HUNT" THEN 850 ELSE IF f.conf \in {NoConf, 0} THEN 650 ELSE f.conf

\* publish_node, then load_directive: zero is falsy both times, so a weight
\* of zero is read back as the full weight.
ReadBack(weight) == IF weight = 0 THEN FullWeight ELSE weight

Directive(f) ==
  [ asof   |-> f.asof,
    stance |-> Stance(f),
    side   |-> IF Stance(f) = "HUNT" THEN PreferredSide(f) ELSE "NONE",
    conf   |-> StanceConfidence(f),
    allow  |-> RiskLimits(f).allow,
    kill   |-> RiskLimits(f).kill,
    weight |-> ReadBack(RiskLimits(f).weight) ]

IsFresh(d, t) == t - d.asof <= FreshFor

AllowsEntry(d, t) ==
  IsFresh(d, t) /\ ~d.kill /\ d.allow /\ d.stance = "HUNT" /\ d.side \in {"CE", "PE"}
=============================================================================
