SPECIFICATION Spec
CONSTANTS
  MaxDailyLoss = 5000
  FreshFor = 1
  Lot = 65
  StopPct = 35
  MaxSleeves = 3
  NoPlan = NoPlan
  NoDirective = NoDirective
  Markets <- MCMarkets
  Ladders <- MCLadders
  Margins <- MCMargins
  Pnls <- MCPnls
  MaxTime = 2
  MaxEvents = 2
INVARIANTS TypeOK SleeveWithinConfidence DayRiskCap RoundTripLoss OneVoice
PROPERTIES KillBoundsEntries
