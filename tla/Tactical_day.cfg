SPECIFICATION FairSpec
CONSTANTS
  Buys = {b1, b2}
  Secs = {s1}
  MaxSleeves = 2
  RiskCap = 3
  SleeveRisk = 2
  MaxFaults = 1
  MaxCrashes = 1
CHECK_DEADLOCK FALSE
INVARIANTS TypeOK RiskCapHolds NoSleeveForgotten SoldOnce OneStray
PROPERTIES BookGrows StopExits
