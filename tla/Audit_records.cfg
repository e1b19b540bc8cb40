SPECIFICATION Spec
CONSTANTS
  Calls = {c1, c2}
  Brokers = {"dhan", "zerodha"}
  Pages = {p1}
  Limit = 1
  MaxLen = 1
  NoRow = NoRow
  Torn = Torn
  Junk = Junk
  MaxSeconds = 1
  MaxFaults = 3
SYMMETRY Symmetry
CHECK_DEADLOCK FALSE
INVARIANTS TypeOK TrailKept ReadsBack
PROPERTY TrailImplemented
