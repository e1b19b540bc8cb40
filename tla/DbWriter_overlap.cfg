SPECIFICATION Spec
CONSTANTS
  Ticks = {t1, t2}
  Conns = {c1, c2, c3, c4}
  FirstConn = c1
  NoConn = NoConn
  MaxTicks = 2
  MaxFaults = 1
  MaxAmbiguous = 0
  MaxTimeouts = 1
CHECK_DEADLOCK FALSE
INVARIANTS NoSilentDrop
