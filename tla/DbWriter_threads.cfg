SPECIFICATION FairSpec
CONSTANTS
  Ticks = {t1, t2}
  Conns = {c1, c2, c3, c4}
  FirstConn = c1
  NoConn = NoConn
  MaxTicks = 3
  MaxFaults = 2
  MaxAmbiguous = 1
  MaxTimeouts = 1
CHECK_DEADLOCK FALSE
INVARIANTS TypeOK Conserved StopDrains
PROPERTIES StoresInOrder EventuallyStored
