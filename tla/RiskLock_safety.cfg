SPECIFICATION Spec
CONSTANTS
  Breaker = Breaker
  Sessions = {s1}
  Orders = {o1, o2}
  Broker = "dhan"
  MaxDay = 2
  MaxFaults = 1
  MaxBrokerFaults = 0
  MaxRestarts = 0
CHECK_DEADLOCK FALSE
SYMMETRY Symmetry
INVARIANTS TypeOK LockHolds FewSlip ResidualIsLate
