SPECIFICATION FairSpec
CONSTANTS
  Breaker = Breaker
  Sessions = {s1}
  Orders = {o1}
  Broker = "dhan"
  MaxDay = 1
  MaxFaults = 0
  MaxBrokerFaults = 1
  MaxRestarts = 1
CHECK_DEADLOCK FALSE
PROPERTY BreachEndsInTrip
