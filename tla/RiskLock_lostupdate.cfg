SPECIFICATION Spec
CONSTANTS
  Breaker = Breaker
  Sessions = {s1}
  Orders = {o1}
  Broker = "dhan"
  MaxDay = 1
  MaxFaults = 0
  MaxBrokerFaults = 0
  MaxRestarts = 0
CHECK_DEADLOCK FALSE
PROPERTIES TripLocksForTheDay
