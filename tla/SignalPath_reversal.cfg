SPECIFICATION Spec
CONSTANTS
  Syms = {A, B}
  NumericSyms = {A}
  Signals = {g1, g2}
  Engine = Engine
  Panel = Panel
  NoSignal = NoSignal
  NoAnswer = NoAnswer
  Configs <- MCConfigs
  MaxOpenPositions = 1
  MaxFaults = 1
  MaxActs = 1
CHECK_DEADLOCK FALSE
PROPERTIES SquareOffOnlyCloses
