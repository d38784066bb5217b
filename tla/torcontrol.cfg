SPECIFICATION CtlSpec
CONSTANTS
  NumCircuits = 2
  Modes = {"circuitBuild", "log", "ping"}
  NetStates = {"open", "blocked", "tight"}
  BootTimes = {"before", "during", "after"}
  MaxCircs = 3
  MaxLosses = 1
  MaxStreams = 1
INVARIANTS OneBuild CircuitIdsReal OnePing
PROPERTIES AllBuilt PingsContinue
CHECK_DEADLOCK FALSE
