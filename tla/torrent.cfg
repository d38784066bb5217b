SPECIFICATION TorSpec
CONSTANTS
  Clients = {c1}
  Servers = {s1, s2}
  NoServer = NoServer
  UseProxy = TRUE
  NumBlocks = 2
  DownBlock = 3
  UpBlock = 1
  Room = 2
  TorFaults = {"reset", "refuse", "reject"}
  MaxTorFaults = 1
INVARIANTS BlocksConserved
PROPERTIES BlockExact Completes
CHECK_DEADLOCK FALSE
