SPECIFICATION PingSpec
CONSTANTS
  SocksModes = {TRUE, FALSE}
  PingFaults = {"connect", "hangup", "refuse", "reject"}
  MaxFaults = 2
  MaxPings = 2
  PingBuf = 12
  PingSizes = {12}
  PingCap = 13
  RecvCap = 15
INVARIANTS OneChain PingAfterGrant 
PROPERTY PingsGoOn
CHECK_DEADLOCK FALSE
