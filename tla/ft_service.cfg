SPECIFICATION FtFairSpec
CONSTANTS
  Socks = {s1, s2}
  Files = {f1, f2}
  FileLen <- MCFileLen
  ReqLen <- MCReqLen
  SocksLen <- MCSocksLen
  HdrLen = 1
  NotFoundLen = 1
  SndCap = 2
  BufSize = 2
  ReqBufSize = 2
  Faults = {}
  FgBufSize = 3
  ReqCap = 1
  UseSocks = FALSE
  Persistent = FALSE
  FgFaults = {}
  Downloads = {f1, f2}
  Multi = TRUE
  ThinkTimes = {0, 2}
  Requested = 2
  RunTime = 3
  RetryTime = 2
  f1 = f1
  f2 = f2
INVARIANT NoAbort
PROPERTIES ServerCounted Settles
CHECK_DEADLOCK FALSE
