SPECIFICATION FtSpec
CONSTANTS
  Socks = {s1, s2}
  Files = {f2}
  FileLen <- MCFileLen
  ReqLen <- MCReqLen
  SocksLen <- MCSocksLen
  HdrLen = 1
  NotFoundLen = 1
  SndCap = 2
  BufSize = 2
  ReqBufSize = 2
  Faults = {}
  FgBufSize = 3
  ReqCap = 1
  UseSocks = FALSE
  Persistent = FALSE
  FgFaults = {"connect", "refused"}
  Downloads = {f2}
  Multi = TRUE
  ThinkTimes = {}
  Requested = 2
  RunTime = 0
  RetryTime = 2
  f1 = f1
  f2 = f2
INVARIANT SleeperHasTimer
CHECK_DEADLOCK FALSE
