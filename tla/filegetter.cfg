SPECIFICATION GetterSysSpec
CONSTANTS
  Socks = {s1, s2}
  Files = {f0, f4}
  FileLen <- MCFileLen
  ReqLen <- MCReqLen
  SocksLen <- MCSocksLen
  HdrLen = 2
  NotFoundLen = 2
  SndCap = 2
  FgBufSize = 5
  ReqCap = 1
  UseSocks = TRUE
  Persistent = TRUE
  FgFaults = {"recv", "send", "connect", "refused"}
  MaxDownloads = 2
  MayHangUp = TRUE
  f0 = f0
  f4 = f4
INVARIANTS DownloadExact Tidy
PROPERTY Finishes
CHECK_DEADLOCK FALSE
