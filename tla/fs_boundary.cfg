SPECIFICATION SysSpec
CONSTANTS
  Socks = {s1}
  Files = {f0, f1, f3, f4, f6}
  FileLen <- MCFileLen
  ReqLen <- MCReqLen
  BufSize = 3
  ReqBufSize = 4
  HdrLen = 2
  NotFoundLen = 2
  SndCap = 2
  Faults = {"recv", "send", "file", "epoll"}
  MaxRequests = 1
  FileReqLen = 2
  MissingReqLen = 2
  f0 = f0
  f1 = f1
  f3 = f3
  f4 = f4
  f6 = f6
INVARIANTS CloseOnlyAligned ReplyInv
PROPERTY SendInOrder
CHECK_DEADLOCK FALSE
