SPECIFICATION PcapSpec
CONSTANTS
  Captures <- TwoCaptures
  Second = 4
  MTU = 2
  Cap = 3
  MayFail = TRUE
PROPERTIES NonePassedOver FileOrder Paced ServerWaits ServerResumes OneQuits
CHECK_DEADLOCK FALSE
