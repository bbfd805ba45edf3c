SPECIFICATION FairSpec
CONSTANTS
  m1 = m1
  m2 = m2
  m3 = m3
  Futures = {m1, m2, m3}
  FdChoices <- MCFdChoices
  MaxFds = 32
  AncCap = 256
  CanCancel = TRUE
  Hdr <- MCHdr
  Body <- MCBody
  IovFinish = 2
  IovNew = 3
  None = None
CHECK_DEADLOCK FALSE
INVARIANTS
  ControlFits FramedWire DoneMeansSent FdsWithMessage
PROPERTIES
  SendersEnd
