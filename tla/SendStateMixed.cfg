SPECIFICATION Spec
CONSTANTS
  m1 = m1
  m2 = m2
  m3 = m3
  Futures = {m1, m2, m3}
  FdChoices <- MCMixed
  MaxFds = 32
  AncCap = 256
  CanCancel = FALSE
  Hdr <- MCHdr
  Body <- MCBody
  IovFinish = 2
  IovNew = 3
  None = None
CHECK_DEADLOCK FALSE
INVARIANTS
  FdsWithMessage
