SPECIFICATION BusySpec
CONSTANTS
  Calls = {c1}
  Listeners = {l1}
  Droppable = {c1, l1}
  RemoteCalls = {r1}
  UnknownCalls = {u1}
  Unanswerable = {u1}
  Faulty = {f1}
  MaxSerial = 5
  Wrap = FALSE
  Chatter = TRUE
  Closes = TRUE
  Removes = TRUE
  InboxCap = 1
  MaxForeign = 2
  None = None
  Err = Err
CHECK_DEADLOCK FALSE
INVARIANTS
  CallInOnePlace
PROPERTIES
  ReplyReturns CleanupRuns CloseEndsAll Promises
