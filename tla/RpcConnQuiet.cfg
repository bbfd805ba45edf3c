SPECIFICATION FairSpec
CONSTANTS
  Calls = {c1, c2}
  Listeners = {}
  Droppable = {}
  RemoteCalls = {}
  UnknownCalls = {}
  Unanswerable = {}
  Faulty = {}
  MaxSerial = 5
  Wrap = FALSE
  Chatter = FALSE
  Closes = FALSE
  Removes = FALSE
  InboxCap = 2
  MaxForeign = 2
  None = None
  Err = Err
CHECK_DEADLOCK FALSE
PROPERTIES
  ReplyReturns
