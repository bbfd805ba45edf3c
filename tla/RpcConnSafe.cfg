SPECIFICATION Spec
CONSTANTS
  Calls = {c1, c2}
  Listeners = {l1}
  Droppable = {c1, c2, l1}
  RemoteCalls = {r1}
  UnknownCalls = {}
  Unanswerable = {}
  Faulty = {f1}
  MaxSerial = 3
  Wrap = FALSE
  Chatter = FALSE
  Closes = TRUE
  Removes = FALSE
  InboxCap = 1
  MaxForeign = 1
  None = None
  Err = Err
CHECK_DEADLOCK FALSE
SYMMETRY MCCalls
INVARIANTS
  TypeOK NoOrphanLock NoPanic NoReplyLost NoLeak
PROPERTIES
  Promises
