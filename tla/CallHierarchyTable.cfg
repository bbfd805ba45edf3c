SPECIFICATION Spec
CONSTANTS
  Paths <- MCPaths
  Calls = {c1}
  Ifaces = {"introspectable", "other"}
  NullifyOnly = TRUE
  OwnCallsOnly = TRUE
  None = None
INVARIANTS
  Trimmed OneTaker Discoverable
PROPERTIES
  FlatTable
