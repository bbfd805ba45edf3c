SPECIFICATION Spec
CONSTANTS
  Paths <- MCPaths
  Calls = {c1}
  Ifaces = {"introspectable", "other"}
  NullifyOnly = FALSE
  OwnCallsOnly = FALSE
  None = None
PROPERTIES
  InsertIsLocal
