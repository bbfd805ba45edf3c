SPECIFICATION MCSpec
CONSTANTS
  Base = {"y"}
  Others = {"!"}
  MaxLen = 8
  MaxNesting = 2
  StackCap = 4
  Letters = {"a"}
  MaxArg = 5
  MaxPath = 9
CHECK_DEADLOCK FALSE
INVARIANTS
  Judged StaysObjectPath ActsOnElements StripRejoins
