SPECIFICATION FairConnectSpec
CONSTANTS
  Mechs = {"EXTERNAL", "ANONYMOUS"}
  Uids <- MCUids
  Width = 128
  LineCap = 3
  Filler <- MCFiller
  SessionVars <- MCSessionVars
CHECK_DEADLOCK FALSE
INVARIANTS
  ConnectedInStep NeverOutOfTurn RightUid OneSocketOrNone
PROPERTIES
  ConstructorEnds
