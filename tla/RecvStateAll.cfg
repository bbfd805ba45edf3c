SPECIFICATION FairSpec
CONSTANTS
  N = 2
  Shapes <- MCShapes
  RemCap = 5
  MaxFds = 2
  AncCap = 28
INVARIANTS
  NothingLeftOver WholeInOrder ViolationTerminates
PROPERTIES
  AllDelivered
