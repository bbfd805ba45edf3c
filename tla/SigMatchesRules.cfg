SPECIFICATION Spec
CONSTANTS
  Rules <- MCRules
  Signals = {"s1", "s2"}
  SignalOf <- MCSignalOf
  Listened <- MCListened
  Users = {u1, u2}
  CanRefuse = TRUE
  MaxMuddled = 1
SYMMETRY MCUsers
CHECK_DEADLOCK FALSE
PROPERTIES
  QueuedAtMostSpecific
INVARIANTS
  MostSpecificFirst SubscribedAtRest
