SPECIFICATION Spec
CONSTANTS
  Params <- MCParams
  Types <- MCTypes
  SigMax = 5
  MaxArgs = 2
  MaxPushed = 2
  MaxFds = 2
  MaxOuts = 1
  Conns = {"c1", "c2"}
  Senders = {"c1"}
  Serials = {1, 2}
  Objects = {"n"}
  Interfaces = {"n", "!"}
  Destinations = {"c2"}
  ErrorNames = {"n", "!"}
  FdLimit = 1
  Text <- MCText
  ForeignFields <- MCFields
INVARIANTS
  HoldsWhatWasPushed ParserInStep ReceivedAsSent AnswerArrives
