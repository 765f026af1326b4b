\* Two SETs and a walk over a network that loses and reorders.
SPECIFICATION FairExchangeSpec
CONSTANTS
  manager = manager
  rw = rw
  low = low
  high = high
  NULL = NULL
  Absent = Absent
  NoReply = NoReply
  Sources <- OneManager
  AllowedIps <- OneManager
  Access <- Communities
  Writers <- OneCommunity
  OidAccess <- RwObjects
  MaxRate = 1
  Oids <- TwoObjects
  Scalars = {}
  Values <- TwoValues
  InitialMib <- MibAtStart
  Requests <- AllExchanged
  Manager = manager
  Community = rw
  Writes <- TwoWrites
  Start = 0
  MaxAsked = 2
  MaxAnswers = 1
  MaxTries = 2
INVARIANTS
  AnswerTellsWhatWasStored
  ConfirmedValueStands
  ExchangeInv
PROPERTIES
  WalksTheMib
CHECK_DEADLOCK FALSE
