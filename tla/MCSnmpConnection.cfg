\* The owner may leave a destroyed connection alone for ever.
SPECIFICATION FairSpec
CONSTANTS
  Fds <- TwoFds
  MaxMessages = 3
  Garbage <- SecondOnly
  Strays <- SomeStrays
  MaxResponses = 1
  Timeouts <- NoneOrOne
  MaxIdle = 1
  MaxTime = 1
  PartialSends = TRUE
INVARIANTS
  IInv
  InOrderAtMostOnce
PROPERTIES
  LeavesOthersAlone
  QuietAfterEnd
  RevivedByExchange
  ReceiveReturns
CHECK_DEADLOCK FALSE
