\* Every request of the instance, from an allowed and a denied source.
SPECIFICATION FairSpec
CONSTANTS
  trusted = trusted
  stranger = stranger
  rw = rw
  ro = ro
  low = low
  high = high
  NULL = NULL
  Absent = Absent
  NoReply = NoReply
  Sources <- TwoSources
  AllowedIps <- OnlyTrusted
  Access <- Communities
  Writers <- OnlyRw
  OidAccess <- RwObjects
  MaxRate = 2
  Oids <- FourObjects
  Scalars <- OneScalar
  Values <- TwoValues
  InitialMib <- MibAtStart
  Requests <- AllRequests
INVARIANTS
  StatusIffFailure
  SetAccountsForMib
  NextIsNext
  IInv
PROPERTIES
  OnlyAuthorisedWrites
  ReturnsToIdle
