\* close() does not wake a thread blocked in recvfrom() (Linux).
SPECIFICATION FairSpec
CONSTANTS
  Main = Main
  Server = Server
  NoCtx = NoCtx
  int1 = int1
  term1 = term1
  thread_pool_size_ = 1
  Deliveries <- OneSignal
  SigOf <- KindOf
  Targets <- MainOnly
  Masked <- StartupLabels
  SpareLogger = TRUE
  CloseWakes = FALSE
  Verbose = FALSE
  SpawnMayFail = FALSE
  MaxDatagrams = 0
PROPERTY ShutdownCompletes
CHECK_DEADLOCK FALSE
