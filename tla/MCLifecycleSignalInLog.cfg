\* One SIGINT, after start(), also while a thread is inside Logger::log().
SPECIFICATION Spec
CONSTANTS
  Main = Main
  Server = Server
  NoCtx = NoCtx
  int1 = int1
  term1 = term1
  thread_pool_size_ = 1
  Deliveries <- OneSignal
  SigOf <- KindOf
  Targets <- AllThreads
  Masked <- StartupLabels
  SpareLogger = FALSE
  CloseWakes = TRUE
  Verbose = FALSE
  SpawnMayFail = FALSE
  MaxDatagrams = 1
INVARIANT NoLogSelfDeadlock
CHECK_DEADLOCK FALSE
