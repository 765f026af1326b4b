\* Signals interrupt main() only, and neither while start() is half done nor
\* inside Logger::log(); close() wakes recvfrom() (BSD, macOS).
SPECIFICATION FairSpec
CONSTANTS
  Main = Main
  Server = Server
  NoCtx = NoCtx
  int1 = int1
  term1 = term1
  thread_pool_size_ = 2
  Deliveries <- IntAndTerm
  SigOf <- KindOf
  Targets <- MainOnly
  Masked <- StartupLabels
  SpareLogger = TRUE
  CloseWakes = TRUE
  Verbose = FALSE
  SpawnMayFail = FALSE
  MaxDatagrams = 1
INVARIANTS
  StopOnce
  ClosesOnce
  NeverAborts
  LoggerOutlivesUse
PROPERTIES
  KeepsContract
  ShutdownCompletes
