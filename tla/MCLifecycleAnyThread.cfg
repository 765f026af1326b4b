\* Every interleaving the POSIX handler allows: a signal lands on any thread, at
\* any statement, inside log() too; close() does not wake recvfrom() (Linux).
\* The process may hang (a join, the Logger mutex), so deadlock is not an error.
SPECIFICATION Spec
CONSTANTS
  Main = Main
  Server = Server
  NoCtx = NoCtx
  int1 = int1
  term1 = term1
  thread_pool_size_ = 1
  Deliveries <- IntAndTerm
  SigOf <- KindOf
  Targets <- AllThreads
  Masked <- NoLabels
  SpareLogger = FALSE
  CloseWakes = FALSE
  Verbose = TRUE
  SpawnMayFail = TRUE
  MaxDatagrams = 1
INVARIANTS
  IInv
  ExitMeansQuiescent
  UpMeansServing
CHECK_DEADLOCK FALSE
