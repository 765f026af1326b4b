\* Every control accepted, at any time the SCM passes one on; console mode too.
\* A service that failed to register, or whose daemon nobody stops, rests.
SPECIFICATION FairSpec
CONSTANTS
  Accepted <- AllControls
INVARIANTS
  IInv
  EventIsOpen
  ExitedMeansGone
PROPERTIES
  KeepsServiceContract
  StopCompletes
CHECK_DEADLOCK FALSE
