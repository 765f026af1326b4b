\* As built: the service accepts no control.  A service whose daemon has ended
\* rests.
SPECIFICATION FairSpec
CONSTANTS
  Accepted <- AsBuilt
PROPERTIES
  CrashIsReported
CHECK_DEADLOCK FALSE
