\* Two callers and the poller, three versions of the file, loads that may fail,
\* and a callback that calls reload() itself.
CONSTANTS
  Callers = {c1, c2}
  Poller = p
  Callbacks = {b1, b2}
  Reentrant = {b2}
  MaxVersion = 3
  None = None
SPECIFICATION FairSpec
INVARIANTS
  TypeOK
  CallbacksAreCaughtUp
PROPERTIES
  SeenIsLoaded
  ValueNeverGoesBack
  WaitersAreWoken
  StopReturns
CHECK_DEADLOCK FALSE
