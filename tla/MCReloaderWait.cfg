\* Two callers, no observer and no callback.
CONSTANTS
  Callers = {c1, c2}
  Poller = p
  Callbacks = {}
  Reentrant = {}
  MaxVersion = 1
  None = None
SPECIFICATION FairSpec
PROPERTIES
  WaitingEnds
CHECK_DEADLOCK FALSE
