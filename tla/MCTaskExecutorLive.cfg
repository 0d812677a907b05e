\* Liveness: one runnable only returns when it is cancelled.
CONSTANTS
  Tasks = {t1, t2}
  Patient = {t1}
  Clients = {c1}
  Workers = {w1, w2}
  Stoppers = {s1}
  Outcomes = {"none", "raise"}
  MaxWorkers = 2
  MaxTime = 2
  None = None
SPECIFICATION FairSpec

  
PROPERTIES
  CancelledInQueueNeverRuns
  QueuedTaskIsServed
  ShutdownReturns
  StopTokensAreTaken
CHECK_DEADLOCK FALSE
