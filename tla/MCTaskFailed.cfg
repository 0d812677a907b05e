\* One task whose runnable raises.
CONSTANTS
  Tasks = {t1}
  Patient = {}
  Clients = {c1}
  Workers = {w1, w2}
  Stoppers = {}
  Outcomes = {"raise"}
  MaxWorkers = 2
  MaxTime = 1
  None = None
SPECIFICATION Spec
INVARIANT
  FailedIsReported
CHECK_DEADLOCK FALSE
