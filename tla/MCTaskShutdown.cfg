\* Benign tasks and one blocking shutdown.
CONSTANTS
  Tasks = {t1}
  Patient = {}
  Clients = {c1}
  Workers = {w1, w2}
  Stoppers = {s1}
  Outcomes = {"none"}
  MaxWorkers = 2
  MaxTime = 1
  None = None
SPECIFICATION Spec
INVARIANT
  NothingRunsAfterShutdown
CHECK_DEADLOCK FALSE
