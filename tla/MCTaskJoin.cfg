\* Benign tasks, one of them for later.
CONSTANTS
  Tasks = {t1, t2}
  Patient = {}
  Clients = {c1}
  Workers = {w1, w2}
  Stoppers = {}
  Outcomes = {"none"}
  MaxWorkers = 2
  MaxTime = 2
  None = None
SPECIFICATION Spec
INVARIANT
  JoinWaitsForPending
CHECK_DEADLOCK FALSE
