\* Safety: two threads in execute(), one in shutdown(), every outcome.
CONSTANTS
  Tasks = {t1, t2}
  Patient = {}
  Clients = {c1, c2}
  Workers = {w1, w2}
  Stoppers = {s1}
  Outcomes = {"none", "value", "raise"}
  MaxWorkers = 1
  MaxTime = 2
  None = None
SPECIFICATION Spec
SYMMETRY Symmetry
INVARIANTS
  TypeOK
  OneHolder
  QueuedTaskIsSomewhere
  
  StagesAgree
  CurrentCountsRunners
  TotalCountsTasks
  TokensCoverLiveWorkers
PROPERTIES
  RefinesLifecycle
CHECK_DEADLOCK FALSE
