\* Three threads or processes, two of everything else.
CONSTANTS
  Threads = {t1, t2, t3}
  Subscribers = {s1, s2}
  Watchers = {w1}
  MaxUpdates = 3
  Actors = {a1, a2}
  Refresh = Refresh
  None = None
  Done = Done
  Old = Old
  Partial = Partial
  Empty = Empty
  Unread = Unread
  Broken = Broken
  Unbound = Unbound
SPECIFICATION SharedSpec
SYMMETRY Symmetry
INVARIANTS
  SubscribersAreFresh
  ChildFollowsUnlessOverlap
  
  ProcessesAreTracked
  
CHECK_DEADLOCK FALSE
