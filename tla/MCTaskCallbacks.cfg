\* Two callbacks of every kind, in one group or in two.
CONSTANTS
  Entries = {e1, e2}
  Groups = {g1, g2}
SPECIFICATION Spec
INVARIANTS
  RunsAsRegistered
  CollectionIsExact
PROPERTIES
  RemovedIsNotCopiedAgain
  EndIsReported
CHECK_DEADLOCK FALSE
