\* A split ends in a foreign key error.
SPECIFICATION Spec
CONSTANTS
  t1 = t1
  t2 = t2
  t3 = t3
  t4 = t4
  e1 = e1
  e2 = e2
  Tracks = {t1, t2, t3}
  Events = {e1, e2}
  EventOf <- TwoEvents
  Good = {t1, t2, t3}
  Frames <- OneFrame
  NoCluster = NoCluster
  Spare = Spare
  Kinds = {"split"}
  MaxOps = 1
INVARIANTS
  SplitWorks
CHECK_DEADLOCK FALSE
