\* Undos of two merges of people that cross.
SPECIFICATION Spec
CONSTANTS
  t1 = t1
  t2 = t2
  t3 = t3
  t4 = t4
  e1 = e1
  e2 = e2
  Tracks = {t1, t2, t3, t4}
  Events = {e1, e2}
  EventOf <- TwoEvents
  Good = {}
  Frames <- OneFrame
  NoCluster = NoCluster
  Spare = Spare
  Kinds = {"label", "merge_people", "undo_merge_people"}
  MaxOps = 7
INVARIANTS
  UndoIsSafe
CHECK_DEADLOCK FALSE
