\* Every request, in any order.
SPECIFICATION Spec
CONSTANTS
  t1 = t1
  t2 = t2
  t3 = t3
  t4 = t4
  e1 = e1
  e2 = e2
  Tracks = {t1, t2, t3, t4}
  Events = {e1, e2}
  EventOf <- TwoEvents
  Good = {t3}
  Frames <- OneFrame
  NoCluster = NoCluster
  Spare = Spare
  Kinds = {"label", "assign", "correct", "false_positive", "merge_people",
           "merge_clusters", "split", "undo_label", "undo_assign",
           "undo_false_positive", "undo_merge_people", "undo_merge_clusters"}
  MaxOps = 4
INVARIANTS
  TypeOK
  PeopleApart
  OwnersAreActive
  SamplesAreOwn
  ObservationsGrounded
  LabeledHasPerson
  OnlyUndoLabelFails
  ClustersApart
  IndexCovers
PROPERTY
  UndoRestores
SYMMETRY Exchange
CHECK_DEADLOCK FALSE
