\* Three images, two migrations at a time and three in all, three faults.
SPECIFICATION Spec
CONSTANTS
  i1 = i1
  i2 = i2
  i3 = i3
  p1 = p1
  p2 = p2
  Images = {i1, i2, i3}
  Procs = {p1, p2}
  Nothing = Nothing
  Foreign = Foreign
  MaxRuns = 3
  MaxFaults = 3
SYMMETRY Symmetric
INVARIANTS
  ImagesExist
  RowsNameImages
PROPERTIES
  RollbackRestores
  ForeignFilesStay
CHECK_DEADLOCK FALSE
