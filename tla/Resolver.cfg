\* Two processes, five tokens, three crashes or power losses, two reconciliations.
SPECIFICATION Spec
CONSTANTS
  p1 = p1
  p2 = p2
  Procs = {p1, p2}
  MaxTokens = 4
  MaxCrashes = 3
  MaxReconciles = 2
SYMMETRY Symmetric
INVARIANTS
  PresentedOnce
  LostTokenIsMarked
  ServesStoredToken
