\* Two messages of different priority in one batch, one fault, under fairness.
SPECIFICATION FairSpec
CONSTANTS
  m1 = m1
  m2 = m2
  Keys = {m1, m2}
  Workers = {w1, w2}
  NoWorker = NoWorker
  Priority <- MCPriority
  BatchLimit = 2
  MaxAttempts = 2
  MaxFaults = 1
INVARIANTS
  TypeOK
  SentWasDelivered
  RepeatsNeedFaults
  DeadWasClaimedOften
PROPERTIES
  SentIsFinal
  DeliversAtLeastOnce
  Settles
