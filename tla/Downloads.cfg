\* Two downloads, one of them also reported by HTTP; two lines, two reports,
\* one fault.
SPECIFICATION FairSpec
CONSTANTS
  k1 = k1
  k2 = k2
  Keys = {k1, k2}
  Posted = {k1}
  Bad = Bad
  NoSignature = NoSignature
  MaxLines = 2
  MaxReports = 2
  MaxFaults = 1
INVARIANT
  FailureIsAnnounced
PROPERTY
  JournalIsApplied
CHECK_DEADLOCK FALSE
