\* One artifact, two handlers, two requests besides the registration, a file
\* that vanishes or comes back once, one crash or failing export.
SPECIFICATION FairSpec
CONSTANTS
  a1 = a1
  h1 = h1
  h2 = h2
  Artifacts = {a1}
  Handlers = {h1, h2}
  Worker = Worker
  Nobody = Nobody
  MaxRequests = 2
  MaxFlips = 1
  MaxCrashes = 1
INVARIANT
  BackupAgrees
PROPERTIES
  ManifestGoesForward
  AnsweredIsListed
  MissingIsListed
