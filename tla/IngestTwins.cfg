\* Two files with the same bytes, one crash or database error, one retry request.
\* The ingest may stop: the task has ended, and the bounds are used up.
SPECIFICATION FairSpec
CONSTANTS
  v1 = v1
  v2 = v2
  n1 = n1
  n2 = n2
  d1 = d1
  d2 = d2
  Files = {v1, v2}
  Names = {n1, n2}
  NameOf <- TwoPaths
  Digests = {d1}
  DigestOf <- OneDigest
  NoFile = NoFile
  NoDigest = NoDigest
  Schedule = 1
  MaxCrashes = 1
  MaxRequests = 1
  MaxPuts = 2
INVARIANTS
  TypeOK
  DeadIsAnnounced
  ImagesKept
PROPERTY
  Finishes
CHECK_DEADLOCK FALSE
