\* Two versions of one path, overlapping retry requests.
SPECIFICATION Spec
CONSTANTS
  v1 = v1
  v2 = v2
  n1 = n1
  n2 = n2
  d1 = d1
  d2 = d2
  Files = {v1, v2}
  Names = {n1}
  NameOf <- OnePath
  Digests = {d1, d2}
  DigestOf <- TwoDigests
  NoFile = NoFile
  NoDigest = NoDigest
  Schedule = 1
  MaxCrashes = 0
  MaxRequests = 2
  MaxPuts = 3
INVARIANT
  OneRowPerEvent
PROPERTY
  ProcessedIsFinal
