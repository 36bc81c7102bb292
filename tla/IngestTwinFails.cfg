\* Two files with the same bytes, no crash, no request.
SPECIFICATION Spec
CONSTANTS
  v1 = v1
  v2 = v2
  n1 = n1
  n2 = n2
  d1 = d1
  d2 = d2
  Files = {v1, v2}
  Names = {n1, n2}
  NameOf <- TwoPaths
  Digests = {d1}
  DigestOf <- OneDigest
  NoFile = NoFile
  NoDigest = NoDigest
  Schedule = 1
  MaxCrashes = 0
  MaxRequests = 0
  MaxPuts = 2
PROPERTY
  TwinIsNoFailure
