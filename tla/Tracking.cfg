\* Four frames of at most two faces, four tracks, gaps of at most two frames, two
\* samples a track, two qualities, two scores.
SPECIFICATION Spec
CONSTANTS
  Quality = {1, 2}
  Scores = {1, 2}
  MaxGap = 2
  MaxSamples = 2
  MaxFrames = 4
  MaxFaces = 2
  MaxTracks = 4
INVARIANTS
  FacesApart
  BestAreKept
  SeenTogether
  NoBetterPair
CHECK_DEADLOCK FALSE
