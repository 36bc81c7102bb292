------------------------------ MODULE Tracking ------------------------------
(***************************************************************************)
(* build_tracks of tracking.py: the faces found in the sampled frames of a *)
(* video are joined to tracks, frame after frame, and                      *)
(* cooccurring_track_pairs says which tracks cannot be one person.         *)
(*                                                                         *)
(* Within a frame every pair of a face and a track that was seen a short   *)
(* time ago may get a score.  The pairs are taken from the highest score   *)
(* down, each face and each track once; the faces left over start tracks.  *)
(*                                                                         *)
(* Scores come from embeddings and boxes, of which nothing is kept here: a *)
(* pair gets any score, or none.  Frames are taken at equal distances of   *)
(* time, so their numbers are their timestamps.  Faces without embedding   *)
(* are dropped before, and are left out.                                   *)
(***************************************************************************)
EXTENDS Integers, Sequences, FiniteSets

CONSTANTS
  Quality,     \* values of quality_score
  Scores,      \* values of _match_score other than None
  MaxGap,      \* max_gap_seconds
  MaxSamples,  \* max_samples
  MaxFrames,   \* bound on the frames
  MaxFaces,    \* bound on the faces of a frame
  MaxTracks    \* bound on the tracks

ASSUME TrackingAssumption ==
  /\ Quality \subseteq Nat /\ Scores \subseteq Nat
  /\ {MaxGap, MaxSamples} \subseteq Nat \ {0}
  /\ {MaxFrames, MaxFaces, MaxTracks} \subseteq Nat

VARIABLES
  frame,       \* the number of the frame
  pc,          \* "detect", "match", "begin"
  faces,       \* frame_samples: the faces of the frame, the best first
  candidates,  \* <<score, face, track>>
  taken,       \* the candidates whose face was added to their track
  left,        \* the candidates not looked at yet
  at,          \* sample_index of the last loop
  tracks,      \* tracks, in the order of their indexes
  added        \* for each track, every face that was ever added to it

vars == <<frame, pc, faces, candidates, taken, left, at, tracks, added>>

\* pos: the place among the faces of its frame.
Face == [frame : 1..MaxFrames, pos : 1..MaxFaces, quality : Quality]

\* samples, observed_frame_indices, last_timestamp.
Track == [samples : Seq(Face), observed : SUBSET (1..MaxFrames),
          last : 1..MaxFrames]

Candidate == Scores \X (1..MaxFaces) \X (1..MaxTracks)

TypeOK ==
  /\ frame \in 0..MaxFrames
  /\ pc \in {"detect", "match", "begin"}
  /\ faces \in Seq(Face) /\ Len(faces) <= MaxFaces
  /\ candidates \subseteq Candidate
  /\ taken \subseteq candidates /\ left \subseteq candidates
  /\ at \in 1..(MaxFaces + 1)
  /\ tracks \in Seq(Track) /\ Len(tracks) <= MaxTracks
  /\ \A t \in DOMAIN tracks : Len(tracks[t].samples) \in 1..MaxSamples
  /\ DOMAIN added = DOMAIN tracks
  /\ \A t \in DOMAIN added : added[t] \subseteq Face

Init ==
  /\ frame = 0 /\ pc = "detect"
  /\ faces = <<>>
  /\ candidates = {} /\ taken = {} /\ left = {} /\ at = 1
  /\ tracks = <<>> /\ added = <<>>

-----------------------------------------------------------------------------
(* _Track.add.                                                             *)

\* sort by quality, highest first; it is stable, and the face comes last.
Inserted(samples, face) ==
  LET n == Cardinality({i \in DOMAIN samples : samples[i].quality >= face.quality})
  IN  SubSeq(samples, 1, n) \o <<face>> \o SubSeq(samples, n + 1, Len(samples))

\* Mutant of Trimmed: the best sample goes, not the worst.
TrimmedBest(samples) ==
  IF Len(samples) <= MaxSamples THEN samples ELSE SubSeq(samples, 2, MaxSamples + 1)

Trimmed(samples) ==
  IF Len(samples) <= MaxSamples THEN samples ELSE SubSeq(samples, 1, MaxSamples)

With(track, face) ==
  [samples  |-> Trimmed(Inserted(track.samples, face)),
   observed |-> track.observed \cup {face.frame},
   last     |-> face.frame]

NewTrack(face) ==
  [samples |-> <<face>>, observed |-> {face.frame}, last |-> face.frame]

-----------------------------------------------------------------------------
(* The candidates of a frame.                                              *)

\* The gap is neither negative nor too long.
Near(t) ==
  LET gap == frame' - tracks[t].last
  IN  gap >= 0 /\ gap <= MaxGap

\* The faces of the next frame are found, and pairs of them and of tracks get
\* scores.
Detect(qualities) ==
  /\ pc = "detect" /\ frame < MaxFrames
  /\ Len(tracks) + Len(qualities) <= MaxTracks
  /\ \A i \in 1..(Len(qualities) - 1) : qualities[i] >= qualities[i + 1]
  /\ frame' = frame + 1
  /\ faces' = [i \in DOMAIN qualities |->
       [frame |-> frame', pos |-> i, quality |-> qualities[i]]]
  /\ LET pairs == (DOMAIN faces') \X {t \in DOMAIN tracks : Near(t)}
     IN  \E scored \in SUBSET pairs : \E score \in [scored -> Scores] :
           candidates' = {<<score[p], p[1], p[2]>> : p \in scored}
  /\ taken' = {} /\ left' = candidates'
  /\ pc' = "match"
  /\ UNCHANGED <<at, tracks, added>>

-----------------------------------------------------------------------------
(* The assignment.                                                         *)

\* Mutant of Before: the lowest score first.
BeforeLowest(c, d) ==
  \/ c[1] < d[1]
  \/ c[1] = d[1] /\ c[2] > d[2]
  \/ c[1] = d[1] /\ c[2] = d[2] /\ c[3] > d[3]

\* The order of sorted(candidates, reverse=True).
Before(c, d) ==
  \/ c[1] > d[1]
  \/ c[1] = d[1] /\ c[2] > d[2]
  \/ c[1] = d[1] /\ c[2] = d[2] /\ c[3] > d[3]

\* Mutant of Used: a track may get several faces of a frame.
UsedFace(c) == \E d \in taken : d[2] = c[2]

\* Its face or its track is taken already.
Used(c) == \E d \in taken : d[2] = c[2] \/ d[3] = c[3]

Match(c) ==
  /\ pc = "match" /\ c \in left
  /\ \A d \in left \ {c} : Before(c, d)
  /\ left' = left \ {c}
  /\ IF Used(c) THEN UNCHANGED <<taken, tracks, added>>
     ELSE /\ taken' = taken \cup {c}
          /\ tracks' = [tracks EXCEPT ![c[3]] = With(@, faces[c[2]])]
          /\ added' = [added EXCEPT ![c[3]] = @ \cup {faces[c[2]]}]
  /\ UNCHANGED <<frame, pc, faces, candidates, at>>

Matched ==
  /\ pc = "match" /\ left = {}
  /\ pc' = "begin" /\ at' = 1
  /\ UNCHANGED <<frame, faces, candidates, taken, left, tracks, added>>

\* The next face begins a track, unless it was taken.
BeginTrack ==
  /\ pc = "begin" /\ at <= Len(faces)
  /\ IF \E c \in taken : c[2] = at
     THEN UNCHANGED <<tracks, added>>
     ELSE /\ tracks' = Append(tracks, NewTrack(faces[at]))
          /\ added' = Append(added, {faces[at]})
  /\ at' = at + 1
  /\ UNCHANGED <<frame, pc, faces, candidates, taken, left>>

FrameDone ==
  /\ pc = "begin" /\ at > Len(faces)
  /\ pc' = "detect"
  /\ faces' = <<>> /\ candidates' = {} /\ taken' = {} /\ at' = 1
  /\ UNCHANGED <<frame, left, tracks, added>>

-----------------------------------------------------------------------------
(* cooccurring_track_pairs.                                                *)

\* Mutant of FramesOf: the frames of the samples that were kept.
FramesOfSamples(t) == {tracks[t].samples[i].frame : i \in DOMAIN tracks[t].samples}

FramesOf(t) == tracks[t].observed

Cooccurring ==
  {p \in (DOMAIN tracks) \X (DOMAIN tracks) :
     p[1] < p[2] /\ FramesOf(p[1]) \cap FramesOf(p[2]) # {}}

-----------------------------------------------------------------------------
Next ==
  \/ \E n \in 0..MaxFaces : \E qualities \in [1..n -> Quality] : Detect(qualities)
  \/ \E c \in left : Match(c)
  \/ Matched
  \/ BeginTrack
  \/ FrameDone

Spec == Init /\ [][Next]_vars

-----------------------------------------------------------------------------
(* Properties.                                                             *)

\* A track never holds two faces of one frame, who are different people, and
\* no face is in two tracks.  (With the types.)
FacesApart ==
  /\ TypeOK
  /\ \A t, u \in DOMAIN added : \A f \in added[t], g \in added[u] :
       /\ t = u /\ f.frame = g.frame => f = g
       /\ t # u => f # g

\* Trimming after every face leaves the best faces of all that were added to
\* the track, the best one first.
BestAreKept ==
  \A t \in DOMAIN tracks :
    LET samples == tracks[t].samples
        kept    == {samples[i] : i \in DOMAIN samples}
    IN  /\ \A f \in kept, g \in added[t] \ kept : f.quality >= g.quality
        /\ \A i, j \in DOMAIN samples :
             i < j => samples[i].quality >= samples[j].quality
        /\ kept \subseteq added[t]
        /\ Len(samples) < MaxSamples => kept = added[t]

\* Two tracks are reported as seen together exactly when some frame had a face
\* of each, also when the samples of that frame were trimmed away.
SeenTogether ==
  Cooccurring =
    {p \in (DOMAIN added) \X (DOMAIN added) :
       p[1] < p[2] /\ \E f \in added[p[1]], g \in added[p[2]] : f.frame = g.frame}

\* No face and track that were not joined would both have been better off with
\* each other than with what they got.
NoBetterPair ==
  pc = "begin" =>
    \A c \in candidates : \E d \in taken :
      (d[2] = c[2] \/ d[3] = c[3]) /\ d[1] >= c[1]
=============================================================================
