--------------------------- MODULE TrackingProofs ---------------------------
(***************************************************************************)
(* Proofs about Tracking, for any frames, faces, scores and bounds:        *)
(* tracks are one-to-one within a frame, samples are the best faces, pairs *)
(* seen together are exact, and the assignment is greedy.                  *)
(***************************************************************************)
EXTENDS Tracking, FiniteSetTheorems, SequenceTheorems, TLAPS

Kept(samples) == {samples[i] : i \in 1..Len(samples)}

Sorted(samples) ==
  \A i, j \in 1..Len(samples) : i < j => samples[i].quality >= samples[j].quality

\* These are the best faces of all that were added.
Best(samples, all) ==
  /\ Sorted(samples)
  /\ Kept(samples) \subseteq all
  /\ \A f \in Kept(samples), g \in all \ Kept(samples) : f.quality >= g.quality
  /\ Len(samples) < MaxSamples => Kept(samples) = all

\* The faces of the frame, the steps that are left, and room for their tracks.
Steps ==
  /\ added \in Seq(SUBSET Face) /\ Len(added) = Len(tracks)
  /\ \A i \in 1..Len(faces) : faces[i].frame = frame /\ faces[i].pos = i
  /\ \A c \in candidates : c[2] \in 1..Len(faces) /\ c[3] \in 1..Len(tracks)
  /\ pc = "detect" => faces = <<>> /\ candidates = {} /\ left = {}
  /\ pc \in {"detect", "match"} => at = 1
  /\ pc = "begin" => left = {}
  /\ at <= Len(faces) + 1
  /\ Len(tracks) + (Len(faces) + 1 - at) <= MaxTracks

\* What was looked at is taken or lost to a candidate that is not worse.
Greedy ==
  /\ \A c \in candidates \ left : \E d \in taken :
       (d[2] = c[2] \/ d[3] = c[3]) /\ d[1] >= c[1]
  /\ \A c \in taken, d \in left : c[1] >= d[1]

\* A face of this frame is in the track that it was taken for, or began one.
Placed ==
  \A t \in 1..Len(added) : \A f \in added[t] :
    /\ f.frame <= frame
    /\ f.frame = frame /\ pc # "detect" =>
         f.pos < at \/ \E c \in taken : c[2] = f.pos /\ c[3] = t

Apart ==
  \A t, u \in 1..Len(added) : \A f \in added[t], g \in added[u] :
    /\ t = u /\ f.frame = g.frame => f = g
    /\ t # u => f # g

\* What a track says of the faces that were added to it.
Says(track, all) ==
  /\ track.observed = {f.frame : f \in all}
  /\ Best(track.samples, all)

IInv ==
  /\ TypeOK /\ Steps /\ Greedy /\ Placed /\ Apart
  /\ \A t \in 1..Len(tracks) : Says(tracks[t], added[t])

-----------------------------------------------------------------------------
(* _Track.add.                                                             *)

\* The places of the samples that are not worse than a face.
Above(samples, face) == {i \in DOMAIN samples : samples[i].quality >= face.quality}

\* In sorted samples they are the first ones.
LEMMA AboveFirst ==
  ASSUME NEW s \in Seq(Face), NEW f \in Face, Sorted(s)
  PROVE  /\ Cardinality(Above(s, f)) \in 0..Len(s)
         /\ Above(s, f) = 1..Cardinality(Above(s, f))
<1> DEFINE A == Above(s, f)  n == Cardinality(A)
<1>1. /\ Len(s) \in Nat /\ DOMAIN s = 1..Len(s) /\ A \subseteq 1..Len(s)
      /\ \A i \in 1..Len(s) : s[i] \in Face
  BY LenProperties, ElementOfSeq DEF Above
<1>2. f.quality \in Nat /\ \A i \in 1..Len(s) : s[i].quality \in Nat
  BY <1>1, TrackingAssumption DEF Face
<1>3. /\ IsFiniteSet(1..Len(s)) /\ Cardinality(1..Len(s)) = Len(s)
      /\ IsFiniteSet(A) /\ n <= Len(s) /\ n \in Nat
  <2>1. IsFiniteSet(1..Len(s)) /\ Cardinality(1..Len(s)) = Len(s)
    BY <1>1, FS_Interval
  <2>2. IsFiniteSet(A) /\ n <= Cardinality(1..Len(s))
    BY <1>1, <2>1, FS_Subset
  <2>3. n \in Nat
    BY <2>2, FS_CardinalityType
  <2> QED BY <2>1, <2>2, <2>3
<1>4. ASSUME NEW j \in A, NEW i \in 1..j PROVE i \in A
  <2>1. j \in 1..Len(s) /\ i \in 1..Len(s) /\ s[j].quality >= f.quality
    BY <1>1 DEF Above
  <2>2. s[i].quality >= s[j].quality
    BY <2>1, <1>2 DEF Sorted
  <2> QED BY <2>1, <2>2, <1>1, <1>2 DEF Above
<1>5. ASSUME NEW i \in A PROVE i \in 1..n
  <2>1. i \in 1..Len(s) /\ 1..i \subseteq A
    BY <1>1, <1>4
  <2>2. Cardinality(1..i) = i
    BY <2>1, <1>1, FS_Interval
  <2>3. Cardinality(1..i) <= n
    BY <2>1, <1>3, FS_Subset
  <2> QED BY <2>1, <2>2, <2>3, <1>1, <1>3
<1>6. ASSUME NEW i \in 1..n, i \notin A PROVE FALSE
  <2>1. i \in 1..Len(s)
    BY <1>1, <1>3
  <2>2. A \subseteq 1..(i - 1)
    BY <1>1, <1>4, <1>6, <2>1
  <2>3. IsFiniteSet(1..(i - 1)) /\ Cardinality(1..(i - 1)) = i - 1
    BY <2>1, FS_Interval
  <2>4. n <= i - 1
    BY <2>2, <2>3, FS_Subset
  <2> QED BY <2>1, <2>4, <1>3
<1>7. A = 1..n
  BY <1>5, <1>6
<1>8. n \in 0..Len(s)
  BY <1>1, <1>3
<1> QED BY <1>7, <1>8

\* The face comes after them.
LEMMA InsertedPlaces ==
  ASSUME NEW s \in Seq(Face), NEW f \in Face, Sorted(s)
  PROVE  LET n == Cardinality(Above(s, f))
             new == Inserted(s, f)
         IN  /\ n \in 0..Len(s) /\ Len(s) \in Nat
             /\ new \in Seq(Face) /\ Len(new) = Len(s) + 1
             /\ \A i \in 1..n : new[i] = s[i] /\ s[i].quality >= f.quality
             /\ new[n + 1] = f
             /\ \A i \in (n + 1)..Len(s) : new[i + 1] = s[i] /\ s[i].quality < f.quality
<1> DEFINE n == Cardinality(Above(s, f))
           front == SubSeq(s, 1, n)
           back == SubSeq(s, n + 1, Len(s))
<1>1. n \in 0..Len(s) /\ Above(s, f) = 1..n
  BY AboveFirst
<1>2. /\ Len(s) \in Nat /\ DOMAIN s = 1..Len(s)
      /\ \A i \in 1..Len(s) : s[i] \in Face
  BY LenProperties, ElementOfSeq
<1>3. f.quality \in Nat /\ \A i \in 1..Len(s) : s[i].quality \in Nat
  BY <1>2, TrackingAssumption DEF Face
<1>4. Inserted(s, f) = front \o <<f>> \o back
  BY DEF Inserted, Above
<1> HIDE DEF n
<1>5. /\ front \in Seq(Face) /\ Len(front) = n
      /\ \A i \in 1..n : front[i] = s[i]
  <2>1. \A i \in 1..n : s[i] \in Face
    BY <1>1, <1>2
  <2>2. /\ front \in Seq(Face) /\ Len(front) = (IF 1 <= n THEN n - 1 + 1 ELSE 0)
        /\ \A i \in 1..(n - 1 + 1) : front[i] = s[1 + i - 1]
    BY <2>1, <1>1, SubSeqProperties
  <2> QED BY <2>2, <1>1
<1>6. /\ back \in Seq(Face) /\ Len(back) = Len(s) - n
      /\ \A i \in 1..(Len(s) - n) : back[i] = s[n + i]
  <2>1. \A i \in (n + 1)..Len(s) : s[i] \in Face
    BY <1>1, <1>2
  <2>2. /\ back \in Seq(Face)
        /\ Len(back) = (IF n + 1 <= Len(s) THEN Len(s) - (n + 1) + 1 ELSE 0)
        /\ \A i \in 1..(Len(s) - (n + 1) + 1) : back[i] = s[n + 1 + i - 1]
    BY <2>1, <1>1, <1>2, SubSeqProperties
  <2> HIDE DEF back
  <2>3. Len(back) = Len(s) - n
    <3>1. n \in Nat /\ Len(s) \in Nat /\ n <= Len(s)
      BY <1>1, <1>2
    <3>2. CASE n + 1 <= Len(s)
      BY <3>1, <3>2, <2>2
    <3>3. CASE n = Len(s)
      BY <3>1, <3>3, <2>2
    <3> QED BY <3>1, <3>2, <3>3
  <2>4. ASSUME NEW i \in 1..(Len(s) - n) PROVE back[i] = s[n + i]
    <3>1. i \in 1..(Len(s) - (n + 1) + 1) /\ n + 1 + i - 1 = n + i
      BY <1>1, <1>2
    <3> QED BY <3>1, <2>2
  <2> QED BY <2>2, <2>3, <2>4
<1>7. <<f>> \in Seq(Face) /\ Len(<<f>>) = 1 /\ <<f>>[1] = f
  OBVIOUS
<1>8. /\ front \o <<f>> \in Seq(Face) /\ Len(front \o <<f>>) = n + 1
      /\ \A i \in 1..(n + 1) :
           (front \o <<f>>)[i] = IF i <= n THEN s[i] ELSE f
  <2>1. /\ front \o <<f>> \in Seq(Face) /\ Len(front \o <<f>>) = Len(front) + Len(<<f>>)
        /\ \A i \in 1..(Len(front) + Len(<<f>>)) : (front \o <<f>>)[i] =
             IF i <= Len(front) THEN front[i] ELSE <<f>>[i - Len(front)]
    BY <1>5, <1>7, ConcatProperties
  <2> QED BY <2>1, <1>1, <1>5, <1>7
<1>9. /\ Inserted(s, f) \in Seq(Face) /\ Len(Inserted(s, f)) = Len(s) + 1
      /\ \A i \in 1..(Len(s) + 1) : Inserted(s, f)[i] =
           IF i <= n THEN s[i] ELSE IF i = n + 1 THEN f ELSE s[i - 1]
  <2> DEFINE head == front \o <<f>>
  <2>1. /\ head \o back \in Seq(Face) /\ Len(head \o back) = Len(head) + Len(back)
        /\ \A i \in 1..(Len(head) + Len(back)) : (head \o back)[i] =
             IF i <= Len(head) THEN head[i] ELSE back[i - Len(head)]
    BY <1>6, <1>8, ConcatProperties
  <2>2. Len(head) = n + 1 /\ \A i \in 1..(n + 1) : head[i] = IF i <= n THEN s[i] ELSE f
    BY <1>8
  <2> HIDE DEF head, back
  <2>3. n \in Nat /\ Len(s) \in Nat /\ n <= Len(s) /\ Len(back) = Len(s) - n
    BY <1>1, <1>2, <1>6
  <2>4. ASSUME NEW i \in 1..(Len(s) + 1), i > n + 1 PROVE back[i - (n + 1)] = s[i - 1]
    <3>1. i - (n + 1) \in 1..(Len(s) - n) /\ n + (i - (n + 1)) = i - 1
      BY <2>3, <2>4
    <3> QED BY <3>1, <1>6
  <2> DEFINE new == head \o back
  <2>5. /\ new \in Seq(Face) /\ Len(new) = Len(s) + 1
        /\ \A i \in 1..(Len(s) + 1) : new[i] =
             IF i <= n + 1 THEN head[i] ELSE back[i - (n + 1)]
    BY <2>1, <2>2, <2>3
  <2> HIDE DEF new
  <2>6. ASSUME NEW i \in 1..(Len(s) + 1)
        PROVE  new[i] = IF i <= n THEN s[i] ELSE IF i = n + 1 THEN f ELSE s[i - 1]
    <3>1. CASE i <= n + 1
      <4>1. i \in 1..(n + 1)
        BY <2>3, <3>1
      <4> QED BY <4>1, <3>1, <2>2, <2>3, <2>5
    <3>2. CASE i > n + 1
      BY <2>3, <2>4, <2>5, <3>2
    <3> QED BY <2>3, <3>1, <3>2
  <2>7. Inserted(s, f) = new
    BY <1>4 DEF new, head, back
  <2> QED BY <2>5, <2>6, <2>7
<1>10. \A i \in 1..n : s[i].quality >= f.quality
  BY <1>1 DEF Above
<1>11. \A i \in (n + 1)..Len(s) : s[i].quality < f.quality
  <2> SUFFICES ASSUME NEW i \in (n + 1)..Len(s) PROVE s[i].quality < f.quality
    OBVIOUS
  <2>1. i \in 1..Len(s) /\ i \notin Above(s, f)
    BY <1>1, <1>2
  <2> QED BY <2>1, <1>2, <1>3 DEF Above
<1> QED BY <1>1, <1>2, <1>9, <1>10, <1>11 DEF n

\* The samples stay sorted, and the face is one of them.
LEMMA InsertedSorted ==
  ASSUME NEW s \in Seq(Face), NEW f \in Face, Sorted(s)
  PROVE  Sorted(Inserted(s, f)) /\ Kept(Inserted(s, f)) = Kept(s) \cup {f}
<1> DEFINE n == Cardinality(Above(s, f))
           new == Inserted(s, f)
<1>1. /\ n \in 0..Len(s) /\ Len(s) \in Nat
      /\ new \in Seq(Face) /\ Len(new) = Len(s) + 1
      /\ \A i \in 1..n : new[i] = s[i] /\ s[i].quality >= f.quality
      /\ new[n + 1] = f
      /\ \A i \in (n + 1)..Len(s) : new[i + 1] = s[i] /\ s[i].quality < f.quality
  BY InsertedPlaces
<1> HIDE DEF n, new
<1>2. f.quality \in Nat /\ \A i \in 1..Len(s) : s[i].quality \in Nat
  <2>1. \A i \in 1..Len(s) : s[i] \in Face
    BY ElementOfSeq
  <2> QED BY <2>1, TrackingAssumption DEF Face
<1>3. ASSUME NEW i \in 1..Len(new), i > n + 1
      PROVE  i - 1 \in (n + 1)..Len(s) /\ new[i] = s[i - 1] /\ s[i - 1].quality < f.quality
  <2>1. i - 1 \in (n + 1)..Len(s) /\ (i - 1) + 1 = i
    BY <1>1, <1>3
  <2> QED BY <2>1, <1>1
<1>4. Sorted(new)
  <2> SUFFICES ASSUME NEW i \in 1..Len(new), NEW j \in 1..Len(new), i < j
               PROVE  new[i].quality >= new[j].quality
    BY DEF Sorted
  <2>1. CASE j <= n
    <3>1. /\ i \in 1..n /\ j \in 1..n
          /\ i \in 1..Len(s) /\ j \in 1..Len(s)
      BY <1>1, <2>1
    <3> QED BY <3>1, <1>1 DEF Sorted
  <2>2. CASE i <= n /\ j = n + 1
    <3>1. i \in 1..n
      BY <1>1, <2>2
    <3> QED BY <3>1, <1>1, <2>2
  <2>3. CASE i <= n /\ j > n + 1
    <3>1. i \in 1..n /\ i \in 1..Len(s) /\ j - 1 \in 1..Len(s)
      BY <1>1, <2>3
    <3>2. new[i] = s[i] /\ new[j] = s[j - 1]
      BY <3>1, <1>1, <1>3, <2>3
    <3>3. s[i].quality >= f.quality /\ s[j - 1].quality < f.quality
      BY <3>1, <1>1, <1>3, <2>3
    <3> QED BY <3>1, <3>2, <3>3, <1>2
  <2>4. CASE i = n + 1
    <3>1. j > n + 1 /\ j - 1 \in 1..Len(s)
      BY <1>1, <2>4
    <3>2. new[j] = s[j - 1] /\ s[j - 1].quality < f.quality
      BY <3>1, <1>3
    <3> QED BY <3>1, <3>2, <1>1, <1>2, <2>4
  <2>5. CASE i > n + 1
    <3>1. i - 1 \in 1..Len(s) /\ j - 1 \in 1..Len(s) /\ i - 1 < j - 1 /\ j > n + 1
      BY <1>1, <2>5
    <3>2. new[i] = s[i - 1] /\ new[j] = s[j - 1]
      BY <3>1, <1>3, <2>5
    <3> QED BY <3>1, <3>2 DEF Sorted
  <2> QED BY <2>1, <2>2, <2>3, <2>4, <2>5, <1>1
<1>5. ASSUME NEW i \in 1..Len(new) PROVE new[i] \in Kept(s) \cup {f}
  <2>1. CASE i <= n
    BY <2>1, <1>1 DEF Kept
  <2>2. CASE i = n + 1
    BY <2>2, <1>1
  <2>3. CASE i > n + 1
    <3>1. new[i] = s[i - 1] /\ i - 1 \in 1..Len(s)
      BY <2>3, <1>1, <1>3
    <3> QED BY <3>1 DEF Kept
  <2> QED BY <2>1, <2>2, <2>3, <1>1
<1>6. ASSUME NEW i \in 1..Len(s) PROVE s[i] \in Kept(new)
  <2>1. CASE i <= n
    <3>1. i \in 1..Len(new) /\ new[i] = s[i]
      BY <2>1, <1>1
    <3> QED BY <3>1 DEF Kept
  <2>2. CASE i > n
    <3>1. i + 1 \in 1..Len(new) /\ new[i + 1] = s[i]
      BY <2>2, <1>1
    <3> QED BY <3>1 DEF Kept
  <2> QED BY <2>1, <2>2, <1>1
<1>7. f \in Kept(new)
  <2>1. n + 1 \in 1..Len(new)
    BY <1>1
  <2> QED BY <2>1, <1>1 DEF Kept
<1>8. Kept(new) = Kept(s) \cup {f}
  BY <1>5, <1>6, <1>7 DEF Kept
<1> QED BY <1>4, <1>8 DEF new

\* _Track.add leaves the best faces.
LEMMA AddLeavesBest ==
  ASSUME NEW s \in Seq(Face), NEW f \in Face, NEW all \in SUBSET Face,
         Len(s) \in 1..MaxSamples, Best(s, all)
  PROVE  LET new == Trimmed(Inserted(s, f))
         IN  /\ new \in Seq(Face) /\ Len(new) \in 1..MaxSamples
             /\ Best(new, all \cup {f})
<1> DEFINE n == Cardinality(Above(s, f))
           ins == Inserted(s, f)
           new == Trimmed(Inserted(s, f))
<1>1. MaxSamples \in Nat \ {0} /\ Quality \subseteq Nat
  BY TrackingAssumption
<1>2. /\ n \in 0..Len(s) /\ Len(s) \in Nat
      /\ ins \in Seq(Face) /\ Len(ins) = Len(s) + 1
      /\ \A i \in 1..n : ins[i] = s[i]
      /\ ins[n + 1] = f
      /\ \A i \in (n + 1)..Len(s) : ins[i + 1] = s[i]
  BY InsertedPlaces DEF Best
<1>3. Sorted(ins) /\ Kept(ins) = Kept(s) \cup {f}
  BY InsertedSorted DEF Best
<1>4. \A i \in 1..Len(ins) : ins[i] \in Face
  BY <1>2, ElementOfSeq
<1>5. CASE Len(s) < MaxSamples
  <2>1. new = ins
    BY <1>1, <1>2, <1>5 DEF Trimmed
  <2>2. Kept(new) = all \cup {f}
    BY <2>1, <1>3, <1>5 DEF Best
  <2> QED BY <2>1, <2>2, <1>1, <1>2, <1>3, <1>5 DEF Best
<1>6. CASE Len(s) = MaxSamples
  <2>1. new = SubSeq(ins, 1, MaxSamples)
    BY <1>1, <1>2, <1>6 DEF Trimmed
  <2> HIDE DEF n, ins, new
  <2>2. /\ new \in Seq(Face) /\ Len(new) = MaxSamples
        /\ \A i \in 1..MaxSamples : new[i] = ins[i]
    <3>1. \A i \in 1..MaxSamples : ins[i] \in Face
      BY <1>1, <1>2, <1>4, <1>6
    <3>2. /\ SubSeq(ins, 1, MaxSamples) \in Seq(Face)
          /\ Len(SubSeq(ins, 1, MaxSamples)) =
               IF 1 <= MaxSamples THEN MaxSamples - 1 + 1 ELSE 0
          /\ \A i \in 1..(MaxSamples - 1 + 1) :
               SubSeq(ins, 1, MaxSamples)[i] = ins[1 + i - 1]
      BY <3>1, <1>1, SubSeqProperties
    <3> QED BY <3>2, <2>1, <1>1
  <2>3. /\ MaxSamples + 1 \in 1..Len(ins) /\ 1..MaxSamples \subseteq 1..Len(ins)
        /\ 1..Len(ins) = 1..MaxSamples \cup {MaxSamples + 1}
    BY <1>1, <1>2, <1>6
  <2> DEFINE last == ins[MaxSamples + 1]
  <2>4. Kept(s) \cup {f} = Kept(new) \cup {last} /\ Kept(new) \subseteq Face /\ last \in Face
    <3>1. Kept(new) = {ins[i] : i \in 1..MaxSamples}
      BY <2>2 DEF Kept
    <3>2. Kept(ins) = {ins[i] : i \in 1..MaxSamples} \cup {last}
      BY <2>3 DEF Kept
    <3> QED BY <3>1, <3>2, <1>3, <1>4, <2>3
  <2>5. Sorted(new)
    BY <1>3, <2>2, <2>3 DEF Sorted
  <2>6. \A g \in Kept(new) : g.quality >= last.quality
    <3> SUFFICES ASSUME NEW i \in 1..MaxSamples PROVE new[i].quality >= last.quality
      BY <2>2 DEF Kept
    <3>1. i \in 1..Len(ins) /\ i < MaxSamples + 1
      BY <1>1, <2>3
    <3> QED BY <3>1, <1>3, <2>2, <2>3 DEF Sorted
  <2>7. Kept(new) \subseteq Kept(s) \/ last \in Kept(s)
    <3>1. CASE n = MaxSamples
      <4>1. \A i \in 1..MaxSamples : new[i] = s[i]
        BY <3>1, <1>2, <2>2
      <4> QED BY <4>1, <2>2, <1>6 DEF Kept
    <3>2. CASE n < MaxSamples
      <4>1. MaxSamples \in (n + 1)..Len(s) /\ MaxSamples \in 1..Len(s)
        BY <3>2, <1>1, <1>2, <1>6
      <4> QED BY <4>1, <1>2 DEF Kept
    <3> QED BY <3>1, <3>2, <1>1, <1>2, <1>6
  <2>8. ASSUME NEW h \in Kept(new), NEW g \in (all \cup {f}) \ Kept(new)
        PROVE  h.quality >= g.quality
    <3>1. h.quality \in Nat /\ g.quality \in Nat /\ last.quality \in Nat
      BY <2>4, <1>1 DEF Face
    <3>2. CASE g = last
      BY <3>2, <2>6
    <3>3. CASE g # last
      <4>1. g \in all \ Kept(s)
        BY <3>3, <2>4
      <4>2. CASE Kept(new) \subseteq Kept(s)
        BY <4>1, <4>2 DEF Best
      <4>3. CASE last \in Kept(s)
        <5>1. last.quality >= g.quality
          BY <4>1, <4>3 DEF Best
        <5>2. h.quality >= last.quality
          BY <2>6
        <5> HIDE DEF last
        <5> QED BY <5>1, <5>2, <3>1
      <4> QED BY <4>2, <4>3, <2>7
    <3> QED BY <3>2, <3>3
  <2>9. Kept(new) \subseteq all \cup {f}
    BY <2>4 DEF Best
  <2>10. Best(new, all \cup {f})
    BY <2>2, <2>5, <2>8, <2>9, <1>1 DEF Best
  <2>11. Len(new) \in 1..MaxSamples
    BY <2>2, <1>1
  <2> QED BY <2>2, <2>10, <2>11 DEF new
<1> QED BY <1>5, <1>6, <1>1, <1>2

-----------------------------------------------------------------------------
(* Tracks.                                                                 *)

\* A track that a face was added to.
LEMMA WithFace ==
  ASSUME NEW track \in Track, Len(track.samples) \in 1..MaxSamples,
         NEW all \in SUBSET Face, Says(track, all), NEW f \in Face
  PROVE  /\ With(track, f) \in Track
         /\ Len(With(track, f).samples) \in 1..MaxSamples
         /\ Says(With(track, f), all \cup {f})
<1> DEFINE new == Trimmed(Inserted(track.samples, f))
<1>1. /\ track.samples \in Seq(Face) /\ track.observed \in SUBSET (1..MaxFrames)
      /\ f.frame \in 1..MaxFrames
  BY DEF Track, Face
<1>2. new \in Seq(Face) /\ Len(new) \in 1..MaxSamples /\ Best(new, all \cup {f})
  BY <1>1, AddLeavesBest DEF Says
<1> HIDE DEF new
<1>3. With(track, f) = [samples |-> new, observed |-> track.observed \cup {f.frame},
                        last |-> f.frame]
  BY DEF With, new
<1>4. With(track, f) \in Track
  BY <1>1, <1>2, <1>3 DEF Track
<1>5. With(track, f).observed = {g.frame : g \in all \cup {f}}
  BY <1>3 DEF Says
<1> QED BY <1>2, <1>3, <1>4, <1>5 DEF Says

\* A track that a face began.
LEMMA FaceBegins ==
  ASSUME NEW f \in Face
  PROVE  /\ NewTrack(f) \in Track /\ Len(NewTrack(f).samples) \in 1..MaxSamples
         /\ Says(NewTrack(f), {f})
<1>1. /\ <<f>> \in Seq(Face) /\ Len(<<f>>) = 1 /\ Kept(<<f>>) = {f} /\ Sorted(<<f>>)
      /\ f.frame \in 1..MaxFrames
  BY DEF Face, Kept, Sorted
<1>2. MaxSamples \in Nat \ {0}
  BY TrackingAssumption
<1>3. NewTrack(f) \in Track
  BY <1>1 DEF NewTrack, Track
<1> QED BY <1>1, <1>2, <1>3 DEF NewTrack, Says, Best

-----------------------------------------------------------------------------
(* The steps.                                                              *)

LEMMA IInvInit == Init => IInv
<1> SUFFICES ASSUME Init PROVE IInv
  OBVIOUS
<1>1. Len(tracks) = 0 /\ Len(faces) = 0 /\ Len(added) = 0
  BY DEF Init
<1>2. {MaxFrames, MaxFaces, MaxTracks} \subseteq Nat
  BY TrackingAssumption
<1>3. TypeOK
  BY <1>1, <1>2 DEF Init, TypeOK
<1>4. Steps
  BY <1>1, <1>2 DEF Init, Steps
<1>5. Greedy /\ Placed /\ Apart
  BY <1>1 DEF Init, Greedy, Placed, Apart
<1> QED BY <1>1, <1>3, <1>4, <1>5 DEF IInv

LEMMA DetectStep ==
  ASSUME IInv, NEW n \in 0..MaxFaces, NEW qualities \in [1..n -> Quality],
         Detect(qualities)
  PROVE  IInv'
<1>1. /\ {MaxFrames, MaxFaces, MaxTracks} \subseteq Nat
      /\ Quality \subseteq Nat /\ Scores \subseteq Nat
  BY TrackingAssumption
<1>2. Len(qualities) = n /\ DOMAIN qualities = 1..n /\ n \in Nat
  BY <1>1
<1>3. faces' = [i \in 1..n |-> [frame |-> frame + 1, pos |-> i, quality |-> qualities[i]]]
  BY <1>2 DEF Detect
<1>4. frame \in 0..MaxFrames /\ frame < MaxFrames /\ frame' = frame + 1
  BY DEF Detect, IInv, TypeOK
<1>5. faces' \in Seq(Face) /\ Len(faces') = n
  <2>1. \A i \in 1..n :
          [frame |-> frame + 1, pos |-> i, quality |-> qualities[i]] \in Face
    BY <1>1, <1>4 DEF Face
  <2> QED BY <1>2, <1>3, <2>1
<1>6. /\ pc = "detect" /\ pc' = "match" /\ at = 1 /\ at' = 1 /\ tracks' = tracks
      /\ added' = added /\ taken' = {} /\ left' = candidates'
      /\ Len(tracks) + n <= MaxTracks
      /\ DOMAIN tracks = 1..Len(tracks) /\ Len(tracks) \in Nat
  BY <1>2 DEF Detect, IInv, TypeOK, Steps
<1>7. \A c \in candidates' :
        c \in Candidate /\ c[2] \in 1..n /\ c[3] \in 1..Len(tracks)
  <2>1. PICK scored \in SUBSET ((DOMAIN faces') \X {t \in DOMAIN tracks : Near(t)}) :
          \E score \in [scored -> Scores] :
            candidates' = {<<score[p], p[1], p[2]>> : p \in scored}
    BY DEF Detect
  <2>2. PICK score \in [scored -> Scores] :
          candidates' = {<<score[p], p[1], p[2]>> : p \in scored}
    BY <2>1
  <2>3. ASSUME NEW p \in scored
        PROVE  score[p] \in Scores /\ p[1] \in 1..n /\ p[2] \in 1..Len(tracks)
    BY <1>3, <1>6
  <2>4. 1..n \subseteq 1..MaxFaces /\ 1..Len(tracks) \subseteq 1..MaxTracks
    BY <1>1, <1>2, <1>6
  <2> QED BY <2>2, <2>3, <2>4 DEF Candidate
<1>8. TypeOK'
  <2>1. candidates' \subseteq Candidate /\ Len(faces') <= MaxFaces /\ frame' \in 0..MaxFrames
    BY <1>1, <1>4, <1>5, <1>7
  <2> QED BY <1>5, <1>6, <2>1 DEF IInv, TypeOK
<1>9. Steps'
  <2>1. \A i \in 1..n : faces'[i].frame = frame' /\ faces'[i].pos = i
    BY <1>3, <1>4
  <2>2. added \in Seq(SUBSET Face) /\ Len(added) = Len(tracks)
    BY DEF IInv, Steps
  <2> QED BY <1>1, <1>2, <1>5, <1>6, <1>7, <2>1, <2>2 DEF Steps
<1>10. Greedy'
  BY <1>6 DEF Greedy
<1>11. Placed'
  <2> SUFFICES ASSUME NEW t \in 1..Len(added), NEW f \in added[t]
               PROVE  f.frame <= frame' /\ f.frame # frame'
    BY <1>6 DEF Placed
  <2>1. f.frame <= frame /\ f \in Face
    BY ElementOfSeq DEF IInv, Placed, Steps
  <2> QED BY <2>1, <1>1, <1>4 DEF Face
<1>12. Apart' /\ \A t \in 1..Len(tracks') : Says(tracks'[t], added'[t])
  BY <1>6 DEF IInv, Apart
<1> QED BY <1>8, <1>9, <1>10, <1>11, <1>12 DEF IInv

LEMMA MatchedStep == ASSUME IInv, Matched PROVE IInv'
<1>1. /\ pc' = "begin" /\ at' = 1 /\ left = {} /\ pc = "match" /\ at = 1
      /\ UNCHANGED <<frame, faces, candidates, taken, left, tracks, added>>
  BY DEF Matched, IInv, Steps
<1>2. TypeOK' /\ Steps'
  BY <1>1 DEF IInv, TypeOK, Steps
<1>3. Greedy' /\ Placed' /\ Apart'
  BY <1>1 DEF IInv, Greedy, Placed, Apart
<1> QED BY <1>1, <1>2, <1>3 DEF IInv

LEMMA FrameDoneStep == ASSUME IInv, FrameDone PROVE IInv'
<1>1. /\ pc' = "detect" /\ at' = 1 /\ left = {} /\ at = Len(faces) + 1
      /\ faces' = <<>> /\ candidates' = {} /\ taken' = {}
      /\ UNCHANGED <<frame, left, tracks, added>>
  BY DEF FrameDone, IInv, TypeOK, Steps
<1>2. Len(faces') = 0 /\ {MaxFaces, MaxTracks} \subseteq Nat /\ Len(faces) \in Nat
      /\ Len(tracks) \in Nat
  BY <1>1, TrackingAssumption DEF IInv, TypeOK
<1>3. TypeOK'
  BY <1>1, <1>2 DEF IInv, TypeOK
<1>4. Steps'
  BY <1>1, <1>2 DEF IInv, Steps
<1>5. Greedy' /\ Placed' /\ Apart'
  BY <1>1 DEF IInv, Greedy, Placed, Apart
<1> QED BY <1>1, <1>3, <1>4, <1>5 DEF IInv

\* The best candidate left joins its face and its track, or is lost.
LEMMA MatchStep == ASSUME IInv, NEW c \in left, Match(c) PROVE IInv'
<1>1. /\ Scores \subseteq Nat /\ {MaxFaces, MaxTracks} \subseteq Nat
      /\ c \in candidates /\ candidates \subseteq Candidate
      /\ pc = "match" /\ at = 1 /\ left' = left \ {c}
      /\ UNCHANGED <<frame, pc, faces, candidates, at>>
      /\ taken \subseteq candidates /\ left \subseteq candidates
  BY TrackingAssumption DEF Match, IInv, TypeOK, Steps
<1>2. \A d \in candidates : d[1] \in Nat
  <2> SUFFICES ASSUME NEW d \in Candidate PROVE d[1] \in Scores
    BY <1>1
  <2> QED BY DEF Candidate
<1>3. \A d \in left : c[1] >= d[1]
  BY <1>1, <1>2 DEF Match, Before
<1>4. CASE Used(c)
  <2>1. UNCHANGED <<taken, tracks, added>>
    BY <1>4 DEF Match
  <2>2. TypeOK'
    BY <1>1, <2>1 DEF IInv, TypeOK
  <2>3. Steps'
    BY <1>1, <2>1 DEF IInv, Steps
  <2>4. \E d \in taken : (d[2] = c[2] \/ d[3] = c[3]) /\ d[1] >= c[1]
    BY <1>4 DEF Used, IInv, Greedy
  <2>5. Greedy'
    BY <1>1, <2>1, <2>4 DEF IInv, Greedy
  <2>6. Placed' /\ Apart'
    BY <1>1, <2>1 DEF IInv, Placed, Apart
  <2> QED BY <2>1, <2>2, <2>3, <2>5, <2>6 DEF IInv
<1>5. CASE ~Used(c)
  <2> DEFINE face == faces[c[2]]  k == c[3]
  <2>1. /\ taken' = taken \cup {c}
        /\ tracks' = [tracks EXCEPT ![k] = With(tracks[k], face)]
        /\ added' = [added EXCEPT ![k] = added[k] \cup {face}]
    BY <1>5 DEF Match
  <2>2. /\ faces \in Seq(Face) /\ c[2] \in 1..Len(faces) /\ k \in 1..Len(tracks)
        /\ tracks \in Seq(Track) /\ Len(tracks) \in Nat /\ Len(tracks) <= MaxTracks
        /\ added \in Seq(SUBSET Face) /\ Len(added) = Len(tracks)
    BY <1>1 DEF IInv, TypeOK, Steps
  <2>3. /\ face \in Face /\ face.frame = frame /\ face.pos = c[2]
        /\ tracks[k] \in Track /\ added[k] \in SUBSET Face
        /\ DOMAIN tracks = 1..Len(tracks)
    BY <2>2, ElementOfSeq, LenProperties DEF IInv, Steps
  <2>4. Len(tracks[k].samples) \in 1..MaxSamples /\ Says(tracks[k], added[k])
    BY <2>2, <2>3 DEF IInv, TypeOK
  <2> HIDE DEF face, k
  <2>5. /\ With(tracks[k], face) \in Track
        /\ Len(With(tracks[k], face).samples) \in 1..MaxSamples
        /\ Says(With(tracks[k], face), added[k] \cup {face})
    BY <2>3, <2>4, WithFace
  <2>6. /\ tracks' \in Seq(Track) /\ Len(tracks') = Len(tracks)
        /\ \A t \in 1..Len(tracks) :
             tracks'[t] = IF t = k THEN With(tracks[k], face) ELSE tracks[t]
    BY <2>1, <2>2, <2>5, ExceptSeq
  <2>7. /\ added' \in Seq(SUBSET Face) /\ Len(added') = Len(added)
        /\ \A t \in 1..Len(added) :
             added'[t] = IF t = k THEN added[k] \cup {face} ELSE added[t]
    <3>1. added[k] \cup {face} \in SUBSET Face
      BY <2>3
    <3> QED BY <2>1, <2>2, <3>1, ExceptSeq
  <2>8. /\ DOMAIN tracks' = 1..Len(tracks') /\ DOMAIN added' = 1..Len(added')
        /\ \A t \in 1..Len(added') : added'[t] \in SUBSET Face
    BY <2>6, <2>7, LenProperties, ElementOfSeq
  <2>9. \A t \in 1..Len(tracks') :
          Len(tracks'[t].samples) \in 1..MaxSamples /\ Says(tracks'[t], added'[t])
    <3> SUFFICES ASSUME NEW t \in 1..Len(tracks)
                 PROVE  /\ Len(tracks'[t].samples) \in 1..MaxSamples
                        /\ Says(tracks'[t], added'[t])
      BY <2>6
    <3>1. CASE t = k
      BY <3>1, <2>2, <2>5, <2>6, <2>7
    <3>2. CASE t # k
      <4>1. tracks'[t] = tracks[t] /\ added'[t] = added[t]
        BY <3>2, <2>2, <2>6, <2>7
      <4> QED BY <4>1, <2>3 DEF IInv, TypeOK
    <3> QED BY <3>1, <3>2
  <2>10. TypeOK'
    BY <1>1, <2>1, <2>2, <2>6, <2>7, <2>8, <2>9 DEF IInv, TypeOK
  <2>11. Steps'
    BY <1>1, <2>2, <2>6, <2>7 DEF IInv, Steps
  <2>12. Greedy'
    <3>1. c[1] >= c[1]
      BY <1>1, <1>2
    <3>2. \A d \in candidates' \ left' : \E e \in taken' :
            (e[2] = d[2] \/ e[3] = d[3]) /\ e[1] >= d[1]
      BY <1>1, <2>1, <3>1 DEF IInv, Greedy
    <3>3. \A e \in taken', d \in left' : e[1] >= d[1]
      BY <1>1, <1>3, <2>1 DEF IInv, Greedy
    <3> QED BY <3>2, <3>3 DEF Greedy
  <2>13. ASSUME NEW t \in 1..Len(added), NEW f \in added[t], f.frame = frame
         PROVE  /\ \E d \in taken : d[2] = f.pos /\ d[3] = t
                /\ t # k /\ f # face
    <3>1. f \in Face /\ f.pos \in 1..MaxFaces
      BY <2>2, <2>13, ElementOfSeq DEF Face
    <3>2. PICK d \in taken : d[2] = f.pos /\ d[3] = t
      BY <3>1, <1>1, <2>13 DEF IInv, Placed
    <3> QED BY <3>2, <1>5, <2>3 DEF Used, k
  <2>14. Placed'
    <3> SUFFICES ASSUME NEW t \in 1..Len(added'), NEW f \in added'[t]
                 PROVE  /\ f.frame <= frame
                        /\ f.frame = frame =>
                             \E d \in taken' : d[2] = f.pos /\ d[3] = t
      BY <1>1 DEF Placed
    <3>1. CASE f \in added[t]
      BY <3>1, <2>1, <2>7, <2>13 DEF IInv, Placed
    <3>2. CASE f \notin added[t]
      <4>1. f = face /\ t = k
        BY <3>2, <2>7
      <4>2. frame \in Nat
        BY TrackingAssumption DEF IInv, TypeOK
      <4> QED BY <4>1, <4>2, <2>1, <2>3 DEF k
    <3> QED BY <3>1, <3>2
  <2>15. Apart'
    <3> SUFFICES ASSUME NEW t \in 1..Len(added), NEW u \in 1..Len(added),
                        NEW f \in added'[t], NEW g \in added'[u]
                 PROVE  /\ t = u /\ f.frame = g.frame => f = g
                        /\ t # u => f # g
      BY <2>7 DEF Apart
    <3>1. f \in added[t] \/ (f = face /\ t = k)
      BY <2>7
    <3>2. g \in added[u] \/ (g = face /\ u = k)
      BY <2>7
    <3>3. CASE f \in added[t] /\ g \in added[u]
      BY <3>3 DEF IInv, Apart
    <3>4. CASE f \in added[t] /\ g = face /\ u = k
      BY <3>4, <2>3, <2>13
    <3>5. CASE g \in added[u] /\ f = face /\ t = k
      BY <3>5, <2>3, <2>13
    <3>6. CASE f = face /\ t = k /\ g = face /\ u = k
      BY <3>6
    <3> QED BY <3>1, <3>2, <3>3, <3>4, <3>5, <3>6
  <2> QED BY <2>9, <2>10, <2>11, <2>12, <2>14, <2>15 DEF IInv
<1> QED BY <1>4, <1>5

\* The next face begins a track, or was taken.
LEMMA BeginTrackStep == ASSUME IInv, BeginTrack PROVE IInv'
<1>1. /\ {MaxFaces, MaxTracks, MaxFrames} \subseteq Nat
      /\ pc = "begin" /\ left = {} /\ at' = at + 1
      /\ UNCHANGED <<frame, pc, faces, candidates, taken, left>>
      /\ faces \in Seq(Face) /\ Len(faces) \in Nat /\ Len(faces) <= MaxFaces
      /\ at \in 1..Len(faces) /\ at' \in 1..(MaxFaces + 1) /\ at' <= Len(faces) + 1
  BY TrackingAssumption DEF BeginTrack, IInv, TypeOK, Steps
<1>2. /\ tracks \in Seq(Track) /\ Len(tracks) \in Nat /\ Len(tracks) <= MaxTracks
      /\ added \in Seq(SUBSET Face) /\ Len(added) = Len(tracks)
      /\ Len(tracks) + 1 <= MaxTracks
      /\ Len(tracks) + 1 + (Len(faces) + 1 - at') <= MaxTracks
  BY <1>1 DEF IInv, TypeOK, Steps
<1>3. \A t \in 1..Len(added) : \A f \in added[t] : f.frame = frame =>
        f.pos < at \/ \E c \in taken : c[2] = f.pos /\ c[3] = t
  BY <1>1 DEF IInv, Placed
<1>4. Greedy'
  BY <1>1 DEF IInv, Greedy
<1>5. CASE \E c \in taken : c[2] = at
  <2>1. UNCHANGED <<tracks, added>>
    BY <1>5 DEF BeginTrack
  <2>2. TypeOK'
    BY <1>1, <2>1 DEF IInv, TypeOK
  <2>3. Steps'
    BY <1>1, <1>2, <2>1 DEF IInv, Steps
  <2>4. \A t \in 1..Len(added) : added[t] \in SUBSET Face
    BY <1>2, ElementOfSeq
  <2>5. Placed'
    <3> SUFFICES ASSUME NEW t \in 1..Len(added), NEW f \in added[t]
                 PROVE  /\ f.frame <= frame
                        /\ f.frame = frame =>
                             f.pos < at' \/ \E c \in taken : c[2] = f.pos /\ c[3] = t
      BY <1>1, <2>1 DEF Placed
    <3>1. f.pos \in Nat
      BY <2>4, <1>1 DEF Face
    <3> QED BY <3>1, <1>1, <1>3 DEF IInv, Placed
  <2>6. Apart'
    BY <2>1 DEF IInv, Apart
  <2> QED BY <1>4, <2>1, <2>2, <2>3, <2>5, <2>6 DEF IInv
<1>6. CASE ~\E c \in taken : c[2] = at
  <2> DEFINE face == faces[at]  k == Len(tracks) + 1
  <2>1. tracks' = Append(tracks, NewTrack(face)) /\ added' = Append(added, {face})
    BY <1>6 DEF BeginTrack
  <2>2. face \in Face /\ face.frame = frame /\ face.pos = at
    BY <1>1, ElementOfSeq DEF IInv, Steps
  <2> HIDE DEF face
  <2>3. /\ NewTrack(face) \in Track /\ Len(NewTrack(face).samples) \in 1..MaxSamples
        /\ Says(NewTrack(face), {face})
    BY <2>2, FaceBegins
  <2>4. /\ tracks' \in Seq(Track) /\ Len(tracks') = k
        /\ \A t \in 1..Len(tracks) : tracks'[t] = tracks[t]
        /\ tracks'[k] = NewTrack(face)
    BY <1>2, <2>1, <2>3, AppendProperties
  <2>5. /\ added' \in Seq(SUBSET Face) /\ Len(added') = k
        /\ \A t \in 1..Len(added) : added'[t] = added[t]
        /\ added'[k] = {face}
    <3>1. {face} \in SUBSET Face
      BY <2>2
    <3> QED BY <1>2, <2>1, <3>1, AppendProperties
  <2>6. /\ DOMAIN tracks' = 1..k /\ DOMAIN added' = 1..k
        /\ 1..k = 1..Len(tracks) \cup {k} /\ DOMAIN tracks = 1..Len(tracks)
        /\ \A t \in 1..k : added'[t] \in SUBSET Face
    BY <1>2, <2>4, <2>5, LenProperties, ElementOfSeq
  <2>7. \A t \in 1..Len(tracks') :
          Len(tracks'[t].samples) \in 1..MaxSamples /\ Says(tracks'[t], added'[t])
    <3> SUFFICES ASSUME NEW t \in 1..k
                 PROVE  /\ Len(tracks'[t].samples) \in 1..MaxSamples
                        /\ Says(tracks'[t], added'[t])
      BY <2>4
    <3>1. CASE t \in 1..Len(tracks)
      <4>1. tracks'[t] = tracks[t] /\ added'[t] = added[t]
        BY <3>1, <1>2, <2>4, <2>5
      <4> QED BY <4>1, <3>1, <2>6 DEF IInv, TypeOK
    <3>2. CASE t = k
      BY <3>2, <2>3, <2>4, <2>5
    <3> QED BY <3>1, <3>2, <2>6
  <2>8. TypeOK'
    BY <1>1, <1>2, <2>4, <2>6, <2>7 DEF IInv, TypeOK
  <2>9. Steps'
    <3>1. \A c \in candidates : c[3] \in 1..Len(tracks')
      BY <1>2, <2>4, <2>6 DEF IInv, Steps
    <3> QED BY <1>1, <1>2, <2>4, <2>5, <3>1 DEF IInv, Steps
  <2>10. ASSUME NEW t \in 1..Len(added), NEW f \in added[t] PROVE f # face
    BY <1>1, <1>3, <1>6, <2>2
  <2>11. Placed'
    <3> SUFFICES ASSUME NEW t \in 1..k, NEW f \in added'[t]
                 PROVE  /\ f.frame <= frame
                        /\ f.frame = frame =>
                             f.pos < at' \/ \E c \in taken : c[2] = f.pos /\ c[3] = t
      BY <1>1, <2>5 DEF Placed
    <3>1. f.pos \in Nat /\ frame \in Nat
      BY <1>1, <2>6 DEF Face, IInv, TypeOK
    <3>2. CASE t \in 1..Len(added)
      <4>1. f \in added[t]
        BY <3>2, <2>5
      <4>2. f.frame <= frame
        BY <3>2, <4>1 DEF IInv, Placed
      <4>3. f.frame = frame => f.pos < at \/ \E c \in taken : c[2] = f.pos /\ c[3] = t
        BY <3>2, <4>1, <1>3
      <4> QED BY <4>2, <4>3, <3>1, <1>1
    <3>3. CASE t = k
      BY <3>1, <3>3, <1>1, <2>2, <2>5
    <3> QED BY <3>2, <3>3, <1>2, <2>6
  <2>12. Apart'
    <3> SUFFICES ASSUME NEW t \in 1..k, NEW u \in 1..k,
                        NEW f \in added'[t], NEW g \in added'[u]
                 PROVE  /\ t = u /\ f.frame = g.frame => f = g
                        /\ t # u => f # g
      BY <2>5 DEF Apart
    <3>1. (t \in 1..Len(added) /\ f \in added[t]) \/ (t = k /\ f = face)
      BY <1>2, <2>5, <2>6
    <3>2. (u \in 1..Len(added) /\ g \in added[u]) \/ (u = k /\ g = face)
      BY <1>2, <2>5, <2>6
    <3>3. CASE t \in 1..Len(added) /\ f \in added[t] /\ u \in 1..Len(added) /\ g \in added[u]
      BY <3>3 DEF IInv, Apart
    <3>4. CASE t \in 1..Len(added) /\ f \in added[t] /\ u = k /\ g = face
      BY <3>4, <1>2, <2>10
    <3>5. CASE u \in 1..Len(added) /\ g \in added[u] /\ t = k /\ f = face
      BY <3>5, <1>2, <2>10
    <3>6. CASE t = k /\ f = face /\ u = k /\ g = face
      BY <3>6
    <3> QED BY <3>1, <3>2, <3>3, <3>4, <3>5, <3>6
  <2> QED BY <1>4, <2>7, <2>8, <2>9, <2>11, <2>12 DEF IInv
<1> QED BY <1>5, <1>6

LEMMA IInvStep == IInv /\ [Next]_vars => IInv'
<1> SUFFICES ASSUME IInv, [Next]_vars PROVE IInv'
  OBVIOUS
<1>1. CASE UNCHANGED vars
  <2>1. TypeOK' /\ Steps'
    BY <1>1 DEF vars, IInv, TypeOK, Steps
  <2>2. Greedy' /\ Placed' /\ Apart'
    BY <1>1 DEF vars, IInv, Greedy, Placed, Apart
  <2> QED BY <1>1, <2>1, <2>2 DEF vars, IInv
<1>2. CASE \E n \in 0..MaxFaces : \E qualities \in [1..n -> Quality] : Detect(qualities)
  BY <1>2, DetectStep
<1>3. CASE \E c \in left : Match(c)
  BY <1>3, MatchStep
<1>4. CASE Matched
  BY <1>4, MatchedStep
<1>5. CASE BeginTrack
  BY <1>5, BeginTrackStep
<1>6. CASE FrameDone
  BY <1>6, FrameDoneStep
<1> QED BY <1>1, <1>2, <1>3, <1>4, <1>5, <1>6 DEF Next

LEMMA Inductive == Spec => []IInv
  BY IInvInit, IInvStep, PTL DEF Spec

LEMMA Domains == IInv => DOMAIN added = 1..Len(added) /\ DOMAIN tracks = 1..Len(added)
  BY LenProperties DEF IInv, TypeOK, Steps

-----------------------------------------------------------------------------
(* The properties.                                                         *)

\* The assignment of build_tracks: a track has no two faces of one frame, a face
\* is in one track only, and every state is well typed.
THEOREM TracksApart == Spec => []FacesApart
<1>1. IInv => FacesApart
  BY Domains DEF IInv, Apart, FacesApart
<1> QED BY <1>1, Inductive, PTL

\* _Track.add, which sorts and trims after every face, leaves the best of all faces.
THEOREM SamplesAreBest == Spec => []BestAreKept
<1>1. IInv => BestAreKept
  <2> SUFFICES ASSUME IInv, NEW t \in 1..Len(tracks)
               PROVE  LET samples == tracks[t].samples
                          kept    == {samples[i] : i \in DOMAIN samples}
                      IN  /\ \A f \in kept, g \in added[t] \ kept : f.quality >= g.quality
                          /\ \A i, j \in DOMAIN samples :
                               i < j => samples[i].quality >= samples[j].quality
                          /\ kept \subseteq added[t]
                          /\ Len(samples) < MaxSamples => kept = added[t]
    BY Domains DEF BestAreKept, IInv, Steps
  <2>1. tracks[t] \in Track /\ tracks[t].samples \in Seq(Face)
    <3>1. tracks \in Seq(Track)
      BY DEF IInv, TypeOK
    <3>2. tracks[t] \in Track
      BY <3>1, ElementOfSeq
    <3> QED BY <3>2 DEF Track
  <2>2. DOMAIN tracks[t].samples = 1..Len(tracks[t].samples)
    BY <2>1, LenProperties
  <2>3. Best(tracks[t].samples, added[t])
    BY DEF IInv, Says
  <2> QED BY <2>2, <2>3 DEF Best, Sorted, Kept
<1> QED BY <1>1, Inductive, PTL

\* cooccurring_track_pairs, which only looks at the frames that were observed, finds
\* exactly the pairs of tracks with faces of one frame.
THEOREM PairsAreExact == Spec => []SeenTogether
<1>1. IInv => SeenTogether
  <2> SUFFICES ASSUME IInv PROVE SeenTogether
    OBVIOUS
  <2>1. /\ DOMAIN added = 1..Len(added) /\ DOMAIN tracks = DOMAIN added
        /\ Len(added) = Len(tracks)
    BY Domains DEF IInv, Steps
  <2>2. \A t \in DOMAIN added : FramesOf(t) = {f.frame : f \in added[t]}
    BY <2>1 DEF FramesOf, IInv, Says
  <2>3. \A t, u \in DOMAIN added :
          (FramesOf(t) \cap FramesOf(u) # {}) <=>
             \E f \in added[t], g \in added[u] : f.frame = g.frame
    BY <2>2
  <2> QED BY <2>1, <2>3 DEF SeenTogether, Cooccurring
<1> QED BY <1>1, Inductive, PTL

\* The loop over sorted(candidates, reverse=True): whoever was not joined lost to a
\* pair that is not worse.
THEOREM AssignmentIsGreedy == Spec => []NoBetterPair
<1>1. IInv => NoBetterPair
  BY DEF IInv, Steps, Greedy, NoBetterPair
<1> QED BY <1>1, Inductive, PTL
=============================================================================
