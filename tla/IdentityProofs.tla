--------------------------- MODULE IdentityProofs ---------------------------
(***************************************************************************)
(* Proofs about Identity, for any tracks, events, frames and number of     *)
(* operations.  Two tracks of one frame are never in one cluster, unless a *)
(* merge of clusters was undone; the tables are well typed; a labelled     *)
(* cluster names its person; the index covers the prototypes.  Until       *)
(* clusters are merged or undos cross, the owner of a track is active,     *)
(* frames show two people, the prototypes of a track are its owner's and   *)
(* every observation is of a track of its person; only undos of labels and *)
(* splits meet a constraint of the schema; and the undo of the latest      *)
(* operation restores the rows.                                            *)
(***************************************************************************)
EXTENDS Identity, SequenceTheorems, TLAPS

Fields == {"owner", "home", "links", "clusters", "people", "obs", "protos", "index"}

Apart(d) == \A pair \in d.links, c \in Clusters : ~ (pair \subseteq Members(d, c))

\* The rows this proof is about are well formed.
Formed(d) ==
  /\ DOMAIN d = Fields /\ DOMAIN d.clusters = Clusters
  /\ d.home \in [Tracks -> Clusters \cup {NoCluster}]
  /\ d.links \subseteq Frames

\* A track that was not decided yet is in no cluster, and none is named
\* after it.
Undecided(t) == EventOf[t] \in pending \/ t \in todo

Fresh ==
  /\ todo \subseteq Tracks
  /\ \A t \in todo : EventOf[t] \notin pending
  /\ \A t \in Tracks : Undecided(t) => db.home[t] = NoCluster /\ ~Exists(db, t)

\* The cluster of a track exists.
Housed(d) == \A t \in Tracks : d.home[t] # NoCluster => Exists(d, d.home[t])

\* A deleted link leads out of the cluster whose assignment deleted it.
Bridges(op) ==
  op.kind = "assign" =>
    /\ op.links \subseteq Frames
    /\ \A pair \in op.links : /\ pair \cap op.tracks # {}
                              /\ ~ (pair \subseteq op.tracks)

Recorded == \A n \in 1 .. Len(log) : Bridges(log[n])

IInv == Formed(db) /\ Fresh /\ Housed(db) /\ Recorded /\ Apart(db)

\* Operations are appended to a sequence, and the undone ones are in it.
IsLog == \E S : log \in Seq(S)

Numbered == IsLog /\ undone \subseteq 1 .. Len(log)

\* A merge of clusters was undone.
Wandered == \E n \in undone : log[n].kind = "merge_clusters"

-----------------------------------------------------------------------------
(* What the actions have in common.                                        *)

\* A pair of a frame is two tracks of one event.
LEMMA Pair ==
  ASSUME NEW pair \in Frames
  PROVE  \E t, u \in Tracks : t # u /\ EventOf[t] = EventOf[u] /\ pair = {t, u}
  BY IdentityAssumption

\* Learning touches neither clusters nor links.
LEMMA LearnedRows ==
  ASSUME NEW d, Formed(d), NEW p, NEW T, NEW A
  PROVE  LET e == Learned(d, p, T, A)
         IN  /\ Formed(e) /\ e.home = d.home /\ e.links = d.links
             /\ e.clusters = d.clusters
<1> DEFINE owner == [t \in Tracks |-> IF t \in T THEN p ELSE d.owner[t]]
           obs == d.obs \cup NewObs(d, p, T)
           protos == d.protos \cup NewProtos(d, p, A)
           index == IF NewProtos(d, p, A) = {} THEN d.index
                                              ELSE Rebuilt(d.index, p, protos)
<1>1. Learned(d, p, T, A) = [d EXCEPT !.owner = owner, !.obs = obs,
                                      !.protos = protos, !.index = index]
  BY DEF Learned, Formed, Fields
<1> HIDE DEF owner, obs, protos, index
<1> QED BY <1>1 DEF Formed, Fields

\* A refresh deletes a cluster or keeps its status.
LEMMA RefreshedRows ==
  ASSUME NEW cs, DOMAIN cs = Clusters, NEW c, NEW S
  PROVE  /\ DOMAIN Refreshed(cs, c, S) = Clusters
         /\ \A x \in Clusters : Refreshed(cs, c, S)[x].status # "none"
                                  => cs[x].status # "none"
  BY DEF Refreshed, NoRow

\* What Append does, whatever the type of the elements.
LEMMA Appended ==
  ASSUME IsLog, NEW entry, log' = Append(log, entry)
  PROVE  /\ IsLog'
         /\ Len(log) \in Nat /\ Len(log') = Len(log) + 1
         /\ log'[Len(log) + 1] = entry
         /\ \A n \in 1 .. Len(log) : log'[n] = log[n]
<1>1. PICK S : log \in Seq(S)
  BY DEF IsLog
<1>2. entry \in S \cup {entry} /\ log \in Seq(S \cup {entry})
  BY <1>1
<1>3. log' \in Seq(S \cup {entry})
  BY <1>2
<1>4. IsLog'
  BY <1>3 DEF IsLog
<1> QED BY <1>2, <1>4

\* Links that stay within clusters that stay are harmless.
LEMMA ApartStays ==
  ASSUME NEW d, NEW e, Apart(d), e.home = d.home, e.links \subseteq d.links
  PROVE  Apart(e)
  BY DEF Apart, Members

\* A request whose rows are formed and apart, that moves only tracks that have
\* a cluster and creates none but the spare one, preserves the invariant.
LEMMA Committed ==
  ASSUME IInv, IsLog, NEW kind, NEW d, NEW entry, Mutates(kind, d, entry),
         Formed(d), Apart(d), Bridges(entry),
         \A t \in Tracks : db.home[t] = NoCluster => d.home[t] = NoCluster,
         \A t \in Tracks : Exists(d, t) => Exists(db, t)
  PROVE  IInv' /\ IsLog'
<1>1. CASE ~Sound(d)
  <2>1. UNCHANGED <<db, log, pending, todo>>
    BY <1>1 DEF Mutates
  <2> QED BY <2>1 DEF IInv, IsLog, Formed, Fresh, Undecided, Housed, Exists, Recorded,
                     Apart, Members
<1>2. CASE Sound(d)
  <2>1. db' = d /\ log' = Append(log, entry) /\ UNCHANGED <<pending, todo>>
    BY <1>2 DEF Mutates
  <2>2. Formed(db)' /\ Apart(db)'
    BY <2>1 DEF Formed, Apart, Members
  <2>3. Fresh'
    BY <2>1 DEF IInv, Fresh, Undecided, Exists
  <2>4. Housed(db)'
    BY <1>2, <2>1 DEF Sound, Housed, Exists
  <2>5. Recorded' /\ IsLog'
    <3>1. /\ IsLog' /\ Len(log) \in Nat /\ Len(log') = Len(log) + 1
          /\ log'[Len(log) + 1] = entry
          /\ \A n \in 1 .. Len(log) : log'[n] = log[n]
      BY <2>1, Appended
    <3>2. ASSUME NEW n \in 1 .. Len(log') PROVE Bridges(log'[n])
      <4>1. CASE n \in 1 .. Len(log)
        BY <3>1, <4>1 DEF IInv, Recorded, Bridges
      <4>2. CASE n = Len(log) + 1
        BY <3>1, <4>2
      <4> QED BY <3>1, <4>1, <4>2
    <3> QED BY <3>1, <3>2 DEF Recorded, Bridges
  <2> QED BY <2>2, <2>3, <2>4, <2>5 DEF IInv
<1> QED BY <1>1, <1>2

\* The same for a request that moves no track and adds no link.
LEMMA Unmoved ==
  ASSUME IInv, IsLog, NEW kind, NEW d, NEW entry, Mutates(kind, d, entry),
         Formed(d), d.home = db.home, d.links \subseteq db.links, Bridges(entry),
         \A t \in Tracks : Exists(d, t) => Exists(db, t)
  PROVE  IInv' /\ IsLog'
  BY ApartStays, Committed DEF IInv

-----------------------------------------------------------------------------
(* The pipeline.                                                           *)

\* The links of a new event join tracks that are in no cluster yet.
LEMMA ArriveStep ==
  ASSUME IInv, IsLog, NEW e \in Events, Arrive(e)
  PROVE  IInv' /\ IsLog'
<1> DEFINE new == {pair \in Frames : pair \subseteq todo'}
           links == db.links \cup new
<1>1. db' = [db EXCEPT !.links = links]
  BY DEF Arrive, IInv, Formed, Fields
<1>2. links \subseteq Frames
  BY DEF IInv, Formed
<1>3. \A t \in todo' : t \in Tracks /\ db.home[t] = NoCluster
  BY DEF Arrive, IInv, Fresh, Undecided
<1>4. \A pair \in new, c \in Clusters : ~ (pair \subseteq Members(db, c))
  BY <1>3, Pair, IdentityAssumption DEF Members, Clusters
<1>5. \A pair \in links, c \in Clusters : ~ (pair \subseteq Members(db, c))
  BY <1>4 DEF IInv, Apart
<1> HIDE DEF links
<1>6. db'.home = db.home /\ db'.clusters = db.clusters /\ db'.links = links
      /\ DOMAIN db' = Fields
  BY <1>1 DEF IInv, Formed, Fields
<1>7. Formed(db)' /\ Housed(db)'
  BY <1>2, <1>6 DEF IInv, Formed, Housed, Exists
<1>8. Apart(db)'
  BY <1>5, <1>6 DEF Apart, Members
<1>9. Fresh'
  BY <1>6 DEF Arrive, IInv, Fresh, Undecided, Exists
<1>10. Recorded' /\ IsLog'
  BY DEF Arrive, IInv, Recorded, Bridges, IsLog
<1> QED BY <1>7, <1>8, <1>9, <1>10 DEF IInv

\* A track that is recognised joins no cluster.
LEMMA RecogniseStep ==
  ASSUME IInv, IsLog, NEW t \in Tracks, NEW p \in People, NEW A, Recognise(t, p, A)
  PROVE  IInv' /\ IsLog'
<1>1. db' = Learned(db, p, {t}, A) /\ todo' = todo \ {t} /\ UNCHANGED <<pending, log>>
  BY DEF Recognise
<1>2. Formed(db') /\ db'.home = db.home /\ db'.links = db.links
      /\ db'.clusters = db.clusters
  BY <1>1, LearnedRows DEF IInv
<1>3. Apart(db')
  BY <1>2 DEF IInv, Apart, Members
<1>4. Housed(db') /\ Fresh'
  BY <1>1, <1>2 DEF IInv, Housed, Fresh, Undecided, Exists
<1>5. Recorded' /\ IsLog'
  BY <1>1 DEF IInv, Recorded, Bridges, IsLog
<1> QED BY <1>2, <1>3, <1>4, <1>5 DEF IInv, Formed, Apart, Housed, Exists, Members

\* A track joins a cluster none of whose members it was seen with, or a new one.
LEMMA ClusterStep ==
  ASSUME IInv, IsLog, NEW t \in Tracks, NEW c \in Clusters, Cluster(t, c)
  PROVE  IInv' /\ IsLog'
<1> DEFINE created == [db.clusters EXCEPT ![c] =
                         IF c = t THEN [NoRow EXCEPT !.status = "open"] ELSE @]
           clusters == Refreshed(created, c, {t})
<1>1. /\ db' = [db EXCEPT !.home[t] = c, !.clusters = clusters]
      /\ t \in todo /\ todo' = todo \ {t} /\ UNCHANGED <<pending, log>>
  BY DEF Cluster
<1>2. /\ DOMAIN clusters = Clusters
      /\ \A x \in Clusters \ {c} : clusters[x] = db.clusters[x]
      /\ clusters[c].status # "none"
  BY DEF Refreshed, Cluster, IInv, Formed, NoRow, IsOpen
<1> HIDE DEF clusters
<1>3. /\ DOMAIN db' = Fields /\ db'.home = [db.home EXCEPT ![t] = c]
      /\ db'.links = db.links /\ db'.clusters = clusters
  BY <1>1 DEF IInv, Formed, Fields
<1>4. Formed(db)'
  BY <1>2, <1>3 DEF IInv, Formed
<1>5. Housed(db)'
  BY <1>2, <1>3 DEF IInv, Formed, Housed, Exists
<1>6. ASSUME NEW u \in Tracks, Undecided(u)'
      PROVE  db'.home[u] = NoCluster /\ ~Exists(db', u)
  <2>1. u # t /\ Undecided(u)
    BY <1>1, <1>6 DEF Undecided, IInv, Fresh
  <2>2. u # c
    BY <1>1, <2>1 DEF Cluster, IsOpen, IInv, Fresh, Exists
  <2> QED BY <1>2, <1>3, <2>1, <2>2 DEF IInv, Formed, Fresh, Exists, Clusters
<1>7. Fresh'
  BY <1>1, <1>6 DEF IInv, Fresh, Undecided, Exists
<1>8. ASSUME NEW pair \in db.links, NEW x \in Clusters, pair \subseteq Members(db', x)
      PROVE  FALSE
  <2>1. PICK u, v \in Tracks : u # v /\ pair = {u, v}
    BY Pair DEF IInv, Formed
  <2>2. CASE t \notin pair
    BY <1>3, <1>8, <2>1, <2>2 DEF IInv, Apart, Members, Formed
  <2>3. CASE t \in pair
    <3>1. PICK w \in Tracks : w # t /\ pair = {t, w}
      BY <2>1, <2>3
    <3>2. x = c /\ w \in Members(db, c)
      BY <1>3, <1>8, <3>1 DEF Members, IInv, Formed
    <3>3. c # t
      BY <1>1, <3>2, IdentityAssumption
         DEF IInv, Fresh, Undecided, Housed, Members, Clusters, Exists
    <3>4. Conflicts(db, {t}, Members(db, c)) = {}
      BY <3>3 DEF Cluster
    <3> QED BY <3>1, <3>2, <3>4 DEF Conflicts
  <2> QED BY <2>2, <2>3
<1>9. Apart(db)'
  BY <1>3, <1>8 DEF Apart, Members
<1>10. Recorded' /\ IsLog'
  BY <1>1 DEF IInv, Recorded, Bridges, IsLog
<1> QED BY <1>4, <1>5, <1>7, <1>9, <1>10 DEF IInv

-----------------------------------------------------------------------------
(* The owner's requests that move no track to another cluster.             *)

\* A label creates a person and learns: no track changes its cluster.
LEMMA LabelStep ==
  ASSUME IInv, IsLog, NEW c \in Clusters, NEW A, Label(c, A)
  PROVE  IInv' /\ IsLog'
<1> DEFINE p == Now + 1
           known == [db EXCEPT !.people[p].status = "active"]
           learned == Learned(known, p, Members(db, c), A)
           row == Labeled(learned.clusters[c], p)
           d == [learned EXCEPT !.clusters[c] = row]
           entry == [kind |-> "label", cluster |-> c, person |-> p,
                     tracks |-> Members(db, c)]
<1>1. Mutates("label", d, entry) /\ Exists(db, c)
  BY DEF Label, IsOpen, Exists
<1>2. Formed(known) /\ known.home = db.home /\ known.links = db.links
      /\ known.clusters = db.clusters
  BY DEF IInv, Formed, Fields
<1> HIDE DEF known
<1>3. Formed(learned) /\ learned.home = db.home /\ learned.links = db.links
      /\ learned.clusters = db.clusters
  BY <1>2, LearnedRows
<1> HIDE DEF learned, row
<1>4. Formed(d) /\ d.home = db.home /\ d.links \subseteq db.links
      /\ d.clusters = [db.clusters EXCEPT ![c] = row]
  BY <1>3 DEF Formed, Fields
<1>5. \A t \in Tracks : Exists(d, t) => Exists(db, t)
  BY <1>1, <1>4 DEF Exists, IInv, Formed, Clusters
<1>6. Bridges(entry)
  BY DEF Bridges
<1> QED BY <1>1, <1>4, <1>5, <1>6, Unmoved

\* A link that an assignment deletes joins a track of the cluster to one of
\* the person that is not in the cluster.
LEMMA AssignStep ==
  ASSUME IInv, IsLog, NEW c \in Clusters, NEW p, NEW A, Assign(c, p, A)
  PROVE  IInv' /\ IsLog'
<1> DEFINE T == Members(db, c)
           conflicts == Conflicts(db, T, Owned(db, p))
           learned == Learned(db, p, T, A)
           links == learned.links \ conflicts
           row == Labeled(learned.clusters[c], p)
           d == [learned EXCEPT !.links = links, !.clusters[c] = row]
           entry == [kind |-> "assign", cluster |-> c, person |-> p, tracks |-> T,
                     owners |-> [t \in T |-> db.owner[t]],
                     label |-> db.clusters[c].label,
                     version |-> db.clusters[c].version,
                     obs |-> Keys(NewObs(db, p, T)),
                     protos |-> Keys(NewProtos(db, p, A)),
                     links |-> conflicts,
                     revision |-> Revision(d, p)]
<1>1. Mutates("assign", d, entry) /\ Exists(db, c)
  BY DEF Assign, IsOpen, Exists
<1>2. Formed(learned) /\ learned.home = db.home /\ learned.links = db.links
      /\ learned.clusters = db.clusters
  BY LearnedRows DEF IInv
<1>3. Bridges(entry)
  <2>1. entry.kind = "assign" /\ entry.links = conflicts /\ entry.tracks = T
    OBVIOUS
  <2>2. conflicts \subseteq db.links /\ conflicts \subseteq Frames
    BY DEF Conflicts, IInv, Formed
  <2>3. \A pair \in conflicts : pair \cap T # {} /\ ~ (pair \subseteq T)
    BY <2>2 DEF Conflicts, IInv, Apart
  <2> QED BY <2>1, <2>2, <2>3 DEF Bridges
<1> HIDE DEF entry, learned, row
<1>4. links \subseteq db.links
  BY <1>2
<1> HIDE DEF links
<1>5. Formed(d) /\ d.home = db.home /\ d.links \subseteq db.links
      /\ d.clusters = [db.clusters EXCEPT ![c] = row]
  <2>1. d = [[learned EXCEPT !.links = links] EXCEPT !.clusters = [@ EXCEPT ![c] = row]]
    BY <1>2 DEF Formed, Fields
  <2> QED BY <1>2, <1>4, <2>1 DEF Formed, Fields, IInv
<1>6. \A t \in Tracks : Exists(d, t) => Exists(db, t)
  BY <1>1, <1>5 DEF Exists, IInv, Formed, Clusters
<1> QED BY <1>1, <1>3, <1>5, <1>6, Unmoved

\* A false positive is a mark on the cluster's row.
LEMMA FalsePositiveStep ==
  ASSUME IInv, IsLog, NEW c \in Clusters, FalsePositive(c)
  PROVE  IInv' /\ IsLog'
<1> DEFINE row == Marked(db.clusters[c], "false_positive")
           d == [db EXCEPT !.clusters[c] = row]
           entry == [kind |-> "false_positive", cluster |-> c,
                     status |-> db.clusters[c].status]
<1>1. Mutates("false_positive", d, entry) /\ Exists(db, c)
  BY DEF FalsePositive
<1> HIDE DEF row
<1>2. Formed(d) /\ d.home = db.home /\ d.links \subseteq db.links
      /\ d.clusters = [db.clusters EXCEPT ![c] = row]
  BY DEF IInv, Formed, Fields
<1>3. \A t \in Tracks : Exists(d, t) => Exists(db, t)
  BY <1>1, <1>2 DEF Exists, IInv, Formed, Clusters
<1>4. Bridges(entry)
  BY DEF Bridges
<1> QED BY <1>1, <1>2, <1>3, <1>4, Unmoved

\* A merge of people moves tracks between people, not between clusters.
LEMMA MergePeopleStep ==
  ASSUME IInv, IsLog, NEW s, NEW t, MergePeople(s, t)
  PROVE  IInv' /\ IsLog'
<1> DEFINE moved == ProtosOf(db, s)
           own == ObsOf(db, s) \ Twice(db, s, t)
           unindexed == [db.index EXCEPT ![s] = {}]
           owner == [u \in Tracks |-> IF db.owner[u] = s THEN t ELSE db.owner[u]]
           obs == Given(db.obs \ Twice(db, s, t), Keys(own), t)
           protos == Given(db.protos, Keys(moved), t)
           people == [db.people EXCEPT ![s] = [status |-> "merged", into |-> t]]
           index == IF moved = {} THEN unindexed ELSE Rebuilt(unindexed, t, db.protos)
           d == [db EXCEPT !.owner = owner, !.obs = obs, !.protos = protos,
                           !.people = people, !.index = index]
           entry == [kind |-> "merge_people", source |-> s, target |-> t,
                     tracks |-> Owned(db, s), protos |-> Keys(moved),
                     obs |-> Keys(own), twice |-> Keys(Twice(db, s, t))]
<1>1. Mutates("merge_people", d, entry)
  BY DEF MergePeople, IInv, Formed, Fields
<1> HIDE DEF owner, obs, protos, people, index
<1>2. Formed(d) /\ d.home = db.home /\ d.links \subseteq db.links
      /\ d.clusters = db.clusters
  BY DEF IInv, Formed, Fields
<1>3. Bridges(entry)
  BY DEF Bridges
<1> QED BY <1>1, <1>2, <1>3, Unmoved DEF Exists

-----------------------------------------------------------------------------
(* The owner's requests that move tracks to another cluster.               *)

\* A merge of clusters is refused if a link joins the two.
LEMMA MergeClustersStep ==
  ASSUME IInv, IsLog, NEW s \in Clusters, NEW t \in Clusters, MergeClusters(s, t)
  PROVE  IInv' /\ IsLog'
<1> DEFINE T == Members(db, s)
           gone == [db.clusters EXCEPT ![s] = MergedInto(@, t)]
           home == [u \in Tracks |-> IF u \in T THEN t ELSE db.home[u]]
           clusters == Refreshed(gone, t, Members(db, t))
           d == [db EXCEPT !.home = home, !.clusters = clusters]
           entry == [kind |-> "merge_clusters", source |-> s, target |-> t,
                     tracks |-> T, status |-> db.clusters[s].status,
                     into |-> db.clusters[s].into]
<1>1. /\ Mutates("merge_clusters", d, entry) /\ Exists(db, s)
      /\ s # t /\ Conflicts(db, T, Members(db, t)) = {}
  BY DEF MergeClusters, IInv, Formed, Fields
<1>2. /\ DOMAIN gone = Clusters
      /\ \A x \in Clusters : gone[x].status # "none" => db.clusters[x].status # "none"
  BY <1>1 DEF IInv, Formed, Exists
<1> HIDE DEF gone
<1>3. /\ DOMAIN clusters = Clusters
      /\ \A x \in Clusters : clusters[x].status # "none"
                               => db.clusters[x].status # "none"
  BY <1>2, RefreshedRows
<1> HIDE DEF clusters
<1>4. home \in [Tracks -> Clusters \cup {NoCluster}]
  BY DEF IInv, Formed
<1>5. \A u \in Tracks : home[u] = IF u \in T THEN t ELSE db.home[u]
  OBVIOUS
<1> HIDE DEF home
<1>6. /\ Formed(d) /\ d.home = home /\ d.clusters = clusters /\ d.links = db.links
  BY <1>3, <1>4 DEF IInv, Formed, Fields
<1>7. ASSUME NEW pair \in db.links, NEW x \in Clusters, pair \subseteq Members(d, x)
      PROVE  FALSE
  <2>1. PICK u, v \in Tracks : u # v /\ pair = {u, v}
    BY Pair DEF IInv, Formed
  <2>2. x = t
    BY <1>5, <1>6, <1>7, <2>1 DEF IInv, Apart, Members
  <2>3. u \in T \cup Members(db, t) /\ v \in T \cup Members(db, t)
    BY <1>5, <1>6, <1>7, <2>1, <2>2 DEF Members
  <2>4. ~ (pair \subseteq T) /\ ~ (pair \subseteq Members(db, t))
    BY DEF IInv, Apart
  <2> QED BY <1>1, <2>1, <2>3, <2>4 DEF Conflicts
<1>8. Apart(d)
  BY <1>6, <1>7 DEF Apart
<1>9. \A u \in Tracks : db.home[u] = NoCluster => d.home[u] = NoCluster
  BY <1>5, <1>6, IdentityAssumption DEF Members, Clusters
<1>10. \A u \in Tracks : Exists(d, u) => Exists(db, u)
  BY <1>3, <1>6 DEF Exists, Clusters
<1>11. Bridges(entry)
  BY DEF Bridges
<1> HIDE DEF d, entry
<1> QED BY <1>1, <1>6, <1>8, <1>9, <1>10, <1>11, Committed

\* A split moves members of a cluster to an empty one: each part is as apart
\* as the whole was.
LEMMA SplitStep ==
  ASSUME IInv, IsLog, NEW c \in Clusters, NEW T, Split(c, T)
  PROVE  IInv' /\ IsLog'
<1> DEFINE new == [db.clusters EXCEPT ![Spare] = [NoRow EXCEPT !.status = "open"]]
           kept == Refreshed(new, c, Members(db, c))
           home == [u \in Tracks |-> IF u \in T THEN Spare ELSE db.home[u]]
           clusters == Refreshed(kept, Spare, Members(db, Spare))
           d == [db EXCEPT !.home = home, !.clusters = clusters]
           entry == [kind |-> "split", cluster |-> c, tracks |-> T]
<1>1. /\ Mutates("split", d, entry) /\ ~Exists(db, Spare)
      /\ T \subseteq Members(db, c)
  BY DEF Split, IInv, Formed, Fields
<1>2. /\ DOMAIN new = Clusters
      /\ \A x \in Tracks : new[x].status # "none" => db.clusters[x].status # "none"
  BY IdentityAssumption DEF IInv, Formed, Clusters
<1> HIDE DEF new
<1>3. /\ DOMAIN kept = Clusters
      /\ \A x \in Tracks : kept[x].status # "none" => db.clusters[x].status # "none"
  BY <1>2, RefreshedRows DEF Clusters
<1> HIDE DEF kept
<1>4. /\ DOMAIN clusters = Clusters
      /\ \A x \in Tracks : clusters[x].status # "none"
                             => db.clusters[x].status # "none"
  BY <1>3, RefreshedRows DEF Clusters
<1> HIDE DEF clusters
<1>5. home \in [Tracks -> Clusters \cup {NoCluster}]
  BY DEF IInv, Formed, Clusters
<1>6. \A u \in Tracks : home[u] = IF u \in T THEN Spare ELSE db.home[u]
  OBVIOUS
<1> HIDE DEF home
<1>7. Formed(d) /\ d.home = home /\ d.clusters = clusters /\ d.links = db.links
  BY <1>4, <1>5 DEF IInv, Formed, Fields
<1>8. \A u \in Tracks : db.home[u] # Spare
  BY <1>1, IdentityAssumption DEF IInv, Housed, Clusters
<1>9. ASSUME NEW pair \in db.links, NEW x \in Clusters, pair \subseteq Members(d, x)
      PROVE  FALSE
  <2>1. pair \subseteq Members(db, c) \/ pair \subseteq Members(db, x)
    BY <1>1, <1>6, <1>7, <1>8, <1>9 DEF Members
  <2> QED BY <2>1 DEF IInv, Apart
<1>10. Apart(d)
  BY <1>7, <1>9 DEF Apart
<1>11. \A u \in Tracks : db.home[u] = NoCluster => d.home[u] = NoCluster
  BY <1>1, <1>6, <1>7, IdentityAssumption DEF Members, Clusters
<1>12. \A u \in Tracks : Exists(d, u) => Exists(db, u)
  BY <1>4, <1>7 DEF Exists
<1>13. Bridges(entry)
  BY DEF Bridges
<1> HIDE DEF d, entry
<1> QED BY <1>1, <1>7, <1>10, <1>11, <1>12, <1>13, Committed

-----------------------------------------------------------------------------
(* Undoing.                                                                *)

\* The undo of a label leaves the tracks where they are.
LEMMA UndoLabelStep ==
  ASSUME IInv, IsLog, NEW n \in DOMAIN log, UndoLabel(n)
  PROVE  IInv' /\ IsLog'
<1> DEFINE op == log[n]
           p == op.person
           c == op.cluster
           owner == [t \in Tracks |-> IF t \in op.tracks THEN Nobody ELSE db.owner[t]]
           obs == Without(db.obs, Keys(ObsOf(db, p)))
           protos == Without(db.protos, Keys(ProtosOf(db, p)))
           index == [db.index EXCEPT ![p] = {}]
           clusters == [db.clusters EXCEPT ![c] = Reopened(@, Nobody)]
           people == [db.people EXCEPT ![p] = NoPerson]
           d == [db EXCEPT !.owner = owner, !.obs = obs, !.protos = protos,
                           !.index = index, !.clusters = clusters, !.people = people]
           entry == [kind |-> "undo", op |-> n]
<1>1. Mutates("undo_label", d, entry) /\ Exists(db, c)
  BY DEF UndoLabel, Undo, IInv, Formed, Fields
<1>2. DOMAIN clusters = Clusters
      /\ \A t \in Clusters : clusters[t].status # "none" => Exists(db, t)
  BY <1>1 DEF IInv, Formed, Exists
<1> HIDE DEF owner, obs, protos, index, clusters, people
<1>3. Formed(d) /\ d.home = db.home /\ d.links = db.links /\ d.clusters = clusters
  BY <1>2 DEF IInv, Formed, Fields
<1>4. \A t \in Tracks : Exists(d, t) => Exists(db, t)
  BY <1>2, <1>3 DEF Exists, Clusters
<1>5. Bridges(entry)
  BY DEF Bridges
<1> HIDE DEF d, entry
<1> QED BY <1>1, <1>3, <1>4, <1>5, Unmoved

\* The links that come back lead out of the cluster of the operation, which has
\* the tracks it had then, and so they lead out of every cluster.
LEMMA UndoAssignStep ==
  ASSUME IInv, IsLog, NEW n \in DOMAIN log, UndoAssign(n)
  PROVE  IInv' /\ IsLog'
<1> DEFINE op == log[n]
           p == op.person
           c == op.cluster
           owner == [t \in Tracks |-> IF t \in op.tracks THEN op.owners[t]
                                                         ELSE db.owner[t]]
           links == db.links \cup op.links
           obs == Without(db.obs, op.obs)
           protos == Without(db.protos, op.protos)
           index == IF op.protos = {} THEN db.index ELSE Rebuilt(db.index, p, protos)
           clusters == [db.clusters EXCEPT ![c] = Reopened(@, op.label)]
           d == [db EXCEPT !.owner = owner, !.links = links, !.obs = obs,
                           !.protos = protos, !.index = index, !.clusters = clusters]
           entry == [kind |-> "undo", op |-> n]
<1>1. /\ Mutates("undo_assign", d, entry) /\ Exists(db, c)
      /\ op.kind = "assign"
      /\ op.links # {} => Members(db, c) = op.tracks
  BY DEF UndoAssign, Undoable, Undo, IInv, Formed, Fields
<1>2. DOMAIN clusters = Clusters
      /\ \A t \in Clusters : clusters[t].status # "none" => Exists(db, t)
  BY <1>1 DEF IInv, Formed, Exists
<1>3. Bridges(op)
  <2>1. n \in 1 .. Len(log)
    BY DEF IsLog
  <2> QED BY <2>1 DEF IInv, Recorded
<1>4. links \subseteq Frames
  BY <1>1, <1>3 DEF Bridges, IInv, Formed
<1>5. ASSUME NEW pair \in links, NEW x \in Clusters, pair \subseteq Members(db, x)
      PROVE  FALSE
  <2>1. CASE pair \in db.links
    BY <1>5, <2>1 DEF IInv, Apart
  <2>2. CASE pair \in op.links
    <3>1. Members(db, c) = op.tracks
      BY <1>1, <2>2
    <3>2. pair \cap Members(db, c) # {} /\ ~ (pair \subseteq Members(db, c))
      BY <1>1, <1>3, <2>2, <3>1 DEF Bridges
    <3> QED BY <1>5, <3>2 DEF Members
  <2> QED BY <2>1, <2>2
<1> HIDE DEF owner, obs, protos, index, clusters, links
<1>6. Formed(d) /\ d.home = db.home /\ d.links = links /\ d.clusters = clusters
  BY <1>2, <1>4 DEF IInv, Formed, Fields
<1>7. Apart(d)
  BY <1>5, <1>6 DEF Apart, Members
<1>8. \A t \in Tracks : Exists(d, t) => Exists(db, t)
  BY <1>2, <1>6 DEF Exists, Clusters
<1>9. Bridges(entry)
  BY DEF Bridges
<1> HIDE DEF d, entry
<1> QED BY <1>1, <1>6, <1>7, <1>8, <1>9, Committed

\* The undo of a false positive is a mark on the cluster's row.
LEMMA UndoFalsePositiveStep ==
  ASSUME IInv, IsLog, NEW n \in DOMAIN log, UndoFalsePositive(n)
  PROVE  IInv' /\ IsLog'
<1> DEFINE op == log[n]
           c == op.cluster
           clusters == [db.clusters EXCEPT ![c] = Marked(@, op.status)]
           d == [db EXCEPT !.clusters = clusters]
           entry == [kind |-> "undo", op |-> n]
<1>1. Mutates("undo_false_positive", d, entry) /\ Exists(db, c)
  BY DEF UndoFalsePositive, Undo, Exists, IInv, Formed, Fields
<1>2. DOMAIN clusters = Clusters
      /\ \A t \in Clusters : clusters[t].status # "none" => Exists(db, t)
  BY <1>1 DEF IInv, Formed, Exists
<1> HIDE DEF clusters
<1>3. Formed(d) /\ d.home = db.home /\ d.links = db.links /\ d.clusters = clusters
  BY <1>2 DEF IInv, Formed, Fields
<1>4. \A t \in Tracks : Exists(d, t) => Exists(db, t)
  BY <1>2, <1>3 DEF Exists, Clusters
<1>5. Bridges(entry)
  BY DEF Bridges
<1> HIDE DEF d, entry
<1> QED BY <1>1, <1>3, <1>4, <1>5, Unmoved

\* The undo of a merge of people moves no track to another cluster.
LEMMA UndoMergePeopleStep ==
  ASSUME IInv, IsLog, NEW n \in DOMAIN log, UndoMergePeople(n)
  PROVE  IInv' /\ IsLog'
<1> DEFINE op == log[n]
           s == op.source
           t == op.target
           moved == {q \in db.protos : q.key \in op.protos}
           owner == [u \in Tracks |-> IF u \in op.tracks THEN s ELSE db.owner[u]]
           obs == Given(db.obs, op.obs, s) \cup Again(op.twice, s)
           protos == Given(db.protos, op.protos, s)
           people == [db.people EXCEPT ![s] = Unmerged(@)]
           index == IF moved = {} THEN db.index
                    ELSE Rebuilt(Rebuilt(db.index, s, db.protos), t, db.protos)
           d == [db EXCEPT !.owner = owner, !.obs = obs, !.protos = protos,
                           !.people = people, !.index = index]
           entry == [kind |-> "undo", op |-> n]
<1>1. Mutates("undo_merge_people", d, entry)
  BY DEF UndoMergePeople, Undo, IInv, Formed, Fields
<1> HIDE DEF owner, obs, protos, people, index
<1>2. Formed(d) /\ d.home = db.home /\ d.links = db.links /\ d.clusters = db.clusters
  BY DEF IInv, Formed, Fields
<1>3. Bridges(entry)
  BY DEF Bridges
<1> HIDE DEF d, entry
<1> QED BY <1>1, <1>2, <1>3, Unmoved DEF Exists

-----------------------------------------------------------------------------
(* The invariant.                                                          *)

\* Before the first event there are no rows.
LEMMA InitIInv == Init => IInv /\ IsLog
<1> SUFFICES ASSUME Init PROVE IInv /\ IsLog
  OBVIOUS
<1>1. Formed(db) /\ Housed(db) /\ Apart(db)
  BY DEF Init, Formed, Fields, Housed, Apart
<1>2. Fresh
  BY DEF Init, Fresh, Undecided, Exists, NoRow, Clusters
<1>3. Recorded
  BY DEF Init, Recorded
<1>4. log \in Seq({})
  BY DEF Init
<1> QED BY <1>1, <1>2, <1>3, <1>4 DEF IInv, IsLog

\* The undo of a merge of clusters is recorded or changes nothing.
LEMMA UndoMergeClustersStep ==
  ASSUME IInv, Numbered, NEW n \in DOMAIN log, UndoMergeClusters(n)
  PROVE  IInv' \/ Wandered'
<1>1. /\ log[n].kind = "merge_clusters" /\ n \in 1 .. Len(log)
      /\ \E d, entry :
           /\ Mutates("undo_merge_clusters", d, entry)
           /\ IF Sound(d) THEN undone' = undone \cup {n} ELSE UNCHANGED undone
  BY DEF UndoMergeClusters, Undoable, Undo, Numbered, IsLog
<1>2. PICK d, entry :
        /\ Mutates("undo_merge_clusters", d, entry)
        /\ IF Sound(d) THEN undone' = undone \cup {n} ELSE UNCHANGED undone
  BY <1>1
<1>3. CASE Sound(d)
  <2>1. log' = Append(log, entry) /\ undone' = undone \cup {n}
    BY <1>2, <1>3 DEF Mutates
  <2>2. log'[n] = log[n]
    BY <1>1, <2>1, Appended DEF Numbered
  <2> QED BY <1>1, <2>1, <2>2 DEF Wandered
<1>4. CASE ~Sound(d)
  <2>1. UNCHANGED <<db, log, pending, todo>>
    BY <1>2, <1>4 DEF Mutates
  <2> QED BY <2>1 DEF IInv, Formed, Fresh, Undecided, Housed, Exists, Recorded, Bridges,
                     Apart, Members
<1> QED BY <1>3, <1>4

\* Every other step preserves the invariant.
LEMMA IInvStep ==
  ASSUME IInv, Numbered, [Next]_vars
  PROVE  IInv' \/ Wandered'
<1> IsLog
  BY DEF Numbered
<1>1. CASE Pipeline
  <2>1. CASE \E e \in Events : Arrive(e)
    BY <2>1, ArriveStep
  <2>2. CASE \E t \in Tracks, p \in People : \E A \in SUBSET ({t} \cap Good) :
               Recognise(t, p, A)
    BY <2>2, RecogniseStep
  <2>3. CASE \E t \in Tracks, c \in Clusters : Cluster(t, c)
    BY <2>3, ClusterStep
  <2> QED BY <1>1, <2>1, <2>2, <2>3 DEF Pipeline
<1>2. CASE Requests
  <2>1. CASE \E c \in Clusters, A \in SUBSET Good : Label(c, A)
    BY <2>1, LabelStep
  <2>2. CASE \E c \in Clusters, p \in People, A \in SUBSET Good : Assign(c, p, A)
    BY <2>2, AssignStep
  <2>3. CASE \E c \in Clusters : FalsePositive(c)
    BY <2>3, FalsePositiveStep
  <2>4. CASE \E c \in Clusters, T \in SUBSET Tracks : Split(c, T)
    BY <2>4, SplitStep
  <2>5. CASE \E c, t \in Clusters : MergeClusters(c, t)
    BY <2>5, MergeClustersStep
  <2>6. CASE \E s, t \in People : MergePeople(s, t)
    BY <2>6, MergePeopleStep
  <2> QED BY <1>2, <2>1, <2>2, <2>3, <2>4, <2>5, <2>6 DEF Requests
<1>3. CASE Undoes
  <2>1. PICK n \in DOMAIN log :
          \/ UndoLabel(n) \/ UndoAssign(n) \/ UndoFalsePositive(n)
          \/ UndoMergeClusters(n) \/ UndoMergePeople(n)
    BY <1>3 DEF Undoes
  <2> QED BY <2>1, UndoLabelStep, UndoAssignStep, UndoFalsePositiveStep,
             UndoMergePeopleStep, UndoMergeClustersStep
<1>4. CASE UNCHANGED vars
  BY <1>4 DEF vars, IInv, Formed, Fresh, Undecided, Housed, Exists, Recorded,
              Bridges, Apart, Members
<1> QED BY <1>1, <1>2, <1>3, <1>4 DEF Next

\* A request adds one operation, if any, and an undo marks an earlier one.
LEMMA LogGrows ==
  ASSUME [Next]_vars
  PROVE  \/ log' = log /\ undone' = undone
         \/ /\ \E entry : log' = Append(log, entry)
            /\ undone \subseteq undone' /\ undone' \subseteq undone \cup DOMAIN log
<1>1. CASE Pipeline
  BY <1>1 DEF Pipeline, Arrive, Recognise, Cluster
<1> DEFINE Asked == \E kind, d, entry : Mutates(kind, d, entry) /\ UNCHANGED undone
<1>2. CASE Requests
  <2>1. ASSUME NEW c \in Clusters, NEW A, Label(c, A) PROVE Asked
    BY <2>1 DEF Label
  <2>2. ASSUME NEW c, NEW p, NEW A, Assign(c, p, A) PROVE Asked
    BY <2>2 DEF Assign
  <2>3. ASSUME NEW c, FalsePositive(c) PROVE Asked
    BY <2>3 DEF FalsePositive
  <2>4. ASSUME NEW c, NEW T, Split(c, T) PROVE Asked
    BY <2>4 DEF Split
  <2>5. ASSUME NEW c, NEW t, MergeClusters(c, t) PROVE Asked
    BY <2>5 DEF MergeClusters
  <2>6. ASSUME NEW s, NEW t, MergePeople(s, t) PROVE Asked
    BY <2>6 DEF MergePeople
  <2> HIDE DEF Asked
  <2>7. Asked
    BY <1>2, <2>1, <2>2, <2>3, <2>4, <2>5, <2>6 DEF Requests
  <2> QED BY <2>7 DEF Asked, Mutates
<1>3. CASE Undoes
  <2>1. PICK n \in DOMAIN log :
          \/ UndoLabel(n) \/ UndoAssign(n) \/ UndoFalsePositive(n)
          \/ UndoMergeClusters(n) \/ UndoMergePeople(n)
    BY <1>3 DEF Undoes
  <2> DEFINE Asking == \E kind, d : Undo(n, kind, d)
  <2>2. CASE UndoLabel(n)
    <3>1. Asking
      BY <2>2 DEF UndoLabel
    <3> QED BY <3>1 DEF Undo, Mutates
  <2>3. CASE UndoAssign(n)
    <3>1. Asking
      BY <2>3 DEF UndoAssign
    <3> QED BY <3>1 DEF Undo, Mutates
  <2>4. CASE UndoFalsePositive(n)
    <3>1. Asking
      BY <2>4 DEF UndoFalsePositive
    <3> QED BY <3>1 DEF Undo, Mutates
  <2>5. CASE UndoMergeClusters(n)
    <3>1. Asking
      BY <2>5 DEF UndoMergeClusters
    <3> QED BY <3>1 DEF Undo, Mutates
  <2>6. CASE UndoMergePeople(n)
    <3>1. Asking
      BY <2>6 DEF UndoMergePeople
    <3> QED BY <3>1 DEF Undo, Mutates
  <2> QED BY <2>1, <2>2, <2>3, <2>4, <2>5, <2>6
<1>4. CASE UNCHANGED vars
  BY <1>4 DEF vars
<1> QED BY <1>1, <1>2, <1>3, <1>4 DEF Next

\* The operations undone are operations, and stay undone.
LEMMA NumberedStep ==
  ASSUME Numbered, [Next]_vars
  PROVE  Numbered' /\ (Wandered => Wandered')
<1>1. CASE log' = log /\ undone' = undone
  BY <1>1 DEF Numbered, IsLog, Wandered
<1>2. CASE /\ \E entry : log' = Append(log, entry)
           /\ undone \subseteq undone' /\ undone' \subseteq undone \cup DOMAIN log
  <2>1. /\ IsLog' /\ Len(log) \in Nat /\ Len(log') = Len(log) + 1
        /\ \A n \in 1 .. Len(log) : log'[n] = log[n]
    BY <1>2, Appended DEF Numbered
  <2>2. DOMAIN log = 1 .. Len(log)
    BY DEF Numbered, IsLog
  <2>3. undone' \subseteq 1 .. Len(log')
    BY <1>2, <2>1, <2>2 DEF Numbered
  <2>4. ASSUME NEW n \in undone, log[n].kind = "merge_clusters"
        PROVE  n \in undone' /\ log'[n].kind = "merge_clusters"
    BY <1>2, <2>1, <2>4 DEF Numbered
  <2> QED BY <2>1, <2>3, <2>4 DEF Numbered, Wandered
<1> QED BY <1>1, <1>2, LogGrows

\* Two tracks of one frame are never in one cluster, for any number of events,
\* tracks and operations, unless a merge of clusters was undone: whatever else
\* the owner does and undoes, and in whatever order.
THEOREM FramesApart == Spec => []ClustersApart
<1>1. Init => Numbered /\ (IInv \/ Wandered)
  BY InitIInv DEF Numbered, Init
<1>2. /\ Numbered /\ (IInv \/ Wandered)
      /\ [Next]_vars
      => Numbered' /\ (IInv \/ Wandered)'
  BY IInvStep, NumberedStep
<1>3. IInv \/ Wandered => ClustersApart
  BY DEF IInv, Apart, Wandered, ClustersApart
<1> QED BY <1>1, <1>2, <1>3, PTL DEF Spec

-----------------------------------------------------------------------------
(* The types: what the operations write.                                   *)

Statuses == {"none", "open", "labeled", "merged", "false_positive"}
Owners   == People \cup {Nobody}
ObsKeys   == People \X Events \X (0 .. MaxOps)
ProtoKeys == People \X Tracks \X (0 .. MaxOps)
ClusterRow == [status : Statuses, label : Owners, into : Clusters \cup {NoCluster},
               version : Nat]
PersonRow == [status : {"none", "active", "merged"}, into : Owners]

\* What the operations have recorded, as far as their undos read it.
EntryOK(op) ==
  /\ op.kind \in Kinds \cup {"undo"}
  /\ op.kind = "label" =>
       op.cluster \in Clusters /\ op.person \in People /\ op.tracks \subseteq Tracks
  /\ op.kind = "assign" =>
       /\ op.cluster \in Clusters /\ op.person \in People /\ op.tracks \subseteq Tracks
       /\ op.owners \in [op.tracks -> Owners] /\ op.label \in Owners
       /\ op.obs \subseteq ObsKeys /\ op.protos \subseteq ProtoKeys
       /\ op.links \subseteq Frames
  /\ op.kind = "false_positive" => op.cluster \in Clusters /\ op.status \in Statuses
  /\ op.kind = "merge_clusters" =>
       /\ op.source \in Clusters /\ op.target \in Clusters /\ op.tracks \subseteq Tracks
       /\ op.status \in Statuses /\ op.into \in Clusters \cup {NoCluster}
  /\ op.kind = "merge_people" =>
       /\ op.source \in People /\ op.target \in People /\ op.source # op.target
       /\ op.tracks \subseteq Tracks /\ op.protos \subseteq ProtoKeys
       /\ op.obs \subseteq ObsKeys /\ op.twice \subseteq ObsKeys

\* A merged person says into whom, and nobody else does.
MergedSayInto(d) ==
  \A p \in People : d.people[p].status = "merged" <=> d.people[p].into # Nobody

\* The n-th operation creates person n, if any.
Unborn(d, n) == \A p \in People : p > n => d.people[p] = NoPerson

TypeInv ==
  /\ pending \subseteq Events /\ todo \subseteq Tracks
  /\ db \in Rows /\ MergedSayInto(db) /\ Unborn(db, Len(log))
  /\ IsLog /\ Len(log) <= MaxOps
  /\ \A n \in 1 .. Len(log) : EntryOK(log[n])
  /\ undone \subseteq 1 .. Len(log)
  /\ failed \subseteq Kinds
  /\ last = <<>> \/ (Len(last) = 1 /\ last[1] \in Rows)

\* The rows of the tables, field by field.
LEMMA RowsAre ==
  Rows = [owner : [Tracks -> Owners], home : [Tracks -> Clusters \cup {NoCluster}],
          links : SUBSET Frames, clusters : [Clusters -> ClusterRow],
          people : [People -> PersonRow],
          obs : SUBSET [key : ObsKeys, of : People],
          protos : SUBSET [key : ProtoKeys, of : People],
          index : [People -> SUBSET ProtoKeys]]
  BY DEF Rows, Owners, ClusterRow, PersonRow, Statuses, ObsKeys, ProtoKeys, Observation,
         Prototype

Moved(owner, T, p) == [t \in Tracks |-> IF t \in T THEN p ELSE owner[t]]

Indexed(d, p, A) ==
  IF NewProtos(d, p, A) = {} THEN d.index
                             ELSE Rebuilt(d.index, p, d.protos \cup NewProtos(d, p, A))

\* What learning tracks changes: owners, observations, prototypes and the index row.
LEMMA LearnedFields ==
  ASSUME TypeInv, NEW d \in Rows, NEW p \in People, NEW T \in SUBSET Tracks,
         NEW A \in SUBSET Tracks
  PROVE  /\ Learned(d, p, T, A) \in Rows
         /\ Learned(d, p, T, A).owner = Moved(d.owner, T, p)
         /\ Learned(d, p, T, A).home = d.home
         /\ Learned(d, p, T, A).links = d.links
         /\ Learned(d, p, T, A).clusters = d.clusters
         /\ Learned(d, p, T, A).people = d.people
         /\ Learned(d, p, T, A).obs = d.obs \cup NewObs(d, p, T)
         /\ Learned(d, p, T, A).protos = d.protos \cup NewProtos(d, p, A)
         /\ Learned(d, p, T, A).index = Indexed(d, p, A)
<1> DEFINE owner == [t \in Tracks |-> IF t \in T THEN p ELSE d.owner[t]]
           obs == d.obs \cup NewObs(d, p, T)
           protos == d.protos \cup NewProtos(d, p, A)
           index == IF NewProtos(d, p, A) = {} THEN d.index
                                              ELSE Rebuilt(d.index, p, protos)
<1>1. Learned(d, p, T, A) = [d EXCEPT !.owner = owner, !.obs = obs,
                                      !.protos = protos, !.index = index]
  BY RowsAre DEF Learned
<1>2. owner \in [Tracks -> Owners]
  BY RowsAre DEF Owners
<1>3. Now \in 0 .. MaxOps
  BY DEF TypeInv, IsLog, Now
<1>4. NewObs(d, p, T) \in SUBSET [key : ObsKeys, of : People]
  BY <1>3, IdentityAssumption DEF NewObs, ObsKeys
<1>5. NewProtos(d, p, A) \in SUBSET [key : ProtoKeys, of : People]
  BY <1>3 DEF NewProtos, ProtoKeys
<1>6. /\ obs \in SUBSET [key : ObsKeys, of : People]
      /\ protos \in SUBSET [key : ProtoKeys, of : People]
  BY <1>4, <1>5, RowsAre
<1>7. Keys({q \in protos : q.of = p}) \in SUBSET ProtoKeys
  BY <1>6 DEF Keys
<1>8. index \in [People -> SUBSET ProtoKeys]
  BY <1>7, RowsAre DEF Rebuilt
<1> HIDE DEF owner, obs, protos, index
<1>9. /\ [d EXCEPT !.owner = owner, !.obs = obs, !.protos = protos, !.index = index] \in Rows
  BY <1>2, <1>6, <1>8, RowsAre
<1>10. /\ Learned(d, p, T, A).owner = owner /\ Learned(d, p, T, A).obs = obs
       /\ Learned(d, p, T, A).protos = protos /\ Learned(d, p, T, A).index = index
       /\ Learned(d, p, T, A).home = d.home /\ Learned(d, p, T, A).links = d.links
       /\ Learned(d, p, T, A).clusters = d.clusters
       /\ Learned(d, p, T, A).people = d.people
  BY <1>1, RowsAre
<1> QED BY <1>1, <1>9, <1>10 DEF owner, obs, protos, index, Moved, Indexed

\* A refresh keeps cluster rows well typed.
LEMMA RefreshedTyped ==
  ASSUME NEW cs \in [Clusters -> ClusterRow], NEW c \in Clusters, NEW S
  PROVE  Refreshed(cs, c, S) \in [Clusters -> ClusterRow]
  BY DEF Refreshed, NoRow, ClusterRow, Statuses, Owners

Active == [status |-> "active", into |-> Nobody]

\* Only learning: what p gets from the tracks T of the cluster c.
Learns(d, c, p, A) ==
  /\ d \in Rows
  /\ d.owner = Moved(db.owner, Members(db, c), p)
  /\ d.home = db.home
  /\ d.clusters = [db.clusters EXCEPT ![c] = Labeled(@, p)]
  /\ d.obs = db.obs \cup NewObs(db, p, Members(db, c))
  /\ d.protos = db.protos \cup NewProtos(db, p, A)
  /\ d.index = Indexed(db, p, A)

\* A cluster row with one field set is one.
LEMMA SetField ==
  ASSUME NEW row \in ClusterRow
  PROVE  /\ \A v \in Nat : [row EXCEPT !.version = v] \in ClusterRow
         /\ row.version + 1 \in Nat
         /\ \A p \in Owners : [row EXCEPT !.label = p] \in ClusterRow
         /\ \A c \in Clusters \cup {NoCluster} : [row EXCEPT !.into = c] \in ClusterRow
         /\ \A st \in Statuses : [row EXCEPT !.status = st] \in ClusterRow
  BY DEF ClusterRow

\* A cluster row with two fields set is one, of the same version.
LEMMA SetTwo ==
  ASSUME NEW row \in ClusterRow, NEW st \in Statuses
  PROVE  /\ \A p \in Owners :
              /\ [row EXCEPT !.status = st, !.label = p] \in ClusterRow
              /\ [row EXCEPT !.status = st, !.label = p].version = row.version
         /\ \A c \in Clusters \cup {NoCluster} :
              /\ [row EXCEPT !.status = st, !.into = c] \in ClusterRow
              /\ [row EXCEPT !.status = st, !.into = c].version = row.version
         /\ [row EXCEPT !.status = st].version = row.version
  BY DEF ClusterRow

\* The rows that requests write are cluster rows.
LEMMA TypedRow ==
  ASSUME NEW row \in ClusterRow
  PROVE  /\ \A p \in Owners : Labeled(row, p) \in ClusterRow /\ Reopened(row, p) \in ClusterRow
         /\ \A st \in Statuses : Marked(row, st) \in ClusterRow
         /\ \A c \in Clusters \cup {NoCluster} : MergedInto(row, c) \in ClusterRow
<1>1. "labeled" \in Statuses /\ "open" \in Statuses /\ "merged" \in Statuses
  BY DEF Statuses
<1> DEFINE v == row.version + 1
<1>2. v \in Nat
  BY SetField
<1> HIDE DEF v
<1>3. ASSUME NEW p \in Owners, NEW st \in Statuses
      PROVE  [[row EXCEPT !.status = st, !.label = p] EXCEPT !.version = v] \in ClusterRow
  BY <1>2, SetTwo, SetField
<1>4. ASSUME NEW c \in Clusters \cup {NoCluster}, NEW st \in Statuses
      PROVE  [[row EXCEPT !.status = st, !.into = c] EXCEPT !.version = v] \in ClusterRow
  BY <1>2, SetTwo, SetField
<1>5. ASSUME NEW st \in Statuses
      PROVE  [[row EXCEPT !.status = st] EXCEPT !.version = v] \in ClusterRow
  BY <1>2, SetField
<1>6. ASSUME NEW p \in Owners
      PROVE  Labeled(row, p) \in ClusterRow /\ Reopened(row, p) \in ClusterRow
  BY <1>1, <1>3 DEF Labeled, Reopened, v
<1>7. ASSUME NEW st \in Statuses PROVE Marked(row, st) \in ClusterRow
  BY <1>5 DEF Marked, v
<1>8. ASSUME NEW c \in Clusters \cup {NoCluster} PROVE MergedInto(row, c) \in ClusterRow
  BY <1>1, <1>4 DEF MergedInto, v
<1> QED BY <1>6, <1>7, <1>8

\* What holds whenever a request is made.
LEMMA TypedRequest ==
  ASSUME TypeInv, NEW kind, NEW d, NEW entry, Mutates(kind, d, entry)
  PROVE  Now \in Nat /\ Now = Len(log) /\ Now < MaxOps /\ Now + 1 \in People /\ MaxOps \in Nat
         /\ kind \in Kinds /\ todo = {}
  BY IdentityAssumption DEF TypeInv, IsLog, Mutates, Now, People

\* What a label writes.
LEMMA LabelRows ==
  ASSUME TypeInv, NEW c \in Clusters, NEW A, Label(c, A)
  PROVE  /\ Now + 1 \in People
         /\ \E d : /\ Mutates("label", d,
                        [kind |-> "label", cluster |-> c, person |-> Now + 1,
                         tracks |-> Members(db, c)])
                   /\ Learns(d, c, Now + 1, A) /\ d.links = db.links
                   /\ d.people = [db.people EXCEPT ![Now + 1] = Active]
<1> DEFINE p == Now + 1
           T == Members(db, c)
           known == [db EXCEPT !.people[p].status = "active"]
           e == Learned(known, p, T, A)
           d == [e EXCEPT !.clusters[c] = Labeled(@, p)]
<1>1. Mutates("label", d, [kind |-> "label", cluster |-> c, person |-> p, tracks |-> T])
      /\ T \in SUBSET Tracks /\ A \in SUBSET Tracks
  BY DEF Label, Members
<1>2. p \in People /\ Now \in Nat /\ Now = Len(log)
  BY <1>1, TypedRequest
<1>3. db.people[p] = NoPerson
  BY <1>2 DEF TypeInv, Unborn
<1> DEFINE people == [db.people EXCEPT ![p] = Active]
<1>4. people \in [People -> PersonRow] /\ known = [db EXCEPT !.people = people]
  <2>1. [db.people EXCEPT ![p].status = "active"] = people
    BY <1>2, <1>3, RowsAre DEF TypeInv, NoPerson, Active, PersonRow, Owners
  <2>2. people \in [People -> PersonRow]
    BY RowsAre DEF TypeInv, Active, PersonRow, Owners
  <2> QED BY <2>1, <2>2
<1> HIDE DEF people
<1>5. known \in Rows /\ known.people = people /\ known.owner = db.owner
      /\ known.home = db.home /\ known.links = db.links /\ known.clusters = db.clusters
      /\ known.obs = db.obs /\ known.protos = db.protos /\ known.index = db.index
  BY <1>4, RowsAre DEF TypeInv
<1> HIDE DEF known
<1>6. NewObs(known, p, T) = NewObs(db, p, T) /\ NewProtos(known, p, A) = NewProtos(db, p, A)
  BY <1>5 DEF NewObs, NewProtos, ObsOf, ProtosOf
<1>7. /\ e \in Rows
      /\ e.owner = Moved(db.owner, T, p)
      /\ e.home = db.home /\ e.links = db.links
      /\ e.clusters = db.clusters /\ e.people = people
      /\ e.obs = db.obs \cup NewObs(db, p, T)
      /\ e.protos = db.protos \cup NewProtos(db, p, A)
      /\ e.index = Indexed(db, p, A)
  <2> HIDE DEF p, T
  <2>1. /\ e \in Rows
        /\ e.owner = Moved(known.owner, T, p)
        /\ e.home = known.home /\ e.links = known.links
        /\ e.clusters = known.clusters /\ e.people = known.people
        /\ e.obs = known.obs \cup NewObs(known, p, T)
        /\ e.protos = known.protos \cup NewProtos(known, p, A)
        /\ e.index = Indexed(known, p, A)
    <3>1. known \in Rows /\ p \in People /\ T \in SUBSET Tracks /\ A \in SUBSET Tracks
      BY <1>1, <1>2, <1>5
    <3> QED BY <3>1, LearnedFields
  <2> HIDE DEF e
  <2> QED BY <1>5, <1>6, <2>1 DEF Indexed
<1> HIDE DEF e
<1> DEFINE clusters == [db.clusters EXCEPT ![c] = Labeled(@, p)]
<1>8. clusters \in [Clusters -> ClusterRow]
  <2>1. db.clusters \in [Clusters -> ClusterRow] /\ p \in Owners
    BY <1>2, RowsAre DEF TypeInv, Owners
  <2>2. Labeled(db.clusters[c], p) \in ClusterRow
    BY <2>1, TypedRow
  <2> HIDE DEF p
  <2> QED BY <2>1, <2>2
<1>9. d = [e EXCEPT !.clusters = clusters]
  BY <1>7
<1> HIDE DEF d, clusters
<1>10. /\ d \in Rows
       /\ d.owner = e.owner /\ d.home = e.home /\ d.links = e.links
       /\ d.clusters = clusters /\ d.people = e.people /\ d.obs = e.obs
       /\ d.protos = e.protos /\ d.index = e.index
  BY <1>7, <1>8, <1>9, RowsAre
<1>11. Learns(d, c, p, A) /\ d.links = db.links /\ d.people = people
  BY <1>7, <1>10 DEF Learns, clusters
<1> QED BY <1>1, <1>2, <1>11 DEF people

AssignEntry(d, c, p, A) ==
  [kind |-> "assign", cluster |-> c, person |-> p, tracks |-> Members(db, c),
   owners |-> [t \in Members(db, c) |-> db.owner[t]],
   label |-> db.clusters[c].label,
   version |-> db.clusters[c].version,
   obs |-> Keys(NewObs(db, p, Members(db, c))),
   protos |-> Keys(NewProtos(db, p, A)),
   links |-> Conflicts(db, Members(db, c), Owned(db, p)),
   revision |-> Revision(d, p)]

\* Labelling a cluster keeps cluster rows well typed.
LEMMA RelabelTyped ==
  ASSUME TypeInv, NEW c \in Clusters, NEW p \in People
  PROVE  [db.clusters EXCEPT ![c] = Labeled(@, p)] \in [Clusters -> ClusterRow]
<1>1. db.clusters \in [Clusters -> ClusterRow] /\ p \in Owners
  BY RowsAre DEF TypeInv, Owners
<1>2. Labeled(db.clusters[c], p) \in ClusterRow
  BY <1>1, TypedRow
<1> QED BY <1>1, <1>2

\* What an assignment writes.
LEMMA AssignRows ==
  ASSUME TypeInv, NEW c \in Clusters, NEW p \in People, NEW A, Assign(c, p, A)
  PROVE  \E d : /\ Mutates("assign", d, AssignEntry(d, c, p, A))
                /\ Learns(d, c, p, A)
                /\ d.links = db.links \ Conflicts(db, Members(db, c), Owned(db, p))
                /\ d.people = db.people
<1> DEFINE T == Members(db, c)
           conflicts == Conflicts(db, T, Owned(db, p))
           e == Learned(db, p, T, A)
           d == [e EXCEPT !.links = @ \ conflicts, !.clusters[c] = Labeled(@, p)]
           clusters == [db.clusters EXCEPT ![c] = Labeled(@, p)]
           links == db.links \ conflicts
<1>1. Mutates("assign", d, AssignEntry(d, c, p, A))
  BY DEF Assign, AssignEntry
<1>2. T \in SUBSET Tracks /\ A \in SUBSET Tracks
  BY DEF Assign, Members
<1>3. db \in Rows
  BY DEF TypeInv
<1>4. clusters \in [Clusters -> ClusterRow]
  BY RelabelTyped
<1>5. links \in SUBSET Frames
  BY <1>3, RowsAre
<1> HIDE DEF T
<1>6. /\ e \in Rows
      /\ e.owner = Moved(db.owner, T, p)
      /\ e.home = db.home /\ e.links = db.links
      /\ e.clusters = db.clusters /\ e.people = db.people
      /\ e.obs = db.obs \cup NewObs(db, p, T)
      /\ e.protos = db.protos \cup NewProtos(db, p, A)
      /\ e.index = Indexed(db, p, A)
  BY <1>2, <1>3, LearnedFields
<1> HIDE DEF e
<1>7. d = [e EXCEPT !.links = links, !.clusters = clusters]
  BY <1>6
<1> HIDE DEF d, clusters, links
<1>8. /\ d \in Rows
      /\ d.owner = e.owner /\ d.home = e.home /\ d.links = links
      /\ d.clusters = clusters /\ d.people = e.people /\ d.obs = e.obs
      /\ d.protos = e.protos /\ d.index = e.index
  BY <1>4, <1>5, <1>6, <1>7, RowsAre
<1>9. Learns(d, c, p, A) /\ d.links = links /\ d.people = db.people
  BY <1>6, <1>8 DEF Learns, clusters, T
<1> QED BY <1>1, <1>9 DEF links, T

\* What the recognition of a track writes.
LEMMA RecogniseRows ==
  ASSUME TypeInv, NEW t \in Tracks, NEW p \in People, NEW A \in SUBSET Tracks,
         Recognise(t, p, A)
  PROVE  /\ db' \in Rows
         /\ db'.owner = Moved(db.owner, {t}, p)
         /\ db'.home = db.home /\ db'.links = db.links
         /\ db'.clusters = db.clusters /\ db'.people = db.people
         /\ db'.obs = db.obs \cup NewObs(db, p, {t})
         /\ db'.protos = db.protos \cup NewProtos(db, p, A)
         /\ db'.index = Indexed(db, p, A)
<1> DEFINE T == {t}
           e == Learned(db, p, T, A)
<1>1. db \in Rows /\ T \in SUBSET Tracks
  BY DEF TypeInv
<1>2. db' = e
  BY DEF Recognise
<1> HIDE DEF T
<1>3. /\ e \in Rows
      /\ e.owner = Moved(db.owner, T, p)
      /\ e.home = db.home /\ e.links = db.links
      /\ e.clusters = db.clusters /\ e.people = db.people
      /\ e.obs = db.obs \cup NewObs(db, p, T)
      /\ e.protos = db.protos \cup NewProtos(db, p, A)
      /\ e.index = Indexed(db, p, A)
  BY <1>1, LearnedFields
<1> HIDE DEF e
<1> QED BY <1>2, <1>3 DEF T

\* Fields of the rows but clusters and home.
SamePeople(d) ==
  /\ d.owner = db.owner /\ d.links = db.links /\ d.people = db.people
  /\ d.obs = db.obs /\ d.protos = db.protos /\ d.index = db.index

\* Writing cluster rows changes nothing else.
LEMMA ClustersSet ==
  ASSUME TypeInv, NEW clusters \in [Clusters -> ClusterRow]
  PROVE  /\ [db EXCEPT !.clusters = clusters] \in Rows
         /\ [db EXCEPT !.clusters = clusters].clusters = clusters
         /\ [db EXCEPT !.clusters = clusters].home = db.home
         /\ SamePeople([db EXCEPT !.clusters = clusters])
<1> DEFINE d == [db EXCEPT !.clusters = clusters]
<1>1. /\ d \in Rows /\ d.clusters = clusters /\ d.home = db.home
      /\ d.owner = db.owner /\ d.links = db.links /\ d.people = db.people
      /\ d.obs = db.obs /\ d.protos = db.protos /\ d.index = db.index
  BY RowsAre DEF TypeInv
<1> QED BY <1>1 DEF SamePeople

\* Writing cluster rows and the homes of tracks changes nothing else.
LEMMA HomesSet ==
  ASSUME TypeInv, NEW clusters \in [Clusters -> ClusterRow],
         NEW home \in [Tracks -> Clusters \cup {NoCluster}],
         NEW d, d = [db EXCEPT !.home = home, !.clusters = clusters]
  PROVE  /\ d \in Rows /\ d.clusters = clusters /\ d.home = home
         /\ SamePeople(d)
<1>1. /\ d \in Rows /\ d.clusters = clusters /\ d.home = home
      /\ d.owner = db.owner /\ d.links = db.links /\ d.people = db.people
      /\ d.obs = db.obs /\ d.protos = db.protos /\ d.index = db.index
  BY RowsAre DEF TypeInv
<1> QED BY <1>1 DEF SamePeople

\* Setting the status of a cluster keeps cluster rows well typed.
LEMMA RemarkTyped ==
  ASSUME TypeInv, NEW c \in Clusters, NEW status \in Statuses
  PROVE  [db.clusters EXCEPT ![c] = Marked(@, status)] \in [Clusters -> ClusterRow]
<1>1. db.clusters \in [Clusters -> ClusterRow]
  BY RowsAre DEF TypeInv
<1>2. Marked(db.clusters[c], status) \in ClusterRow
  BY <1>1, TypedRow
<1> QED BY <1>1, <1>2

\* What the mark of a false positive writes.
LEMMA FalsePositiveRows ==
  ASSUME TypeInv, NEW c \in Clusters, FalsePositive(c)
  PROVE  /\ Exists(db, c)
         /\ \E d : /\ Mutates("false_positive", d,
                        [kind |-> "false_positive", cluster |-> c,
                         status |-> db.clusters[c].status])
                   /\ d \in Rows /\ d.home = db.home /\ SamePeople(d)
                   /\ d.clusters = [db.clusters EXCEPT ![c] = Marked(@, "false_positive")]
<1> DEFINE clusters == [db.clusters EXCEPT ![c] = Marked(@, "false_positive")]
           d == [db EXCEPT !.clusters = clusters]
<1>1. /\ Mutates("false_positive", d,
           [kind |-> "false_positive", cluster |-> c, status |-> db.clusters[c].status])
      /\ Exists(db, c)
  <2>1. [db EXCEPT !.clusters[c] = Marked(@, "false_positive")] = d
    BY RowsAre DEF TypeInv
  <2> QED BY <2>1 DEF FalsePositive
<1>2. clusters \in [Clusters -> ClusterRow]
  BY RemarkTyped DEF Statuses
<1> HIDE DEF clusters
<1>3. d \in Rows /\ d.clusters = clusters /\ d.home = db.home /\ SamePeople(d)
  BY <1>2, ClustersSet
<1> HIDE DEF d
<1> QED BY <1>1, <1>3 DEF clusters

\* What the arrival of an event writes: the links of its frames.
LEMMA ArriveRows ==
  ASSUME TypeInv, NEW e \in Events, Arrive(e)
  PROVE  /\ db' \in Rows /\ db'.home = db.home /\ db'.clusters = db.clusters
         /\ db'.owner = db.owner /\ db'.people = db.people
         /\ db'.obs = db.obs /\ db'.protos = db.protos /\ db'.index = db.index
         /\ db'.links = db.links \cup {pair \in Frames : pair \subseteq todo'}
<1> DEFINE links == db.links \cup {pair \in Frames : pair \subseteq todo'}
<1>1. links \in SUBSET Frames /\ db' = [db EXCEPT !.links = links]
  BY RowsAre DEF TypeInv, Arrive
<1> HIDE DEF links
<1>2. /\ db' \in Rows /\ db'.home = db.home /\ db'.clusters = db.clusters
      /\ db'.owner = db.owner /\ db'.people = db.people
      /\ db'.obs = db.obs /\ db'.protos = db.protos /\ db'.index = db.index
      /\ db'.links = links
  BY <1>1, RowsAre DEF TypeInv
<1> QED BY <1>2 DEF links

Created(c, t) ==
  [db.clusters EXCEPT ![c] = IF c = t THEN [NoRow EXCEPT !.status = "open"] ELSE @]

\* What the clustering of a track writes.
LEMMA ClusterRows ==
  ASSUME TypeInv, NEW t \in Tracks, NEW c \in Clusters, Cluster(t, c)
  PROVE  /\ db' \in Rows /\ SamePeople(db')
         /\ db'.home = [db.home EXCEPT ![t] = c]
         /\ db'.clusters = Refreshed(Created(c, t), c, {t})
         /\ db'.clusters \in [Clusters -> ClusterRow]
<1> DEFINE home == [db.home EXCEPT ![t] = c]
           clusters == Refreshed(Created(c, t), c, {t})
<1>1. /\ home \in [Tracks -> Clusters \cup {NoCluster}]
      /\ db.clusters \in [Clusters -> ClusterRow]
  BY RowsAre DEF TypeInv
<1>2. [NoRow EXCEPT !.status = "open"] \in ClusterRow
  BY DEF NoRow, ClusterRow, Statuses, Owners
<1>3. Created(c, t) \in [Clusters -> ClusterRow]
  BY <1>1, <1>2 DEF Created
<1>4. clusters \in [Clusters -> ClusterRow]
  BY <1>3, RefreshedTyped
<1>5. db' = [db EXCEPT !.home = home, !.clusters = clusters]
  BY RowsAre DEF TypeInv, Cluster, Created
<1> HIDE DEF home, clusters
<1> DEFINE d == [db EXCEPT !.home = home, !.clusters = clusters]
<1>6. d \in Rows /\ d.clusters = clusters /\ d.home = home /\ SamePeople(d)
  BY <1>1, <1>4, HomesSet
<1> HIDE DEF d
<1>7. db' = d
  BY <1>5 DEF d
<1> QED BY <1>4, <1>6, <1>7 DEF home, clusters, SamePeople

Rehomed(T, c) == [u \in Tracks |-> IF u \in T THEN c ELSE db.home[u]]

\* Tracks moved to a cluster are in clusters.
LEMMA RehomedTyped ==
  ASSUME TypeInv, NEW T, NEW c \in Clusters
  PROVE  Rehomed(T, c) \in [Tracks -> Clusters \cup {NoCluster}]
  BY RowsAre DEF TypeInv, Rehomed

MergeClustersEntry(s, t) ==
  [kind |-> "merge_clusters", source |-> s, target |-> t, tracks |-> Members(db, s),
   status |-> db.clusters[s].status, into |-> db.clusters[s].into]

\* What a merge of clusters writes.
LEMMA MergeClustersRows ==
  ASSUME TypeInv, NEW s \in Clusters, NEW t \in Clusters, MergeClusters(s, t)
  PROVE  \E d : /\ Mutates("merge_clusters", d, MergeClustersEntry(s, t))
                /\ d \in Rows /\ SamePeople(d)
                /\ d.home = Rehomed(Members(db, s), t)
                /\ d.clusters = Refreshed([db.clusters EXCEPT ![s] = MergedInto(@, t)],
                                          t, Members(db, t))
<1> DEFINE gone == [db.clusters EXCEPT ![s] = MergedInto(@, t)]
           home == Rehomed(Members(db, s), t)
           clusters == Refreshed(gone, t, Members(db, t))
           d == [db EXCEPT !.home = home, !.clusters = clusters]
<1>1. Mutates("merge_clusters", d, MergeClustersEntry(s, t))
  <2>1. [db EXCEPT !.home = [u \in Tracks |-> IF u \in Members(db, s) THEN t ELSE @[u]],
                   !.clusters = Refreshed(gone, t, Members(db, t))] = d
    BY DEF Rehomed
  <2> QED BY <2>1 DEF MergeClusters, MergeClustersEntry
<1>2. gone \in [Clusters -> ClusterRow]
  <2>1. db.clusters \in [Clusters -> ClusterRow]
    BY RowsAre DEF TypeInv
  <2>2. MergedInto(db.clusters[s], t) \in ClusterRow
    BY <2>1, TypedRow
  <2> QED BY <2>1, <2>2
<1>3. clusters \in [Clusters -> ClusterRow]
  BY <1>2, RefreshedTyped
<1>4. home \in [Tracks -> Clusters \cup {NoCluster}]
  BY RehomedTyped
<1> HIDE DEF home, clusters
<1>5. d \in Rows /\ d.clusters = clusters /\ d.home = home /\ SamePeople(d)
  BY <1>3, <1>4, HomesSet
<1> HIDE DEF d
<1> QED BY <1>1, <1>5 DEF home, clusters

SplitClusters(c) ==
  Refreshed(Refreshed([db.clusters EXCEPT ![Spare] = [NoRow EXCEPT !.status = "open"]],
                      c, Members(db, c)),
            Spare, Members(db, Spare))

\* What a split would write.
LEMMA SplitRows ==
  ASSUME TypeInv, NEW c \in Clusters, NEW T, Split(c, T)
  PROVE  \E d : /\ Mutates("split", d, [kind |-> "split", cluster |-> c, tracks |-> T])
                /\ d \in Rows /\ SamePeople(d)
                /\ d.home = Rehomed(T, Spare)
                /\ d.clusters = SplitClusters(c)
<1> DEFINE new == [db.clusters EXCEPT ![Spare] = [NoRow EXCEPT !.status = "open"]]
           home == Rehomed(T, Spare)
           clusters == SplitClusters(c)
           d == [db EXCEPT !.home = home, !.clusters = clusters]
<1>1. Mutates("split", d, [kind |-> "split", cluster |-> c, tracks |-> T])
  <2>1. [db EXCEPT !.home = [u \in Tracks |-> IF u \in T THEN Spare ELSE @[u]],
                   !.clusters = SplitClusters(c)] = d
    BY DEF Rehomed
  <2> QED BY <2>1 DEF Split, SplitClusters
<1>2. new \in [Clusters -> ClusterRow]
  <2>1. db.clusters \in [Clusters -> ClusterRow]
    BY RowsAre DEF TypeInv
  <2>2. [NoRow EXCEPT !.status = "open"] \in ClusterRow
    BY DEF NoRow, ClusterRow, Statuses, Owners
  <2> QED BY <2>1, <2>2
<1>3. Spare \in Clusters
  BY DEF Clusters
<1> HIDE DEF new
<1>4. Refreshed(new, c, Members(db, c)) \in [Clusters -> ClusterRow]
  BY <1>2, RefreshedTyped
<1>5. clusters \in [Clusters -> ClusterRow]
  BY <1>3, <1>4, RefreshedTyped DEF SplitClusters, new
<1>6. home \in [Tracks -> Clusters \cup {NoCluster}]
  BY <1>3, RehomedTyped
<1> HIDE DEF home, clusters
<1>7. d \in Rows /\ d.clusters = clusters /\ d.home = home /\ SamePeople(d)
  BY <1>5, <1>6, HomesSet
<1> HIDE DEF d
<1> QED BY <1>1, <1>7 DEF home, clusters

-----------------------------------------------------------------------------
MergeEntry(s, t) ==
  [kind |-> "merge_people", source |-> s, target |-> t,
   tracks |-> Owned(db, s), protos |-> Keys(ProtosOf(db, s)),
   obs |-> Keys(ObsOf(db, s) \ Twice(db, s, t)), twice |-> Keys(Twice(db, s, t))]

MergeIndex(s, t) ==
  IF ProtosOf(db, s) = {} THEN [db.index EXCEPT ![s] = {}]
  ELSE Rebuilt([db.index EXCEPT ![s] = {}], t, db.protos)

\* A rebuilt index row holds prototype keys.
LEMMA RebuiltTyped ==
  ASSUME NEW index \in [People -> SUBSET ProtoKeys], NEW p,
         NEW P \in SUBSET [key : ProtoKeys, of : People]
  PROVE  Rebuilt(index, p, P) \in [People -> SUBSET ProtoKeys]
<1>1. Keys({q \in P : q.of = p}) \in SUBSET ProtoKeys
  BY DEF Keys
<1> QED BY <1>1 DEF Rebuilt

\* Observations and prototypes given to a person stay well typed.
LEMMA GivenTyped ==
  ASSUME NEW K, NEW p \in People
  PROVE  /\ \A S \in SUBSET [key : ObsKeys, of : People] :
              Given(S, K, p) \in SUBSET [key : ObsKeys, of : People]
         /\ \A S \in SUBSET [key : ProtoKeys, of : People] :
              Given(S, K, p) \in SUBSET [key : ProtoKeys, of : People]
  BY DEF Given

MergedAway(t) == [status |-> "merged", into |-> t]

\* Everything of s goes to t.
Merges(d, s, t) ==
  /\ d \in Rows
  /\ d.owner = Moved(db.owner, Owned(db, s), t)
  /\ d.home = db.home /\ d.links = db.links /\ d.clusters = db.clusters
  /\ d.people = [db.people EXCEPT ![s] = MergedAway(t)]
  /\ d.obs = Given(db.obs \ Twice(db, s, t), Keys(ObsOf(db, s) \ Twice(db, s, t)), t)
  /\ d.protos = Given(db.protos, Keys(ProtosOf(db, s)), t)
  /\ d.index = MergeIndex(s, t)

\* What a merge of people writes.
LEMMA MergePeopleRows ==
  ASSUME TypeInv, NEW s \in People, NEW t \in People, MergePeople(s, t)
  PROVE  \E d : Mutates("merge_people", d, MergeEntry(s, t)) /\ Merges(d, s, t)
<1> DEFINE owner == Moved(db.owner, Owned(db, s), t)
           obs == Given(db.obs \ Twice(db, s, t), Keys(ObsOf(db, s) \ Twice(db, s, t)), t)
           protos == Given(db.protos, Keys(ProtosOf(db, s)), t)
           people == [db.people EXCEPT ![s] = MergedAway(t)]
           index == MergeIndex(s, t)
           d == [db EXCEPT !.owner = owner, !.obs = obs, !.protos = protos,
                           !.people = people, !.index = index]
<1>1. db \in Rows
  BY DEF TypeInv
<1>2. owner \in [Tracks -> Owners] /\ people \in [People -> PersonRow]
  BY <1>1, RowsAre DEF Moved, Owners, PersonRow, MergedAway
<1>3. obs \in SUBSET [key : ObsKeys, of : People]
      /\ protos \in SUBSET [key : ProtoKeys, of : People]
  <2>1. db.obs \ Twice(db, s, t) \in SUBSET [key : ObsKeys, of : People]
        /\ db.protos \in SUBSET [key : ProtoKeys, of : People]
    BY <1>1, RowsAre
  <2> QED BY <2>1, GivenTyped
<1>4. index \in [People -> SUBSET ProtoKeys]
  <2>1. db.protos \in SUBSET [key : ProtoKeys, of : People]
        /\ [db.index EXCEPT ![s] = {}] \in [People -> SUBSET ProtoKeys]
    BY <1>1, RowsAre
  <2> QED BY <2>1, RebuiltTyped DEF MergeIndex
<1>5. owner = [u \in Tracks |-> IF db.owner[u] = s THEN t ELSE db.owner[u]]
  BY DEF Moved, Owned
<1> HIDE DEF owner
<1>6. Mutates("merge_people", d, MergeEntry(s, t))
  BY <1>5 DEF MergePeople, MergeEntry, MergeIndex, MergedAway
<1> HIDE DEF obs, protos, people, index
<1>7. /\ d \in Rows /\ d.owner = owner /\ d.obs = obs /\ d.protos = protos
      /\ d.people = people /\ d.index = index
      /\ d.home = db.home /\ d.links = db.links /\ d.clusters = db.clusters
  BY <1>1, <1>2, <1>3, <1>4, RowsAre
<1> HIDE DEF d
<1>8. Merges(d, s, t)
  BY <1>7 DEF owner, obs, protos, people, index, Merges
<1> QED BY <1>6, <1>8

UndoEntry(n) == [kind |-> "undo", op |-> n]

\* The undo of n, committed or rolled back.
Undoing(n, kind, d) ==
  /\ n \in 1 .. Len(log) /\ n \notin undone
  /\ Mutates(kind, d, UndoEntry(n))
  /\ IF Sound(d) THEN undone' = undone \cup {n} ELSE UNCHANGED undone

\* The undo of a kind of operation undoes one of that kind.
LEMMA UndoingIs ==
  ASSUME TypeInv, NEW n, NEW k, Undoable(n, k), NEW kind, NEW d, Undo(n, kind, d)
  PROVE  Undoing(n, kind, d) /\ log[n].kind = k /\ EntryOK(log[n])
<1>1. n \in 1 .. Len(log) /\ n \notin undone /\ log[n].kind = k
  BY DEF Undoable, TypeInv, IsLog
<1>2. EntryOK(log[n])
  BY <1>1 DEF TypeInv
<1> QED BY <1>1, <1>2 DEF Undoing, Undo, UndoEntry

\* Reopening a cluster keeps cluster rows well typed.
LEMMA ReopenTyped ==
  ASSUME TypeInv, NEW c \in Clusters, NEW p \in Owners
  PROVE  [db.clusters EXCEPT ![c] = Reopened(@, p)] \in [Clusters -> ClusterRow]
<1>1. db.clusters \in [Clusters -> ClusterRow]
  BY RowsAre DEF TypeInv
<1>2. Reopened(db.clusters[c], p) \in ClusterRow
  BY <1>1, TypedRow
<1> QED BY <1>1, <1>2

\* What the operation op gave is taken back, and its person with it.
Unlabels(d, op) ==
  /\ d \in Rows /\ d.home = db.home /\ d.links = db.links
  /\ d.owner = Moved(db.owner, op.tracks, Nobody)
  /\ d.obs = Without(db.obs, Keys(ObsOf(db, op.person)))
  /\ d.protos = Without(db.protos, Keys(ProtosOf(db, op.person)))
  /\ d.index = [db.index EXCEPT ![op.person] = {}]
  /\ d.clusters = [db.clusters EXCEPT ![op.cluster] = Reopened(@, Nobody)]
  /\ d.people = [db.people EXCEPT ![op.person] = NoPerson]

MayUnlabel(op) ==
  /\ op.kind = "label" /\ EntryOK(op) /\ op.person \in People /\ op.cluster \in Clusters
  /\ Exists(db, op.cluster) /\ IsActive(db, op.person)
  /\ op.tracks \subseteq Owned(db, op.person)

\* What the undo of a label writes.
LEMMA UndoLabelRows ==
  ASSUME TypeInv, NEW n, UndoLabel(n)
  PROVE  /\ MayUnlabel(log[n])
         /\ \E d : Undoing(n, "undo_label", d) /\ Unlabels(d, log[n])
<1> DEFINE op == log[n]
           p == op.person
           owner == Moved(db.owner, op.tracks, Nobody)
           obs == Without(db.obs, Keys(ObsOf(db, p)))
           protos == Without(db.protos, Keys(ProtosOf(db, p)))
           index == [db.index EXCEPT ![p] = {}]
           clusters == [db.clusters EXCEPT ![op.cluster] = Reopened(@, Nobody)]
           people == [db.people EXCEPT ![p] = NoPerson]
           d == [db EXCEPT !.owner = owner, !.obs = obs, !.protos = protos,
                           !.index = index, !.clusters = clusters, !.people = people]
<1>1. /\ Undoable(n, "label") /\ Undo(n, "undo_label", d)
      /\ Exists(db, op.cluster) /\ IsActive(db, p) /\ op.tracks \subseteq Owned(db, p)
  <2>1. /\ Undoable(n, "label")
        /\ Exists(db, op.cluster) /\ IsActive(db, p) /\ op.tracks \subseteq Owned(db, p)
        /\ Undo(n, "undo_label",
             [db EXCEPT !.owner = owner, !.obs = obs, !.protos = protos, !.index[p] = {},
                        !.clusters[op.cluster] = Reopened(@, Nobody), !.people[p] = NoPerson])
    BY DEF UndoLabel, Moved
  <2>2. [db EXCEPT !.owner = owner, !.obs = obs, !.protos = protos, !.index[p] = {},
                   !.clusters[op.cluster] = Reopened(@, Nobody), !.people[p] = NoPerson] = d
    BY RowsAre DEF TypeInv
  <2> QED BY <2>1, <2>2
<1>2. Undoing(n, "undo_label", d) /\ op.kind = "label" /\ EntryOK(op)
  BY <1>1, UndoingIs
<1>3. p \in People /\ op.cluster \in Clusters
  BY <1>2 DEF EntryOK
<1>4. db \in Rows /\ Nobody \in Owners
  BY DEF TypeInv, Owners
<1>5. clusters \in [Clusters -> ClusterRow]
  BY <1>3, <1>4, ReopenTyped
<1>6. owner \in [Tracks -> Owners] /\ people \in [People -> PersonRow]
      /\ index \in [People -> SUBSET ProtoKeys]
  BY <1>4, RowsAre DEF Moved, PersonRow, NoPerson
<1>7. obs \in SUBSET [key : ObsKeys, of : People]
      /\ protos \in SUBSET [key : ProtoKeys, of : People]
  BY <1>4, RowsAre DEF Without
<1> HIDE DEF owner, obs, protos, people, index, clusters
<1>8. /\ d \in Rows /\ d.owner = owner /\ d.obs = obs /\ d.protos = protos
      /\ d.people = people /\ d.index = index /\ d.clusters = clusters
      /\ d.home = db.home /\ d.links = db.links
  BY <1>4, <1>5, <1>6, <1>7, RowsAre
<1> HIDE DEF d
<1>9. Unlabels(d, op)
  BY <1>8 DEF owner, obs, protos, people, index, clusters, Unlabels
<1>10. MayUnlabel(op)
  BY <1>1, <1>2, <1>3 DEF MayUnlabel
<1> QED BY <1>2, <1>9, <1>10

UnassignIndex(op) ==
  IF op.protos = {} THEN db.index
  ELSE Rebuilt(db.index, op.person, Without(db.protos, op.protos))

\* What the operation op added is taken back, and the owners before it restored.
Unassigns(d, op) ==
  /\ d \in Rows /\ d.home = db.home /\ d.people = db.people
  /\ d.links = db.links \cup op.links
  /\ d.owner = [t \in Tracks |-> IF t \in op.tracks THEN op.owners[t] ELSE db.owner[t]]
  /\ d.obs = Without(db.obs, op.obs)
  /\ d.protos = Without(db.protos, op.protos)
  /\ d.index = UnassignIndex(op)
  /\ d.clusters = [db.clusters EXCEPT ![op.cluster] = Reopened(@, op.label)]

MayUnassign(op) ==
  /\ op.kind = "assign" /\ EntryOK(op) /\ op.person \in People /\ op.cluster \in Clusters
  /\ Exists(db, op.cluster) /\ IsActive(db, op.person)
  /\ db.clusters[op.cluster].label = op.person
  /\ op.tracks \subseteq Owned(db, op.person)
  /\ op.links # {} =>
       Revision(db, op.person) = op.revision /\ Members(db, op.cluster) = op.tracks

\* What the undo of an assignment writes.
LEMMA UndoAssignRows ==
  ASSUME TypeInv, NEW n, UndoAssign(n)
  PROVE  /\ MayUnassign(log[n])
         /\ \E d : Undoing(n, "undo_assign", d) /\ Unassigns(d, log[n])
<1> DEFINE op == log[n]
           p == op.person
           c == op.cluster
           owner == [t \in Tracks |-> IF t \in op.tracks THEN op.owners[t] ELSE db.owner[t]]
           links == db.links \cup op.links
           obs == Without(db.obs, op.obs)
           protos == Without(db.protos, op.protos)
           index == UnassignIndex(op)
           clusters == [db.clusters EXCEPT ![c] = Reopened(@, op.label)]
           d == [db EXCEPT !.owner = owner, !.links = links, !.obs = obs, !.protos = protos,
                           !.index = index, !.clusters = clusters]
<1>1. /\ Undoable(n, "assign") /\ Undo(n, "undo_assign", d)
      /\ Exists(db, c) /\ IsActive(db, p) /\ db.clusters[c].label = p
      /\ op.tracks \subseteq Owned(db, p)
      /\ op.links # {} =>
           /\ Revision(db, p) = op.revision
           /\ Members(db, c) = op.tracks
  <2>1. /\ Undoable(n, "assign")
        /\ Undo(n, "undo_assign",
             [db EXCEPT !.owner = owner, !.links = links, !.obs = obs, !.protos = protos,
                        !.index = index, !.clusters[c] = Reopened(@, op.label)])
    BY DEF UndoAssign, UnassignIndex
  <2>2. [db EXCEPT !.owner = owner, !.links = links, !.obs = obs, !.protos = protos,
                   !.index = index, !.clusters[c] = Reopened(@, op.label)] = d
    BY RowsAre DEF TypeInv
  <2>3. /\ Exists(db, c) /\ IsActive(db, p) /\ db.clusters[c].label = p
        /\ op.tracks \subseteq Owned(db, p)
        /\ op.links # {} =>
             /\ Revision(db, p) = op.revision
             /\ Members(db, c) = op.tracks
    BY DEF UndoAssign
  <2> QED BY <2>1, <2>2, <2>3
<1>2. Undoing(n, "undo_assign", d) /\ op.kind = "assign" /\ EntryOK(op)
  BY <1>1, UndoingIs
<1>3. p \in People /\ c \in Clusters /\ op.label \in Owners /\ op.tracks \subseteq Tracks
      /\ op.owners \in [op.tracks -> Owners] /\ op.links \subseteq Frames
  BY <1>2 DEF EntryOK
<1>4. db \in Rows
  BY DEF TypeInv
<1>5. clusters \in [Clusters -> ClusterRow]
  BY <1>3, ReopenTyped
<1>6. owner \in [Tracks -> Owners] /\ links \in SUBSET Frames
  BY <1>3, <1>4, RowsAre
<1>7. obs \in SUBSET [key : ObsKeys, of : People]
      /\ protos \in SUBSET [key : ProtoKeys, of : People]
  BY <1>4, RowsAre DEF Without
<1>8. index \in [People -> SUBSET ProtoKeys]
  BY <1>4, <1>7, RebuiltTyped, RowsAre DEF UnassignIndex
<1> HIDE DEF owner, obs, protos, links, index, clusters
<1>9. /\ d \in Rows /\ d.owner = owner /\ d.obs = obs /\ d.protos = protos
      /\ d.links = links /\ d.index = index /\ d.clusters = clusters
      /\ d.home = db.home /\ d.people = db.people
  BY <1>4, <1>5, <1>6, <1>7, <1>8, RowsAre
<1> HIDE DEF d
<1>10. Unassigns(d, op)
  BY <1>9 DEF owner, obs, protos, links, index, clusters, Unassigns
<1>11. MayUnassign(op)
  BY <1>1, <1>2, <1>3 DEF MayUnassign
<1> QED BY <1>2, <1>10, <1>11

\* What the undo of a false positive writes.
LEMMA UndoFalsePositiveRows ==
  ASSUME TypeInv, NEW n, UndoFalsePositive(n)
  PROVE  /\ log[n].kind = "false_positive" /\ EntryOK(log[n]) /\ log[n].cluster \in Clusters
         /\ db.clusters[log[n].cluster].status = "false_positive"
         /\ \E d : /\ Undoing(n, "undo_false_positive", d)
                   /\ d \in Rows /\ d.home = db.home /\ SamePeople(d)
                   /\ d.clusters = [db.clusters EXCEPT
                                     ![log[n].cluster] = Marked(@, log[n].status)]
<1> DEFINE op == log[n]
           c == op.cluster
           clusters == [db.clusters EXCEPT ![c] = Marked(@, op.status)]
           d == [db EXCEPT !.clusters = clusters]
<1>1. /\ Undoable(n, "false_positive") /\ Undo(n, "undo_false_positive", d)
      /\ db.clusters[c].status = "false_positive"
  <2>1. [db EXCEPT !.clusters[c] = Marked(@, op.status)] = d
    BY RowsAre DEF TypeInv
  <2> QED BY <2>1 DEF UndoFalsePositive
<1>2. Undoing(n, "undo_false_positive", d) /\ op.kind = "false_positive" /\ EntryOK(op)
  BY <1>1, UndoingIs
<1>3. c \in Clusters /\ op.status \in Statuses
  BY <1>2 DEF EntryOK
<1>4. clusters \in [Clusters -> ClusterRow]
  BY <1>3, RemarkTyped
<1> HIDE DEF clusters
<1>5. d \in Rows /\ d.clusters = clusters /\ d.home = db.home /\ SamePeople(d)
  BY <1>4, ClustersSet
<1> HIDE DEF d
<1> QED BY <1>1, <1>2, <1>3, <1>5 DEF clusters

UnmergedClusters(op) ==
  Refreshed(Refreshed([db.clusters EXCEPT ![op.source] = NotMerged(@, op)],
                      op.source, Members(db, op.source)),
            op.target, Members(db, op.target))

\* What the undo of a merge of clusters writes.
LEMMA UndoMergeClustersRows ==
  ASSUME TypeInv, NEW n, UndoMergeClusters(n)
  PROVE  /\ log[n].kind = "merge_clusters" /\ EntryOK(log[n])
         /\ \E d : /\ Undoing(n, "undo_merge_clusters", d)
                   /\ d \in Rows /\ SamePeople(d)
                   /\ d.home = Rehomed(log[n].tracks, log[n].source)
                   /\ d.clusters = UnmergedClusters(log[n])
<1> DEFINE op == log[n]
           back == [db.clusters EXCEPT ![op.source] = NotMerged(@, op)]
           home == Rehomed(op.tracks, op.source)
           clusters == UnmergedClusters(op)
           d == [db EXCEPT !.home = home, !.clusters = clusters]
<1>1. Undoable(n, "merge_clusters") /\ Undo(n, "undo_merge_clusters", d)
  <2>1. [db EXCEPT !.home = [u \in Tracks |-> IF u \in op.tracks THEN op.source ELSE @[u]],
                   !.clusters = UnmergedClusters(op)] = d
    BY DEF Rehomed
  <2> QED BY <2>1 DEF UndoMergeClusters, UnmergedClusters
<1>2. Undoing(n, "undo_merge_clusters", d) /\ op.kind = "merge_clusters" /\ EntryOK(op)
  BY <1>1, UndoingIs
<1>3. op.source \in Clusters /\ op.target \in Clusters /\ op.status \in Statuses
      /\ op.into \in Clusters \cup {NoCluster}
  BY <1>2 DEF EntryOK
<1>4. back \in [Clusters -> ClusterRow]
  <2>1. db.clusters \in [Clusters -> ClusterRow]
    BY RowsAre DEF TypeInv
  <2>2. \A row \in ClusterRow : NotMerged(row, op) \in ClusterRow
    BY <1>3 DEF NotMerged, ClusterRow
  <2>3. NotMerged(db.clusters[op.source], op) \in ClusterRow
    BY <1>3, <2>1, <2>2
  <2> QED BY <1>3, <2>1, <2>3
<1> HIDE DEF back
<1>5. Refreshed(back, op.source, Members(db, op.source)) \in [Clusters -> ClusterRow]
  BY <1>3, <1>4, RefreshedTyped
<1>6. clusters \in [Clusters -> ClusterRow]
  BY <1>3, <1>5, RefreshedTyped DEF UnmergedClusters, back
<1>7. home \in [Tracks -> Clusters \cup {NoCluster}]
  BY <1>3, RehomedTyped
<1> HIDE DEF home, clusters
<1>8. d \in Rows /\ d.clusters = clusters /\ d.home = home /\ SamePeople(d)
  BY <1>6, <1>7, HomesSet
<1> HIDE DEF d
<1> QED BY <1>1, <1>2, <1>8 DEF home, clusters

UnmergedIndex(op) ==
  IF {q \in db.protos : q.key \in op.protos} = {} THEN db.index
  ELSE Rebuilt(Rebuilt(db.index, op.source, db.protos), op.target, db.protos)

\* Whoever is unmerged is active, and merged into nobody.
LEMMA UnmergedIs ==
  ASSUME NEW row \in PersonRow
  PROVE  Unmerged(row) = Active
<1> DEFINE first == [row EXCEPT !.status = "active"]
<1>1. first = [status |-> "active", into |-> row.into]
  BY DEF PersonRow
<1> HIDE DEF first
<1>2. [first EXCEPT !.into = Nobody] = [status |-> "active", into |-> Nobody]
  BY <1>1
<1> QED BY <1>2 DEF Unmerged, Active, first

\* What moved comes back, and what was deleted is inserted again.
Unmerges(d, op) ==
  /\ d \in Rows /\ d.home = db.home /\ d.links = db.links /\ d.clusters = db.clusters
  /\ d.owner = Moved(db.owner, op.tracks, op.source)
  /\ d.obs = Given(db.obs, op.obs, op.source) \cup Again(op.twice, op.source)
  /\ d.protos = Given(db.protos, op.protos, op.source)
  /\ d.people = [db.people EXCEPT ![op.source] = Active]
  /\ d.index = UnmergedIndex(op)

MayUnmerge(op) ==
  /\ op.kind = "merge_people" /\ EntryOK(op)
  /\ op.source \in People /\ op.target \in People
  /\ db.people[op.source].into = op.target

\* What the undo of a merge of people writes.
LEMMA UndoMergePeopleRows ==
  ASSUME TypeInv, NEW n, UndoMergePeople(n)
  PROVE  /\ MayUnmerge(log[n])
         /\ \E d : Undoing(n, "undo_merge_people", d) /\ Unmerges(d, log[n])
<1> DEFINE op == log[n]
           s == op.source
           owner == Moved(db.owner, op.tracks, s)
           obs == Given(db.obs, op.obs, s) \cup Again(op.twice, s)
           protos == Given(db.protos, op.protos, s)
           people == [db.people EXCEPT ![s] = Active]
           index == UnmergedIndex(op)
           d == [db EXCEPT !.owner = owner, !.obs = obs, !.protos = protos,
                           !.people = people, !.index = index]
<1>0. db \in Rows
  BY DEF TypeInv
<1> DEFINE e == [db EXCEPT !.owner = owner, !.obs = obs, !.protos = protos,
                           !.people[s] = Unmerged(@), !.index = index]
<1>1. Undoable(n, "merge_people") /\ Undo(n, "undo_merge_people", e)
      /\ db.people[s].into = op.target
  BY DEF UndoMergePeople, UnmergedIndex, Moved
<1>2. Undoing(n, "undo_merge_people", e) /\ op.kind = "merge_people" /\ EntryOK(op)
  BY <1>1, UndoingIs
<1>3. s \in People /\ op.target \in People /\ op.twice \subseteq ObsKeys
  BY <1>2 DEF EntryOK
<1>4. e = d
  <2>1. Unmerged(db.people[s]) = Active
    <3>1. db.people[s] \in PersonRow
      BY <1>0, <1>3, RowsAre
    <3> QED BY <3>1, UnmergedIs
  <2>2. [db EXCEPT !.people[s] = Unmerged(@)] = [db EXCEPT !.people = people]
    BY <1>0, <1>3, <2>1, RowsAre
  <2> QED BY <1>0, <2>1, RowsAre
<1>5. Undoing(n, "undo_merge_people", d)
  BY <1>2, <1>4
<1> HIDE DEF e
<1>6. owner \in [Tracks -> Owners] /\ people \in [People -> PersonRow]
  BY <1>0, <1>3, RowsAre DEF Moved, Owners, PersonRow, Active
<1>7. protos \in SUBSET [key : ProtoKeys, of : People]
      /\ Given(db.obs, op.obs, s) \in SUBSET [key : ObsKeys, of : People]
  BY <1>0, <1>3, GivenTyped, RowsAre
<1>8. obs \in SUBSET [key : ObsKeys, of : People]
  BY <1>3, <1>7 DEF Again
<1>9. index \in [People -> SUBSET ProtoKeys]
  <2>1. db.protos \in SUBSET [key : ProtoKeys, of : People]
        /\ db.index \in [People -> SUBSET ProtoKeys]
    BY <1>0, RowsAre
  <2>2. Rebuilt(db.index, s, db.protos) \in [People -> SUBSET ProtoKeys]
    BY <2>1, RebuiltTyped
  <2> QED BY <2>1, <2>2, RebuiltTyped DEF UnmergedIndex
<1> HIDE DEF owner, obs, protos, people, index
<1>10. /\ d \in Rows /\ d.owner = owner /\ d.obs = obs /\ d.protos = protos
       /\ d.people = people /\ d.index = index
       /\ d.home = db.home /\ d.links = db.links /\ d.clusters = db.clusters
  BY <1>0, <1>6, <1>7, <1>8, <1>9, RowsAre
<1> HIDE DEF d
<1>11. Unmerges(d, op)
  BY <1>10 DEF owner, obs, protos, people, index, Unmerges
<1>12. MayUnmerge(op)
  BY <1>1, <1>2, <1>3 DEF MayUnmerge
<1> QED BY <1>5, <1>11, <1>12

-----------------------------------------------------------------------------
\* A request that is committed, and one that is rolled back.
Committing(d, entry) ==
  /\ Sound(d) /\ db' = d /\ log' = Append(log, entry) /\ last' = <<db>>
  /\ UNCHANGED <<pending, todo, failed>>

RolledBack(kind) ==
  UNCHANGED <<pending, todo, db, log, last>> /\ failed' = failed \cup {kind}

\* A request commits its rows, or they are unsound and it is rolled back.
LEMMA Outcome ==
  ASSUME TypeInv, NEW kind, NEW d, NEW entry, Mutates(kind, d, entry)
  PROVE  /\ kind \in Kinds /\ todo = {} /\ Now = Len(log) /\ Len(log) < MaxOps
         /\ \/ Committing(d, entry)
            \/ ~Sound(d) /\ RolledBack(kind)
<1>1. kind \in Kinds /\ todo = {} /\ Now = Len(log) /\ Len(log) < MaxOps
  BY DEF Mutates, Now
<1>2. CASE Sound(d)
  BY <1>1, <1>2 DEF Mutates, Committing
<1>3. CASE ~Sound(d)
  BY <1>1, <1>3 DEF Mutates, RolledBack
<1> QED BY <1>1, <1>2, <1>3

-----------------------------------------------------------------------------
(* The types are kept.                                                     *)

\* A request whose rows and record are well typed keeps everything so.
LEMMA TypeRequest ==
  ASSUME TypeInv, NEW kind, NEW d, NEW entry, Mutates(kind, d, entry),
         d \in Rows, MergedSayInto(d), Unborn(d, Len(log) + 1), EntryOK(entry),
         undone' \subseteq undone \cup (1 .. Len(log))
  PROVE  TypeInv'
<1>1. kind \in Kinds /\ IsLog /\ Len(log) < MaxOps
  BY Outcome DEF TypeInv
<1>2. CASE Committing(d, entry)
  <2>1. db' = d /\ log' = Append(log, entry) /\ last' = <<db>>
        /\ UNCHANGED <<pending, todo, failed>>
    BY <1>2 DEF Committing
  <2>2. /\ IsLog' /\ Len(log) \in Nat /\ Len(log') = Len(log) + 1
        /\ log'[Len(log) + 1] = entry
        /\ \A n \in 1 .. Len(log) : log'[n] = log[n]
    BY <1>1, <2>1, Appended
  <2>3. \A n \in 1 .. Len(log') : EntryOK(log'[n])
    <3>1. ASSUME NEW n \in 1 .. Len(log') PROVE EntryOK(log'[n])
      <4>1. CASE n \in 1 .. Len(log)
        <5>1. EntryOK(log[n]) /\ log'[n] = log[n]
          BY <2>2, <4>1 DEF TypeInv
        <5> QED BY <5>1
      <4>2. CASE n = Len(log) + 1
        BY <2>2, <4>2
      <4> QED BY <2>2, <4>1, <4>2
    <3> QED BY <3>1
  <2>4. MergedSayInto(db') /\ Unborn(db', Len(log')) /\ db' \in Rows
    BY <2>1, <2>2
  <2>5. Len(log') <= MaxOps /\ undone' \subseteq 1 .. Len(log')
    BY <1>1, <2>2, IdentityAssumption DEF TypeInv
  <2>6. Len(last') = 1 /\ last'[1] \in Rows
    BY <2>1 DEF TypeInv
  <2>7. pending' \subseteq Events /\ todo' \subseteq Tracks /\ failed' \subseteq Kinds
    BY <2>1 DEF TypeInv
  <2> HIDE DEF TypeInv
  <2> QED BY <2>2, <2>3, <2>4, <2>5, <2>6, <2>7
           DEF TypeInv, MergedSayInto, Unborn, EntryOK, IsLog
<1>3. CASE RolledBack(kind)
  <2>1. UNCHANGED <<pending, todo, db, log, last>> /\ failed' = failed \cup {kind}
        /\ undone' \subseteq 1 .. Len(log)
    BY <1>3 DEF RolledBack, TypeInv
  <2> QED BY <1>1, <2>1 DEF TypeInv, MergedSayInto, Unborn, EntryOK, IsLog
<1> QED BY <1>2, <1>3, Outcome

\* What a request that touches no person keeps.
LEMMA SamePersons ==
  ASSUME TypeInv, NEW d, d.people = db.people
  PROVE  MergedSayInto(d) /\ Unborn(d, Len(log) + 1)
<1>1. Len(log) \in Nat
  BY DEF TypeInv, IsLog
<1> QED BY <1>1 DEF TypeInv, MergedSayInto, Unborn, People

\* The empty database is well typed.
LEMMA TypeInit == Init => TypeInv
<1> SUFFICES ASSUME Init PROVE TypeInv
  OBVIOUS
<1>1. log = <<>> /\ Len(log) = 0 /\ IsLog /\ log \in Seq({})
  BY DEF Init, IsLog
<1>2. db \in Rows
  <2>1. NoRow \in ClusterRow /\ NoPerson \in PersonRow
    BY DEF NoRow, NoPerson, ClusterRow, PersonRow, Statuses, Owners
  <2>2. Nobody \in Owners
    BY DEF Owners
  <2> QED BY <2>1, <2>2, RowsAre DEF Init
<1>3. MergedSayInto(db) /\ Unborn(db, Len(log))
  BY DEF Init, MergedSayInto, Unborn, NoPerson
<1>4. \A n \in 1 .. Len(log) : EntryOK(log[n])
  BY <1>1
<1> QED BY <1>1, <1>2, <1>3, <1>4, IdentityAssumption DEF Init, TypeInv

\* The pipeline keeps everything well typed.
LEMMA TypePipeline ==
  ASSUME TypeInv, Pipeline
  PROVE  TypeInv'
<1>1. ASSUME NEW e \in Events, Arrive(e) PROVE TypeInv'
  <2>1. db' \in Rows /\ db'.people = db.people
    BY <1>1, ArriveRows
  <2>2. /\ pending' \subseteq Events /\ todo' \subseteq Tracks
        /\ UNCHANGED <<log, undone, failed>>
        /\ last' = <<>>
    BY <1>1 DEF Arrive, TypeInv
  <2> QED BY <2>1, <2>2 DEF TypeInv, MergedSayInto, Unborn, EntryOK, IsLog
<1>2. ASSUME NEW t \in Tracks, NEW p \in People, NEW A \in SUBSET ({t} \cap Good),
             Recognise(t, p, A)
      PROVE  TypeInv'
  <2>1. A \in SUBSET Tracks
    OBVIOUS
  <2>2. db' \in Rows /\ db'.people = db.people
    BY <1>2, <2>1, RecogniseRows
  <2>3. todo' \subseteq todo /\ UNCHANGED <<pending, log, undone, failed, last>>
    BY <1>2 DEF Recognise
  <2> QED BY <2>2, <2>3 DEF TypeInv, MergedSayInto, Unborn, EntryOK, IsLog
<1>3. ASSUME NEW t \in Tracks, NEW c \in Clusters, Cluster(t, c)
      PROVE  TypeInv'
  <2>1. db' \in Rows /\ db'.people = db.people
    BY <1>3, ClusterRows DEF SamePeople
  <2>2. todo' \subseteq todo /\ UNCHANGED <<pending, log, undone, failed, last>>
    BY <1>3 DEF Cluster
  <2> QED BY <2>1, <2>2 DEF TypeInv, MergedSayInto, Unborn, EntryOK, IsLog
<1> QED BY <1>1, <1>2, <1>3 DEF Pipeline

\* What an assignment records is well typed.
LEMMA AssignEntryTyped ==
  ASSUME TypeInv, NEW c \in Clusters, NEW p \in People, NEW A \in SUBSET Tracks, NEW d,
         "assign" \in Kinds
  PROVE  EntryOK(AssignEntry(d, c, p, A))
<1> DEFINE T == Members(db, c)
           e == AssignEntry(d, c, p, A)
<1>1. /\ e.kind = "assign" /\ e.cluster = c /\ e.person = p /\ e.tracks = T
      /\ e.owners = [t \in T |-> db.owner[t]] /\ e.label = db.clusters[c].label
      /\ e.obs = Keys(NewObs(db, p, T)) /\ e.protos = Keys(NewProtos(db, p, A))
      /\ e.links = Conflicts(db, T, Owned(db, p))
  BY DEF AssignEntry
<1>2. Now \in 0 .. MaxOps
  BY DEF TypeInv, IsLog, Now
<1>3. T \subseteq Tracks
  BY DEF Members
<1> HIDE DEF T, e
<1>4. Keys(NewObs(db, p, T)) \subseteq ObsKeys
  BY <1>2, <1>3, IdentityAssumption DEF Keys, NewObs, ObsKeys
<1>5. Keys(NewProtos(db, p, A)) \subseteq ProtoKeys
  BY <1>2 DEF Keys, NewProtos, ProtoKeys
<1>6. [t \in T |-> db.owner[t]] \in [T -> Owners] /\ db.clusters[c].label \in Owners
      /\ Conflicts(db, T, Owned(db, p)) \subseteq Frames
  BY <1>3, RowsAre DEF TypeInv, ClusterRow, Conflicts
<1> QED BY <1>1, <1>3, <1>4, <1>5, <1>6 DEF EntryOK, e

\* What a merge of people records is well typed.
LEMMA MergeEntryTyped ==
  ASSUME TypeInv, NEW s \in People, NEW t \in People, s # t, "merge_people" \in Kinds
  PROVE  EntryOK(MergeEntry(s, t))
<1>1. Owned(db, s) \subseteq Tracks
  BY DEF Owned
<1>2. db.protos \subseteq [key : ProtoKeys, of : People]
      /\ db.obs \subseteq [key : ObsKeys, of : People]
  BY RowsAre DEF TypeInv
<1>3. Keys(ProtosOf(db, s)) \subseteq ProtoKeys
  BY <1>2 DEF Keys, ProtosOf
<1>4. Keys(ObsOf(db, s) \ Twice(db, s, t)) \subseteq ObsKeys
      /\ Keys(Twice(db, s, t)) \subseteq ObsKeys
  BY <1>2 DEF Keys, ObsOf, Twice
<1> QED BY <1>1, <1>3, <1>4 DEF EntryOK, MergeEntry

\* A person there is was created by an operation.
LEMMA Born ==
  ASSUME TypeInv, NEW p \in People, db.people[p] # NoPerson
  PROVE  p <= Len(log)
  BY DEF TypeInv, Unborn, People, IsLog

\* Changing the row of a person who is there, or is created now.
LEMMA PersonSet ==
  ASSUME TypeInv, NEW p \in People, p <= Len(log) + 1, NEW row,
         row.status = "merged" <=> row.into # Nobody,
         NEW d, d.people = [db.people EXCEPT ![p] = row]
  PROVE  MergedSayInto(d) /\ Unborn(d, Len(log) + 1)
<1>1. Len(log) \in Nat /\ db.people \in [People -> PersonRow]
  BY RowsAre DEF TypeInv, IsLog
<1> QED BY <1>1 DEF TypeInv, MergedSayInto, Unborn, People

\* The requests keep everything well typed.
LEMMA TypeRequests ==
  ASSUME TypeInv, Requests
  PROVE  TypeInv'
<1>1. ASSUME NEW c \in Clusters, NEW A, Label(c, A) PROVE TypeInv'
  <2>1. PICK d : /\ Mutates("label", d, [kind |-> "label", cluster |-> c,
                                         person |-> Now + 1, tracks |-> Members(db, c)])
                 /\ Learns(d, c, Now + 1, A)
                 /\ d.people = [db.people EXCEPT ![Now + 1] = Active]
    BY <1>1, LabelRows
  <2>2. Now + 1 \in People /\ Now = Len(log) /\ d \in Rows /\ "label" \in Kinds
    BY <2>1, TypedRequest DEF Learns
  <2>3. MergedSayInto(d) /\ Unborn(d, Len(log) + 1)
    <3>1. Now + 1 <= Len(log) + 1 /\ (Active.status = "merged" <=> Active.into # Nobody)
      BY <2>2 DEF Active, People
    <3> QED BY <2>1, <2>2, <3>1, PersonSet
  <2>4. EntryOK([kind |-> "label", cluster |-> c, person |-> Now + 1,
                 tracks |-> Members(db, c)])
    BY <2>2 DEF EntryOK, Members
  <2>5. undone' = undone
    BY <1>1 DEF Label
  <2> QED BY <2>1, <2>2, <2>3, <2>4, <2>5, TypeRequest
<1>2. ASSUME NEW c \in Clusters, NEW p \in People, NEW A \in SUBSET Good, Assign(c, p, A)
      PROVE  TypeInv'
  <2>1. PICK d : /\ Mutates("assign", d, AssignEntry(d, c, p, A))
                 /\ Learns(d, c, p, A) /\ d.people = db.people
    BY <1>2, AssignRows
  <2>2. "assign" \in Kinds /\ A \in SUBSET Tracks /\ d \in Rows
    BY <2>1, Outcome, IdentityAssumption DEF Learns
  <2>3. EntryOK(AssignEntry(d, c, p, A))
    BY <2>2, AssignEntryTyped
  <2>4. undone' = undone
    BY <1>2 DEF Assign
  <2>5. MergedSayInto(d) /\ Unborn(d, Len(log) + 1)
    BY <2>1, SamePersons
  <2> QED BY <2>1, <2>2, <2>3, <2>4, <2>5, TypeRequest
<1>3. ASSUME NEW c \in Clusters, FalsePositive(c) PROVE TypeInv'
  <2> DEFINE entry == [kind |-> "false_positive", cluster |-> c,
                       status |-> db.clusters[c].status]
  <2>1. PICK d : Mutates("false_positive", d, entry) /\ d \in Rows /\ SamePeople(d)
    BY <1>3, FalsePositiveRows
  <2>2. EntryOK(entry)
    BY <2>1, Outcome, RowsAre DEF EntryOK, TypeInv, ClusterRow
  <2> HIDE DEF entry
  <2>3. undone' = undone
    BY <1>3 DEF FalsePositive
  <2>4. MergedSayInto(d) /\ Unborn(d, Len(log) + 1)
    BY <2>1, SamePersons DEF SamePeople
  <2> QED BY <2>1, <2>2, <2>3, <2>4, TypeRequest
<1>4. ASSUME NEW c \in Clusters, NEW T \in SUBSET Tracks, Split(c, T) PROVE TypeInv'
  <2> DEFINE entry == [kind |-> "split", cluster |-> c, tracks |-> T]
  <2>1. PICK d : Mutates("split", d, entry) /\ d \in Rows /\ SamePeople(d)
    BY <1>4, SplitRows
  <2>2. EntryOK(entry)
    BY <2>1, Outcome DEF EntryOK
  <2> HIDE DEF entry
  <2>3. undone' = undone
    BY <1>4 DEF Split
  <2>4. MergedSayInto(d) /\ Unborn(d, Len(log) + 1)
    BY <2>1, SamePersons DEF SamePeople
  <2> QED BY <2>1, <2>2, <2>3, <2>4, TypeRequest
<1>5. ASSUME NEW s \in Clusters, NEW t \in Clusters, MergeClusters(s, t) PROVE TypeInv'
  <2>1. PICK d : /\ Mutates("merge_clusters", d, MergeClustersEntry(s, t))
                 /\ d \in Rows /\ SamePeople(d)
    BY <1>5, MergeClustersRows
  <2>2. EntryOK(MergeClustersEntry(s, t))
    BY <2>1, Outcome, RowsAre DEF EntryOK, TypeInv, ClusterRow, MergeClustersEntry, Members
  <2>3. undone' = undone
    BY <1>5 DEF MergeClusters
  <2>4. MergedSayInto(d) /\ Unborn(d, Len(log) + 1)
    BY <2>1, SamePersons DEF SamePeople
  <2> QED BY <2>1, <2>2, <2>3, <2>4, TypeRequest
<1>6. ASSUME NEW s \in People, NEW t \in People, MergePeople(s, t) PROVE TypeInv'
  <2>1. PICK d : Mutates("merge_people", d, MergeEntry(s, t)) /\ Merges(d, s, t)
    BY <1>6, MergePeopleRows
  <2>2. s # t /\ IsActive(db, s) /\ "merge_people" \in Kinds
    BY <1>6, <2>1, Outcome DEF MergePeople
  <2>3. EntryOK(MergeEntry(s, t))
    BY <2>2, MergeEntryTyped
  <2>4. undone' = undone
    BY <1>6 DEF MergePeople
  <2>5. MergedSayInto(d) /\ Unborn(d, Len(log) + 1)
    <3>1. s <= Len(log) + 1
      BY <2>2, Born DEF IsActive, NoPerson, TypeInv, IsLog, People
    <3>2. MergedAway(t).status = "merged" <=> MergedAway(t).into # Nobody
      BY DEF People, Nobody, MergedAway
    <3> QED BY <2>1, <3>1, <3>2, PersonSet DEF Merges
  <2>6. d \in Rows
    BY <2>1 DEF Merges
  <2> QED BY <2>1, <2>3, <2>4, <2>5, <2>6, TypeRequest
<1> QED BY <1>1, <1>2, <1>3, <1>4, <1>5, <1>6 DEF Requests

\* An undo whose rows are well typed keeps everything so.
LEMMA TypeUndoing ==
  ASSUME TypeInv, NEW n, NEW kind, NEW d, Undoing(n, kind, d), d \in Rows,
         MergedSayInto(d), Unborn(d, Len(log) + 1)
  PROVE  TypeInv'
<1>1. Mutates(kind, d, UndoEntry(n)) /\ undone' \subseteq undone \cup (1 .. Len(log))
  BY DEF Undoing
<1>2. EntryOK(UndoEntry(n))
  BY DEF EntryOK, UndoEntry
<1> QED BY <1>1, <1>2, TypeRequest

\* The undos keep everything well typed.
LEMMA TypeUndoes ==
  ASSUME TypeInv, Undoes
  PROVE  TypeInv'
<1>0. Len(log) \in Nat
  BY DEF TypeInv, IsLog
<1>1. ASSUME NEW n, UndoLabel(n) PROVE TypeInv'
  <2>1. PICK d : Undoing(n, "undo_label", d) /\ Unlabels(d, log[n])
    BY <1>1, UndoLabelRows
  <2>2. MayUnlabel(log[n])
    BY <1>1, UndoLabelRows
  <2> DEFINE p == log[n].person
  <2>3. p \in People /\ p <= Len(log) + 1
    <3>1. p \in People /\ db.people[p] # NoPerson
      BY <2>2 DEF MayUnlabel, IsActive, NoPerson
    <3> QED BY <1>0, <3>1, Born DEF People
  <2>4. d.people = [db.people EXCEPT ![p] = NoPerson]
    BY <2>1 DEF Unlabels
  <2>5. NoPerson.status = "merged" <=> NoPerson.into # Nobody
    BY DEF NoPerson
  <2> HIDE DEF p
  <2>6. MergedSayInto(d) /\ Unborn(d, Len(log) + 1)
    BY <2>3, <2>4, <2>5, PersonSet
  <2>7. d \in Rows
    BY <2>1 DEF Unlabels
  <2> QED BY <2>1, <2>6, <2>7, TypeUndoing
<1>2. ASSUME NEW n, UndoAssign(n) PROVE TypeInv'
  <2>1. PICK d : Undoing(n, "undo_assign", d) /\ Unassigns(d, log[n])
    BY <1>2, UndoAssignRows
  <2>2. d \in Rows /\ d.people = db.people
    BY <2>1 DEF Unassigns
  <2> QED BY <2>1, <2>2, SamePersons, TypeUndoing
<1>3. ASSUME NEW n, UndoFalsePositive(n) PROVE TypeInv'
  <2>1. PICK d : Undoing(n, "undo_false_positive", d) /\ d \in Rows /\ SamePeople(d)
    BY <1>3, UndoFalsePositiveRows
  <2>2. d.people = db.people
    BY <2>1 DEF SamePeople
  <2> QED BY <2>1, <2>2, SamePersons, TypeUndoing
<1>4. ASSUME NEW n, UndoMergeClusters(n) PROVE TypeInv'
  <2>1. PICK d : Undoing(n, "undo_merge_clusters", d) /\ d \in Rows /\ SamePeople(d)
    BY <1>4, UndoMergeClustersRows
  <2>2. d.people = db.people
    BY <2>1 DEF SamePeople
  <2> QED BY <2>1, <2>2, SamePersons, TypeUndoing
<1>5. ASSUME NEW n, UndoMergePeople(n) PROVE TypeInv'
  <2>1. PICK d : Undoing(n, "undo_merge_people", d) /\ Unmerges(d, log[n])
    BY <1>5, UndoMergePeopleRows
  <2>2. MayUnmerge(log[n])
    BY <1>5, UndoMergePeopleRows
  <2> DEFINE s == log[n].source
  <2>3. s \in People /\ s <= Len(log) + 1
    <3>1. s \in People /\ db.people[s] # NoPerson
      BY <2>2 DEF MayUnmerge, NoPerson, People, Nobody
    <3> QED BY <1>0, <3>1, Born DEF People
  <2>4. d.people = [db.people EXCEPT ![s] = Active]
    BY <2>1 DEF Unmerges
  <2>5. Active.status = "merged" <=> Active.into # Nobody
    BY DEF Active
  <2> HIDE DEF s
  <2>6. MergedSayInto(d) /\ Unborn(d, Len(log) + 1)
    BY <2>3, <2>4, <2>5, PersonSet
  <2>7. d \in Rows
    BY <2>1 DEF Unmerges
  <2> QED BY <2>1, <2>6, <2>7, TypeUndoing
<1> QED BY <1>1, <1>2, <1>3, <1>4, <1>5 DEF Undoes

\* Every step keeps everything well typed.
LEMMA TypeStep == TypeInv /\ [Next]_vars => TypeInv'
<1>1. ASSUME TypeInv, UNCHANGED vars PROVE TypeInv'
  BY <1>1 DEF vars, TypeInv, MergedSayInto, Unborn, EntryOK, IsLog
<1> QED BY <1>1, TypePipeline, TypeRequests, TypeUndoes DEF Next

\* Everything is well typed, always.
LEMMA Typed == Spec => []TypeInv
  BY TypeInit, TypeStep, PTL DEF Spec

\* The tables hold only rows, keys and references of the right kind, whatever the
\* pipeline, the owner's requests and undo_operation do (the types of models.py).
THEOREM WellTyped == Spec => []TypeOK
<1>1. TypeInv => TypeOK
  <2>1. TypeInv => DOMAIN log = 1 .. Len(log)
    BY DEF TypeInv, IsLog
  <2> QED BY <2>1 DEF TypeInv, TypeOK, MergedSayInto, EntryOK
<1> QED BY <1>1, Typed, PTL

-----------------------------------------------------------------------------
(* A labelled cluster names its person.                                    *)

\* Operations stay as they were recorded, and undone.
LEMMA LogStays ==
  ASSUME TypeInv, [Next]_vars
  PROVE  /\ Len(log) \in Nat /\ Len(log') \in Nat /\ Len(log) <= Len(log')
         /\ undone \subseteq undone' /\ undone \subseteq 1 .. Len(log)
         /\ \A n \in 1 .. Len(log) : log'[n] = log[n]
<1>1. IsLog /\ Len(log) \in Nat /\ undone \subseteq 1 .. Len(log)
  BY DEF TypeInv, IsLog
<1>2. CASE log' = log /\ undone' = undone
  BY <1>1, <1>2
<1>3. CASE (\E entry : log' = Append(log, entry)) /\ undone \subseteq undone'
  <2>1. PICK entry : log' = Append(log, entry)
    BY <1>3
  <2>2. Len(log') = Len(log) + 1 /\ \A n \in 1 .. Len(log) : log'[n] = log[n]
    BY <1>1, <2>1, Appended
  <2> QED BY <1>1, <1>3, <2>2
<1> QED BY <1>2, <1>3, LogGrows

\* Something was undone that gives cluster c the status it had.
Excused(c) ==
  \E n \in undone :
    \/ log[n].kind = "false_positive" /\ log[n].cluster = c
    \/ log[n].kind = "merge_clusters" /\ log[n].source = c

\* What the proof asks of one row of a cluster.
NamesPerson(row) == row.status = "labeled" => row.label # Nobody

\* The property, cluster by cluster.
LEMMA NamedIs ==
  LabeledHasPerson <=> \A c \in Clusters : NamesPerson(db.clusters[c]) \/ Excused(c)
  BY DEF LabeledHasPerson, NamesPerson, Excused

\* An operation that excuses a cluster is never forgotten.
LEMMA ExcusedStays ==
  ASSUME TypeInv, [Next]_vars, NEW c, Excused(c)
  PROVE  Excused(c)'
<1>1. PICK n \in undone :
        \/ log[n].kind = "false_positive" /\ log[n].cluster = c
        \/ log[n].kind = "merge_clusters" /\ log[n].source = c
  BY DEF Excused
<1>2. n \in undone' /\ log'[n] = log[n]
  BY LogStays
<1> QED BY <1>1, <1>2 DEF Excused

\* A refresh gives no cluster a status.
LEMMA RefreshedNames ==
  ASSUME NEW cs \in [Clusters -> ClusterRow], NEW c \in Clusters, NEW S,
         NEW x \in Clusters, NamesPerson(cs[x])
  PROVE  NamesPerson(Refreshed(cs, c, S)[x])
<1>1. CASE x # c
  BY <1>1 DEF Refreshed
<1>2. CASE x = c /\ S = {}
  BY <1>2 DEF Refreshed, NoRow, NamesPerson
<1>3. CASE x = c /\ S # {}
  <2> DEFINE row == cs[c]
  <2>1. row \in ClusterRow
    OBVIOUS
  <2>2. Refreshed(cs, c, S)[x] = [row EXCEPT !.version = @ + 1]
    BY <1>3 DEF Refreshed
  <2> HIDE DEF row
  <2>3. [row EXCEPT !.version = @ + 1].status = row.status
        /\ [row EXCEPT !.version = @ + 1].label = row.label
    BY <2>1 DEF ClusterRow
  <2> QED BY <1>3, <2>2, <2>3 DEF NamesPerson, row
<1> QED BY <1>1, <1>2, <1>3

\* What the operations on a cluster's row set.
LEMMA RowFields ==
  ASSUME NEW row \in ClusterRow
  PROVE  /\ \A p \in Owners : /\ Labeled(row, p).status = "labeled"
                              /\ Labeled(row, p).label = p
                              /\ Reopened(row, p).status = "open"
                              /\ Reopened(row, p).label = p
         /\ \A st \in Statuses : Marked(row, st).status = st
                                 /\ Marked(row, st).label = row.label
         /\ \A c \in Clusters \cup {NoCluster} : MergedInto(row, c).status = "merged"
<1>1. \A p \in Owners : /\ Labeled(row, p).status = "labeled" /\ Labeled(row, p).label = p
  BY DEF ClusterRow, Labeled
<1>2. \A p \in Owners : /\ Reopened(row, p).status = "open" /\ Reopened(row, p).label = p
  BY DEF ClusterRow, Reopened
<1>3. \A st \in Statuses : Marked(row, st).status = st /\ Marked(row, st).label = row.label
  BY DEF ClusterRow, Marked
<1>4. \A c \in Clusters \cup {NoCluster} : MergedInto(row, c).status = "merged"
  BY DEF ClusterRow, MergedInto
<1> QED BY <1>1, <1>2, <1>3, <1>4

\* The rows of d name persons where those stored do.
NamesAs(d) ==
  \A c \in Clusters : NamesPerson(db.clusters[c]) => NamesPerson(d.clusters[c])

\* A request that is rolled back names persons as its rows do, too.
LEMMA NamedRequest ==
  ASSUME TypeInv, NEW kind, NEW d, NEW entry, Mutates(kind, d, entry), NamesAs(d)
  PROVE  NamesAs(db')
<1>1. CASE Committing(d, entry)
  BY <1>1 DEF Committing
<1>2. CASE RolledBack(kind)
  BY <1>2 DEF RolledBack, NamesAs
<1> QED BY <1>1, <1>2, Outcome

\* Setting one row to one that names a person, or is not called labelled.
LEMMA NamedRow ==
  ASSUME TypeInv, NEW c \in Clusters, NEW row, NEW d,
         d.clusters = [db.clusters EXCEPT ![c] = row],
         NamesPerson(db.clusters[c]) => NamesPerson(row)
  PROVE  NamesAs(d)
  BY RowsAre DEF TypeInv, NamesAs

\* The pipeline leaves every label as it is.
LEMMA NamedPipeline ==
  ASSUME TypeInv, Pipeline
  PROVE  NamesAs(db')
<1>1. ASSUME NEW e \in Events, Arrive(e) PROVE NamesAs(db')
  <2>1. db'.clusters = db.clusters
    BY <1>1, ArriveRows
  <2> QED BY <2>1 DEF NamesAs
<1>2. ASSUME NEW t \in Tracks, NEW p \in People, NEW A \in SUBSET ({t} \cap Good),
             Recognise(t, p, A)
      PROVE  NamesAs(db')
  <2>1. db'.clusters = db.clusters
    BY <1>2, RecogniseRows
  <2> QED BY <2>1 DEF NamesAs
<1>3. ASSUME NEW t \in Tracks, NEW c \in Clusters, Cluster(t, c)
      PROVE  NamesAs(db')
  <2> DEFINE cs == Created(c, t)
  <2>1. db'.clusters = Refreshed(cs, c, {t})
    BY <1>3, ClusterRows
  <2>2. db.clusters \in [Clusters -> ClusterRow]
    BY RowsAre DEF TypeInv
  <2>3. [NoRow EXCEPT !.status = "open"] \in ClusterRow
        /\ NamesPerson([NoRow EXCEPT !.status = "open"])
    BY DEF NoRow, ClusterRow, Statuses, Owners, NamesPerson
  <2>4. cs \in [Clusters -> ClusterRow]
        /\ \A x \in Clusters : NamesPerson(db.clusters[x]) => NamesPerson(cs[x])
    BY <2>2, <2>3 DEF Created
  <2> HIDE DEF cs
  <2> QED BY <2>1, <2>4, RefreshedNames DEF NamesAs
<1> QED BY <1>1, <1>2, <1>3 DEF Pipeline

\* The requests leave labelled clusters with a person.
LEMMA NamedRequests ==
  ASSUME TypeInv, Requests
  PROVE  NamesAs(db')
<1>0. db.clusters \in [Clusters -> ClusterRow]
  BY RowsAre DEF TypeInv
<1>1. ASSUME NEW c \in Clusters, NEW A, Label(c, A) PROVE NamesAs(db')
  <2> DEFINE p == Now + 1
             entry == [kind |-> "label", cluster |-> c, person |-> p,
                       tracks |-> Members(db, c)]
  <2>1. PICK d : /\ Mutates("label", d, entry) /\ Learns(d, c, p, A)
    BY <1>1, LabelRows
  <2>2. p \in Owners /\ p # Nobody
    BY <2>1, TypedRequest DEF Owners, People, Nobody
  <2>3. d.clusters = [db.clusters EXCEPT ![c] = Labeled(@, p)]
    BY <2>1 DEF Learns
  <2> HIDE DEF p, entry
  <2>4. NamesPerson(Labeled(db.clusters[c], p))
    BY <1>0, <2>2, RowFields DEF NamesPerson
  <2>5. NamesAs(d)
    BY <2>3, <2>4, NamedRow
  <2> QED BY <2>1, <2>5, NamedRequest
<1>2. ASSUME NEW c \in Clusters, NEW p \in People, NEW A, Assign(c, p, A)
      PROVE  NamesAs(db')
  <2>1. PICK d : Mutates("assign", d, AssignEntry(d, c, p, A)) /\ Learns(d, c, p, A)
    BY <1>2, AssignRows
  <2>2. p \in Owners /\ p # Nobody
    BY DEF Owners, People, Nobody
  <2>3. d.clusters = [db.clusters EXCEPT ![c] = Labeled(@, p)]
    BY <2>1 DEF Learns
  <2>4. NamesPerson(Labeled(db.clusters[c], p))
    BY <1>0, <2>2, RowFields DEF NamesPerson
  <2>5. NamesAs(d)
    BY <2>3, <2>4, NamedRow
  <2> QED BY <2>1, <2>5, NamedRequest
<1>3. ASSUME NEW c \in Clusters, FalsePositive(c) PROVE NamesAs(db')
  <2> DEFINE entry == [kind |-> "false_positive", cluster |-> c,
                       status |-> db.clusters[c].status]
  <2>1. PICK d : /\ Mutates("false_positive", d, entry)
                 /\ d.clusters = [db.clusters EXCEPT ![c] = Marked(@, "false_positive")]
    BY <1>3, FalsePositiveRows
  <2> HIDE DEF entry
  <2>2. NamesPerson(Marked(db.clusters[c], "false_positive"))
    <3>1. "false_positive" \in Statuses /\ db.clusters[c] \in ClusterRow
      BY <1>0 DEF Statuses
    <3>2. Marked(db.clusters[c], "false_positive").status = "false_positive"
      BY <3>1, RowFields
    <3> QED BY <3>2 DEF NamesPerson
  <2>3. NamesAs(d)
    BY <2>1, <2>2, NamedRow
  <2> QED BY <2>1, <2>3, NamedRequest
<1>4. ASSUME NEW c \in Clusters, NEW T, Split(c, T) PROVE NamesAs(db')
  <2> DEFINE entry == [kind |-> "split", cluster |-> c, tracks |-> T]
             new == [db.clusters EXCEPT ![Spare] = [NoRow EXCEPT !.status = "open"]]
             kept == Refreshed(new, c, Members(db, c))
  <2>1. PICK d : Mutates("split", d, entry) /\ d.clusters = SplitClusters(c)
    BY <1>4, SplitRows
  <2> HIDE DEF entry
  <2>2. [NoRow EXCEPT !.status = "open"] \in ClusterRow
        /\ NamesPerson([NoRow EXCEPT !.status = "open"]) /\ Spare \in Clusters
    BY DEF NoRow, ClusterRow, Statuses, Owners, NamesPerson, Clusters
  <2>3. new \in [Clusters -> ClusterRow]
        /\ \A x \in Clusters : NamesPerson(db.clusters[x]) => NamesPerson(new[x])
    BY <1>0, <2>2
  <2> HIDE DEF new
  <2>4. kept \in [Clusters -> ClusterRow]
        /\ \A x \in Clusters : NamesPerson(new[x]) => NamesPerson(kept[x])
    BY <2>3, RefreshedTyped, RefreshedNames
  <2>5. d.clusters = Refreshed(kept, Spare, Members(db, Spare))
    BY <2>1 DEF SplitClusters, kept, new
  <2> HIDE DEF kept
  <2>6. NamesAs(d)
    BY <2>2, <2>3, <2>4, <2>5, RefreshedNames DEF NamesAs
  <2> QED BY <2>1, <2>6, NamedRequest
<1>5. ASSUME NEW s \in Clusters, NEW t \in Clusters, MergeClusters(s, t)
      PROVE  NamesAs(db')
  <2> DEFINE gone == [db.clusters EXCEPT ![s] = MergedInto(@, t)]
  <2>1. PICK d : /\ Mutates("merge_clusters", d, MergeClustersEntry(s, t))
                 /\ d.clusters = Refreshed(gone, t, Members(db, t))
    BY <1>5, MergeClustersRows
  <2>2. MergedInto(db.clusters[s], t) \in ClusterRow
        /\ NamesPerson(MergedInto(db.clusters[s], t))
    BY <1>0, TypedRow, RowFields DEF NamesPerson
  <2>3. gone \in [Clusters -> ClusterRow]
        /\ \A x \in Clusters : NamesPerson(db.clusters[x]) => NamesPerson(gone[x])
    BY <1>0, <2>2
  <2> HIDE DEF gone
  <2>4. NamesAs(d)
    BY <2>1, <2>3, RefreshedNames DEF NamesAs
  <2> QED BY <2>1, <2>4, NamedRequest
<1>6. ASSUME NEW s \in People, NEW t \in People, MergePeople(s, t) PROVE NamesAs(db')
  <2>1. PICK d : Mutates("merge_people", d, MergeEntry(s, t)) /\ Merges(d, s, t)
    BY <1>6, MergePeopleRows
  <2>2. NamesAs(d)
    BY <2>1 DEF Merges, NamesAs
  <2> QED BY <2>1, <2>2, NamedRequest
<1> QED BY <1>1, <1>2, <1>3, <1>4, <1>5, <1>6 DEF Requests

\* An undo commits its rows and is recorded, or is rolled back.
LEMMA UndoingOutcome ==
  ASSUME TypeInv, NEW n, NEW kind, NEW d, Undoing(n, kind, d)
  PROVE  /\ n \in 1 .. Len(log)
         /\ \/ Committing(d, UndoEntry(n)) /\ undone' = undone \cup {n} /\ log'[n] = log[n]
            \/ RolledBack(kind) /\ undone' = undone
<1>1. Mutates(kind, d, UndoEntry(n)) /\ n \in 1 .. Len(log)
      /\ IF Sound(d) THEN undone' = undone \cup {n} ELSE UNCHANGED undone
  BY DEF Undoing
<1>2. CASE Committing(d, UndoEntry(n))
  <2>1. log'[n] = log[n]
    BY <1>1, <1>2, Appended DEF Committing, TypeInv
  <2> QED BY <1>1, <1>2, <2>1 DEF Committing
<1>3. CASE ~Sound(d) /\ RolledBack(kind)
  BY <1>1, <1>3
<1> QED BY <1>1, <1>2, <1>3, Outcome

\* All rows name persons but those of clusters that are excused.
NamesOrExcuses(d, x) ==
  \A c \in Clusters \ {x} : NamesPerson(db.clusters[c]) => NamesPerson(d.clusters[c])

\* An undo that takes a person from a cluster it restores is the excuse itself.
LEMMA NamedUndoing ==
  ASSUME TypeInv, LabeledHasPerson, [Next]_vars,
         NEW n, NEW kind, NEW d, NEW x, Undoing(n, kind, d), NamesOrExcuses(d, x),
         \/ log[n].kind = "false_positive" /\ log[n].cluster = x
         \/ log[n].kind = "merge_clusters" /\ log[n].source = x
  PROVE  LabeledHasPerson'
<1>1. CASE Committing(d, UndoEntry(n)) /\ undone' = undone \cup {n} /\ log'[n] = log[n]
  <2>1. db' = d
    BY <1>1 DEF Committing
  <2>2. Excused(x)'
    BY <1>1 DEF Excused
  <2>3. \A c \in Clusters : NamesPerson(db'.clusters[c]) \/ Excused(c)'
    <3>1. ASSUME NEW c \in Clusters, c # x PROVE NamesPerson(db'.clusters[c]) \/ Excused(c)'
      BY <2>1, <3>1, ExcusedStays, NamedIs DEF NamesOrExcuses
    <3> QED BY <2>2, <3>1
  <2> QED BY <2>3 DEF LabeledHasPerson, NamesPerson, Excused
<1>2. CASE RolledBack(kind) /\ undone' = undone
  BY <1>2 DEF LabeledHasPerson, RolledBack
<1> QED BY <1>1, <1>2, UndoingOutcome

\* A step that leaves labelled clusters with a person keeps the property.
LEMMA NamedSame ==
  ASSUME TypeInv, LabeledHasPerson, [Next]_vars, NamesAs(db')
  PROVE  LabeledHasPerson'
<1>1. \A c \in Clusters : NamesPerson(db'.clusters[c]) \/ Excused(c)'
  BY ExcusedStays, NamedIs DEF NamesAs
<1> QED BY <1>1 DEF LabeledHasPerson, NamesPerson, Excused

\* The undos leave labelled clusters with a person, or excused.
LEMMA NamedUndoes ==
  ASSUME TypeInv, LabeledHasPerson, Undoes
  PROVE  LabeledHasPerson'
<1>0. db.clusters \in [Clusters -> ClusterRow] /\ [Next]_vars
  BY RowsAre DEF TypeInv, Next
<1>1. ASSUME NEW n, UndoLabel(n) PROVE LabeledHasPerson'
  <2>1. PICK d : Undoing(n, "undo_label", d) /\ Unlabels(d, log[n])
    BY <1>1, UndoLabelRows
  <2>2. MayUnlabel(log[n])
    BY <1>1, UndoLabelRows
  <2> DEFINE c == log[n].cluster
  <2>3. c \in Clusters /\ d.clusters = [db.clusters EXCEPT ![c] = Reopened(@, Nobody)]
    BY <2>1, <2>2 DEF Unlabels, MayUnlabel
  <2> HIDE DEF c
  <2>4. NamesPerson(Reopened(db.clusters[c], Nobody))
    BY <1>0, <2>3, RowFields DEF NamesPerson, Owners
  <2>5. NamesAs(d)
    BY <2>3, <2>4, NamedRow
  <2>6. NamesAs(db')
    BY <2>1, <2>5, NamedRequest DEF Undoing
  <2> QED BY <1>0, <2>6, NamedSame
<1>2. ASSUME NEW n, UndoAssign(n) PROVE LabeledHasPerson'
  <2>1. PICK d : Undoing(n, "undo_assign", d) /\ Unassigns(d, log[n])
    BY <1>2, UndoAssignRows
  <2>2. MayUnassign(log[n])
    BY <1>2, UndoAssignRows
  <2> DEFINE c == log[n].cluster
             p == log[n].label
  <2>3. c \in Clusters /\ d.clusters = [db.clusters EXCEPT ![c] = Reopened(@, p)]
        /\ p \in Owners
    BY <2>1, <2>2 DEF Unassigns, MayUnassign, EntryOK
  <2> HIDE DEF c, p
  <2>4. NamesPerson(Reopened(db.clusters[c], p))
    BY <1>0, <2>3, RowFields DEF NamesPerson
  <2>5. NamesAs(d)
    BY <2>3, <2>4, NamedRow
  <2>6. NamesAs(db')
    BY <2>1, <2>5, NamedRequest DEF Undoing
  <2> QED BY <1>0, <2>6, NamedSame
<1>3. ASSUME NEW n, UndoFalsePositive(n) PROVE LabeledHasPerson'
  <2> DEFINE c == log[n].cluster
  <2>1. PICK d : /\ Undoing(n, "undo_false_positive", d)
                 /\ d.clusters = [db.clusters EXCEPT ![c] = Marked(@, log[n].status)]
    BY <1>3, UndoFalsePositiveRows
  <2>2. log[n].kind = "false_positive"
    BY <1>3, UndoFalsePositiveRows
  <2>3. NamesOrExcuses(d, c)
    BY <1>0, <2>1 DEF NamesOrExcuses
  <2> QED BY <1>0, <2>1, <2>2, <2>3, NamedUndoing
<1>4. ASSUME NEW n, UndoMergeClusters(n) PROVE LabeledHasPerson'
  <2> DEFINE s == log[n].source
             t == log[n].target
             back == [db.clusters EXCEPT ![s] = NotMerged(@, log[n])]
             kept == Refreshed(back, s, Members(db, s))
  <2>1. PICK d : /\ Undoing(n, "undo_merge_clusters", d)
                 /\ d.clusters = UnmergedClusters(log[n])
    BY <1>4, UndoMergeClustersRows
  <2>2. log[n].kind = "merge_clusters" /\ EntryOK(log[n])
    BY <1>4, UndoMergeClustersRows
  <2>3. s \in Clusters /\ t \in Clusters /\ log[n].status \in Statuses
        /\ log[n].into \in Clusters \cup {NoCluster}
    BY <2>2 DEF EntryOK
  <2>4. back \in [Clusters -> ClusterRow]
    <3>1. \A row \in ClusterRow : NotMerged(row, log[n]) \in ClusterRow
      BY <2>3 DEF NotMerged, ClusterRow
    <3>2. NotMerged(db.clusters[s], log[n]) \in ClusterRow
      BY <1>0, <2>3, <3>1
    <3> QED BY <1>0, <2>3, <3>2
  <2>5. \A x \in Clusters \ {s} : back[x] = db.clusters[x]
    BY <1>0, <2>3
  <2>6. d.clusters = Refreshed(kept, t, Members(db, t))
    BY <2>1 DEF UnmergedClusters
  <2> HIDE DEF back
  <2>7. kept \in [Clusters -> ClusterRow]
        /\ \A x \in Clusters : NamesPerson(back[x]) => NamesPerson(kept[x])
    BY <2>3, <2>4, RefreshedTyped, RefreshedNames
  <2> HIDE DEF kept, s, t
  <2>8. NamesOrExcuses(d, s)
    BY <2>3, <2>5, <2>6, <2>7, RefreshedNames DEF NamesOrExcuses
  <2> QED BY <1>0, <2>1, <2>2, <2>8, NamedUndoing DEF s
<1>5. ASSUME NEW n, UndoMergePeople(n) PROVE LabeledHasPerson'
  <2>1. PICK d : Undoing(n, "undo_merge_people", d) /\ Unmerges(d, log[n])
    BY <1>5, UndoMergePeopleRows
  <2>2. NamesAs(d)
    BY <2>1 DEF Unmerges, NamesAs
  <2>3. NamesAs(db')
    BY <2>1, <2>2, NamedRequest DEF Undoing
  <2> QED BY <1>0, <2>3, NamedSame
<1> QED BY <1>1, <1>2, <1>3, <1>4, <1>5 DEF Undoes

\* A cluster labelled by label_cluster or assign_cluster names its person, unless
\* undo_operation restored its status from an operation that recorded it.
THEOREM LabelsNamePersons == Spec => []LabeledHasPerson
<1>1. Init => LabeledHasPerson
  BY DEF Init, LabeledHasPerson, NoRow
<1>2. TypeInv /\ LabeledHasPerson /\ [Next]_vars => LabeledHasPerson'
  <2>1. CASE TypeInv /\ LabeledHasPerson /\ UNCHANGED vars
    BY <2>1 DEF vars, LabeledHasPerson
  <2>2. CASE TypeInv /\ LabeledHasPerson /\ (Pipeline \/ Requests)
    <3>1. NamesAs(db') /\ [Next]_vars
      BY <2>2, NamedPipeline, NamedRequests DEF Next
    <3> QED BY <2>2, <3>1, NamedSame
  <2> QED BY <2>1, <2>2, NamedUndoes DEF Next
<1> QED BY <1>1, <1>2, Typed, PTL DEF Spec

-----------------------------------------------------------------------------
(* The index covers the prototypes.                                        *)

\* Every index row covers, and every prototype is its first person's.
Covered(d) ==
  /\ \A p \in People : d.index[p] = Keys(ProtosOf(d, p))
  /\ \A q \in d.protos : q.of = q.key[1]

\* An assignment records keys that begin with its person.
KeyedByPerson(op) == op.kind = "assign" => \A k \in op.protos : k[1] = op.person

PeopleMerged == \E n \in 1 .. Len(log) : log[n].kind = "merge_people"

IndexInv ==
  /\ \A n \in 1 .. Len(log) : KeyedByPerson(log[n])
  /\ PeopleMerged \/ Covered(db)

\* Learning keeps the index of the person who learns up to date.
LEMMA LearnedCovered ==
  ASSUME TypeInv, Covered(db), NEW p \in People, NEW A, NEW d,
         d.protos = db.protos \cup NewProtos(db, p, A), d.index = Indexed(db, p, A)
  PROVE  Covered(d)
<1>1. \A q \in NewProtos(db, p, A) : q.of = p /\ q.key[1] = p
  BY DEF NewProtos
<1>2. db.index \in [People -> SUBSET ProtoKeys]
  BY RowsAre DEF TypeInv
<1>3. \A x \in People \ {p} : ProtosOf(d, x) = ProtosOf(db, x)
  BY <1>1 DEF ProtosOf
<1>4. NewProtos(db, p, A) = {} => ProtosOf(d, p) = ProtosOf(db, p)
  BY DEF ProtosOf
<1>5. \A x \in People \ {p} : d.index[x] = db.index[x]
  BY <1>2 DEF Indexed, Rebuilt
<1>6. d.index[p] = Keys(ProtosOf(d, p))
  <2>1. CASE NewProtos(db, p, A) = {}
    BY <1>4, <2>1 DEF Indexed, Covered
  <2>2. CASE NewProtos(db, p, A) # {}
    BY <1>2, <2>2 DEF Indexed, Rebuilt, ProtosOf
  <2> QED BY <2>1, <2>2
<1> QED BY <1>1, <1>3, <1>5, <1>6 DEF Covered

\* Index rows cover as long as neither they nor the prototypes change.
LEMMA SameCovered ==
  ASSUME Covered(db), NEW d, d.protos = db.protos, d.index = db.index
  PROVE  Covered(d)
  BY DEF Covered, ProtosOf

\* Deleting prototypes of p, with the row of p rebuilt.
LEMMA WithoutCovered ==
  ASSUME TypeInv, Covered(db), NEW p \in People, NEW K, NEW d,
         \A k \in K : k[1] = p,
         d.protos = Without(db.protos, K),
         \A x \in People \ {p} : d.index[x] = db.index[x],
         d.index[p] = Keys(ProtosOf(d, p))
  PROVE  Covered(d)
<1>1. \A q \in db.protos : q.of # p => q.key \notin K
  BY DEF Covered
<1>2. \A x \in People \ {p} : ProtosOf(d, x) = ProtosOf(db, x)
  BY <1>1 DEF ProtosOf, Without
<1> QED BY <1>2 DEF Covered, Without

\* A request whose rows are covered, or that excuses them, keeps the index whole.
LEMMA IndexRequest ==
  ASSUME TypeInv, IndexInv, [Next]_vars, NEW kind, NEW d, NEW entry,
         Mutates(kind, d, entry), KeyedByPerson(entry),
         \/ Covered(db) => Covered(d)
         \/ entry.kind = "merge_people"
         \/ PeopleMerged
  PROVE  IndexInv'
<1>1. CASE Committing(d, entry)
  <2>1. /\ Len(log) \in Nat /\ Len(log') = Len(log) + 1
        /\ log'[Len(log) + 1] = entry
        /\ \A n \in 1 .. Len(log) : log'[n] = log[n]
    BY <1>1, Appended DEF Committing, TypeInv
  <2>2. \A n \in 1 .. Len(log') : KeyedByPerson(log'[n])
    BY <2>1 DEF IndexInv
  <2>3. db' = d
    BY <1>1 DEF Committing
  <2>4. PeopleMerged => PeopleMerged'
    BY <2>1 DEF PeopleMerged
  <2>5. entry.kind = "merge_people" => PeopleMerged'
    BY <2>1 DEF PeopleMerged
  <2>6. PeopleMerged' \/ Covered(db')
    BY <2>3, <2>4, <2>5 DEF IndexInv
  <2> QED BY <2>2, <2>6 DEF IndexInv, KeyedByPerson, Covered, ProtosOf
<1>2. CASE RolledBack(kind)
  BY <1>2 DEF RolledBack, IndexInv, KeyedByPerson, PeopleMerged, Covered, ProtosOf
<1> QED BY <1>1, <1>2, Outcome

\* The pipeline keeps the index whole.
LEMMA IndexPipeline ==
  ASSUME TypeInv, IndexInv, Pipeline
  PROVE  IndexInv'
<1>1. ASSUME UNCHANGED log, Covered(db) => Covered(db') PROVE IndexInv'
  <2>1. PeopleMerged' \/ Covered(db')
    BY <1>1 DEF IndexInv, PeopleMerged
  <2> QED BY <1>1, <2>1 DEF IndexInv, KeyedByPerson, Covered, ProtosOf
<1>2. ASSUME NEW e \in Events, Arrive(e) PROVE IndexInv'
  <2>1. UNCHANGED log
    BY <1>2 DEF Arrive
  <2> QED BY <1>1, <1>2, <2>1, ArriveRows, SameCovered
<1>3. ASSUME NEW t \in Tracks, NEW p \in People, NEW A \in SUBSET ({t} \cap Good),
             Recognise(t, p, A)
      PROVE  IndexInv'
  <2>1. UNCHANGED log
    BY <1>3 DEF Recognise
  <2>2. /\ db'.protos = db.protos \cup NewProtos(db, p, A)
        /\ db'.index = Indexed(db, p, A)
    <3>1. A \in SUBSET Tracks
      OBVIOUS
    <3> QED BY <1>3, <3>1, RecogniseRows
  <2> QED BY <1>1, <2>1, <2>2, LearnedCovered
<1>4. ASSUME NEW t \in Tracks, NEW c \in Clusters, Cluster(t, c)
      PROVE  IndexInv'
  <2>1. UNCHANGED log
    BY <1>4 DEF Cluster
  <2>2. db'.protos = db.protos /\ db'.index = db.index
    BY <1>4, ClusterRows DEF SamePeople
  <2> QED BY <1>1, <2>1, <2>2, SameCovered
<1> QED BY <1>2, <1>3, <1>4 DEF Pipeline

\* The requests keep the index whole.
LEMMA IndexRequests ==
  ASSUME TypeInv, IndexInv, Requests
  PROVE  IndexInv'
<1>0. [Next]_vars
  BY DEF Next
<1>1. ASSUME NEW c \in Clusters, NEW A, Label(c, A) PROVE IndexInv'
  <2> DEFINE p == Now + 1
             entry == [kind |-> "label", cluster |-> c, person |-> p,
                       tracks |-> Members(db, c)]
  <2>1. PICK d : Mutates("label", d, entry) /\ Learns(d, c, p, A)
    BY <1>1, LabelRows
  <2>2. p \in People
    BY <1>1, LabelRows
  <2>3. KeyedByPerson(entry)
    BY DEF KeyedByPerson
  <2> HIDE DEF entry, p
  <2>4. Covered(db) => Covered(d)
    BY <2>1, <2>2, LearnedCovered DEF Learns
  <2> QED BY <1>0, <2>1, <2>3, <2>4, IndexRequest
<1>2. ASSUME NEW c \in Clusters, NEW p \in People, NEW A, Assign(c, p, A)
      PROVE  IndexInv'
  <2>1. PICK d : Mutates("assign", d, AssignEntry(d, c, p, A)) /\ Learns(d, c, p, A)
    BY <1>2, AssignRows
  <2>2. KeyedByPerson(AssignEntry(d, c, p, A))
    <3>1. \A k \in Keys(NewProtos(db, p, A)) : k[1] = p
      BY DEF Keys, NewProtos
    <3> QED BY <3>1 DEF KeyedByPerson, AssignEntry
  <2>3. Covered(db) => Covered(d)
    BY <2>1, LearnedCovered DEF Learns
  <2> QED BY <1>0, <2>1, <2>2, <2>3, IndexRequest
<1>3. ASSUME NEW c \in Clusters, FalsePositive(c) PROVE IndexInv'
  <2> DEFINE entry == [kind |-> "false_positive", cluster |-> c,
                       status |-> db.clusters[c].status]
  <2>1. PICK d : Mutates("false_positive", d, entry) /\ SamePeople(d)
    BY <1>3, FalsePositiveRows
  <2>2. KeyedByPerson(entry)
    BY DEF KeyedByPerson
  <2> HIDE DEF entry
  <2>3. Covered(db) => Covered(d)
    BY <2>1, SameCovered DEF SamePeople
  <2> QED BY <1>0, <2>1, <2>2, <2>3, IndexRequest
<1>4. ASSUME NEW c \in Clusters, NEW T, Split(c, T) PROVE IndexInv'
  <2> DEFINE entry == [kind |-> "split", cluster |-> c, tracks |-> T]
  <2>1. PICK d : Mutates("split", d, entry) /\ SamePeople(d)
    BY <1>4, SplitRows
  <2>2. KeyedByPerson(entry)
    BY DEF KeyedByPerson
  <2> HIDE DEF entry
  <2>3. Covered(db) => Covered(d)
    BY <2>1, SameCovered DEF SamePeople
  <2> QED BY <1>0, <2>1, <2>2, <2>3, IndexRequest
<1>5. ASSUME NEW s \in Clusters, NEW t \in Clusters, MergeClusters(s, t)
      PROVE  IndexInv'
  <2>1. PICK d : Mutates("merge_clusters", d, MergeClustersEntry(s, t)) /\ SamePeople(d)
    BY <1>5, MergeClustersRows
  <2>2. KeyedByPerson(MergeClustersEntry(s, t))
    BY DEF KeyedByPerson, MergeClustersEntry
  <2>3. Covered(db) => Covered(d)
    BY <2>1, SameCovered DEF SamePeople
  <2> QED BY <1>0, <2>1, <2>2, <2>3, IndexRequest
<1>6. ASSUME NEW s \in People, NEW t \in People, MergePeople(s, t) PROVE IndexInv'
  <2>1. PICK d : Mutates("merge_people", d, MergeEntry(s, t))
    BY <1>6, MergePeopleRows
  <2>2. KeyedByPerson(MergeEntry(s, t)) /\ MergeEntry(s, t).kind = "merge_people"
    BY DEF KeyedByPerson, MergeEntry
  <2> QED BY <1>0, <2>1, <2>2, IndexRequest
<1> QED BY <1>1, <1>2, <1>3, <1>4, <1>5, <1>6 DEF Requests

\* The undos keep the index whole.
LEMMA IndexUndoes ==
  ASSUME TypeInv, IndexInv, Undoes
  PROVE  IndexInv'
<1>0. [Next]_vars /\ db.index \in [People -> SUBSET ProtoKeys]
  BY RowsAre DEF TypeInv, Next
<1>1. ASSUME NEW n, NEW kind, NEW d, Undoing(n, kind, d),
             (Covered(db) => Covered(d)) \/ PeopleMerged
      PROVE  IndexInv'
  <2>1. Mutates(kind, d, UndoEntry(n)) /\ KeyedByPerson(UndoEntry(n))
    BY <1>1 DEF Undoing, KeyedByPerson, UndoEntry
  <2> QED BY <1>0, <1>1, <2>1, IndexRequest
<1>2. ASSUME NEW n, UndoLabel(n) PROVE IndexInv'
  <2>1. PICK d : Undoing(n, "undo_label", d) /\ Unlabels(d, log[n])
    BY <1>2, UndoLabelRows
  <2>2. MayUnlabel(log[n])
    BY <1>2, UndoLabelRows
  <2> DEFINE p == log[n].person
  <2>3. p \in People /\ d.protos = Without(db.protos, Keys(ProtosOf(db, p)))
        /\ d.index = [db.index EXCEPT ![p] = {}]
    BY <2>1, <2>2 DEF MayUnlabel, Unlabels
  <2> HIDE DEF p
  <2>4. ASSUME Covered(db) PROVE Covered(d)
    <3>1. \A k \in Keys(ProtosOf(db, p)) : k[1] = p
      BY <2>4 DEF Covered, Keys, ProtosOf
    <3>2. ProtosOf(d, p) = {}
      BY <2>3 DEF ProtosOf, Without, Keys
    <3>3. d.index[p] = Keys(ProtosOf(d, p)) /\ \A x \in People \ {p} : d.index[x] = db.index[x]
      BY <1>0, <2>3, <3>2 DEF Keys
    <3> QED BY <2>3, <2>4, <3>1, <3>3, WithoutCovered
  <2> QED BY <1>1, <2>1, <2>4
<1>3. ASSUME NEW n, UndoAssign(n) PROVE IndexInv'
  <2>1. PICK d : Undoing(n, "undo_assign", d) /\ Unassigns(d, log[n])
    BY <1>3, UndoAssignRows
  <2>2. MayUnassign(log[n])
    BY <1>3, UndoAssignRows
  <2> DEFINE p == log[n].person
             K == log[n].protos
  <2>3. /\ p \in People /\ d.protos = Without(db.protos, K)
        /\ d.index = IF K = {} THEN db.index ELSE Rebuilt(db.index, p, d.protos)
    BY <2>1, <2>2 DEF MayUnassign, Unassigns, UnassignIndex
  <2>4. \A k \in K : k[1] = p
    BY <2>1, <2>2 DEF IndexInv, KeyedByPerson, Undoing, MayUnassign
  <2> HIDE DEF p, K
  <2>5. ASSUME Covered(db) PROVE Covered(d)
    <3>1. CASE K = {}
      <4>1. d.protos = db.protos /\ d.index = db.index
        BY <2>3, <3>1 DEF Without
      <4> QED BY <2>5, <4>1, SameCovered
    <3>2. CASE K # {}
      <4>1. d.index[p] = Keys(ProtosOf(d, p))
            /\ \A x \in People \ {p} : d.index[x] = db.index[x]
        BY <1>0, <2>3, <3>2 DEF Rebuilt, ProtosOf
      <4> QED BY <2>3, <2>4, <2>5, <4>1, WithoutCovered
    <3> QED BY <3>1, <3>2
  <2> QED BY <1>1, <2>1, <2>5
<1>4. ASSUME NEW n, UndoFalsePositive(n) PROVE IndexInv'
  <2>1. PICK d : Undoing(n, "undo_false_positive", d) /\ SamePeople(d)
    BY <1>4, UndoFalsePositiveRows
  <2> QED BY <1>1, <2>1, SameCovered DEF SamePeople
<1>5. ASSUME NEW n, UndoMergeClusters(n) PROVE IndexInv'
  <2>1. PICK d : Undoing(n, "undo_merge_clusters", d) /\ SamePeople(d)
    BY <1>5, UndoMergeClustersRows
  <2> QED BY <1>1, <2>1, SameCovered DEF SamePeople
<1>6. ASSUME NEW n, UndoMergePeople(n) PROVE IndexInv'
  <2>1. PICK d : Undoing(n, "undo_merge_people", d)
    BY <1>6, UndoMergePeopleRows
  <2>2. PeopleMerged
    BY <1>6, <2>1, UndoMergePeopleRows DEF MayUnmerge, PeopleMerged, Undoing
  <2> QED BY <1>1, <2>1, <2>2
<1> QED BY <1>2, <1>3, <1>4, <1>5, <1>6 DEF Undoes

\* The index row of a person (_refresh_person_index) has every prototype of that
\* person, as long as no people were merged.
THEOREM IndexIsWhole == Spec => []IndexCovers
<1>1. Init => IndexInv
  BY DEF Init, IndexInv, Covered, ProtosOf, Keys
<1>2. TypeInv /\ IndexInv /\ [Next]_vars => IndexInv'
  <2>1. ASSUME TypeInv, IndexInv, UNCHANGED vars PROVE IndexInv'
    BY <2>1 DEF vars, IndexInv, KeyedByPerson, PeopleMerged, Covered, ProtosOf
  <2> QED BY <2>1, IndexPipeline, IndexRequests, IndexUndoes DEF Next
<1>3. TypeInv /\ IndexInv => IndexCovers
  <2>1. TypeInv => DOMAIN log = 1 .. Len(log)
    BY DEF TypeInv, IsLog
  <2> QED BY <2>1 DEF IndexInv, IndexCovers, PeopleMerged, Covered
<1> QED BY <1>1, <1>2, <1>3, Typed, PTL DEF Spec

-----------------------------------------------------------------------------
(* How the log grows, and which operations stand.                          *)

Done == 1 .. Len(log)

\* The merges of people that stand, and the labels and assignments that do.
Live   == {m \in Done : m \notin undone /\ log[m].kind = "merge_people"}
Tokens == {n \in Done : n \notin undone /\ log[n].kind \in {"label", "assign"}}

\* What is undone is undone by an operation, and by one that says so.
UndosMarked == \A i \in Done : log[i].kind = "undo" => log[i].op \in undone

\* How the log grows in a step.
Grows ==
  \/ UNCHANGED <<log, undone>>
  \/ \E entry : entry.kind # "undo" /\ log' = Append(log, entry) /\ undone' = undone
  \/ \E n \in Done \ undone : log' = Append(log, UndoEntry(n)) /\ undone' = undone \cup {n}

\* A request is recorded, or leaves the log alone.
LEMMA GrowsRequest ==
  ASSUME TypeInv, NEW kind, NEW d, NEW entry, Mutates(kind, d, entry),
         entry.kind # "undo", undone' = undone
  PROVE  Grows
<1>1. CASE Committing(d, entry)
  BY <1>1 DEF Committing, Grows
<1>2. CASE RolledBack(kind)
  BY <1>2 DEF RolledBack, Grows
<1> QED BY <1>1, <1>2, Outcome

\* An undo is recorded and takes back one operation, or leaves the log alone.
LEMMA GrowsUndoing ==
  ASSUME TypeInv, NEW n, NEW kind, NEW d, Undoing(n, kind, d)
  PROVE  Grows
<1>1. n \in Done \ undone
  BY DEF Undoing, Done
<1>2. CASE Committing(d, UndoEntry(n)) /\ undone' = undone \cup {n}
  BY <1>1, <1>2 DEF Committing, Grows
<1>3. CASE RolledBack(kind) /\ undone' = undone
  BY <1>3 DEF RolledBack, Grows
<1> QED BY <1>2, <1>3, UndoingOutcome

\* No step changes the log in another way.
LEMMA GrowsStep ==
  ASSUME TypeInv, [Next]_vars
  PROVE  Grows
<1>1. CASE Pipeline \/ UNCHANGED vars
  BY <1>1 DEF Pipeline, Arrive, Recognise, Cluster, vars, Grows
<1>2. CASE Requests
  <2>1. ASSUME NEW c \in Clusters, NEW A, Label(c, A) PROVE Grows
    <3> DEFINE entry == [kind |-> "label", cluster |-> c, person |-> Now + 1,
                         tracks |-> Members(db, c)]
    <3>1. PICK d : Mutates("label", d, entry)
      BY <2>1, LabelRows
    <3>2. entry.kind # "undo" /\ undone' = undone
      BY <2>1 DEF Label
    <3> HIDE DEF entry
    <3> QED BY <3>1, <3>2, GrowsRequest
  <2>2. ASSUME NEW c \in Clusters, NEW p \in People, NEW A, Assign(c, p, A) PROVE Grows
    <3>1. PICK d : Mutates("assign", d, AssignEntry(d, c, p, A))
      BY <2>2, AssignRows
    <3>2. AssignEntry(d, c, p, A).kind # "undo" /\ undone' = undone
      BY <2>2 DEF Assign, AssignEntry
    <3> QED BY <3>1, <3>2, GrowsRequest
  <2>3. ASSUME NEW c \in Clusters, FalsePositive(c) PROVE Grows
    <3> DEFINE entry == [kind |-> "false_positive", cluster |-> c,
                         status |-> db.clusters[c].status]
    <3>1. PICK d : Mutates("false_positive", d, entry)
      BY <2>3, FalsePositiveRows
    <3>2. entry.kind # "undo" /\ undone' = undone
      BY <2>3 DEF FalsePositive
    <3> HIDE DEF entry
    <3> QED BY <3>1, <3>2, GrowsRequest
  <2>4. ASSUME NEW c \in Clusters, NEW T, Split(c, T) PROVE Grows
    <3> DEFINE entry == [kind |-> "split", cluster |-> c, tracks |-> T]
    <3>1. PICK d : Mutates("split", d, entry)
      BY <2>4, SplitRows
    <3>2. entry.kind # "undo" /\ undone' = undone
      BY <2>4 DEF Split
    <3> HIDE DEF entry
    <3> QED BY <3>1, <3>2, GrowsRequest
  <2>5. ASSUME NEW s \in Clusters, NEW t \in Clusters, MergeClusters(s, t) PROVE Grows
    <3>1. PICK d : Mutates("merge_clusters", d, MergeClustersEntry(s, t))
      BY <2>5, MergeClustersRows
    <3>2. MergeClustersEntry(s, t).kind # "undo" /\ undone' = undone
      BY <2>5 DEF MergeClusters, MergeClustersEntry
    <3> QED BY <3>1, <3>2, GrowsRequest
  <2>6. ASSUME NEW s \in People, NEW t \in People, MergePeople(s, t) PROVE Grows
    <3>1. PICK d : Mutates("merge_people", d, MergeEntry(s, t))
      BY <2>6, MergePeopleRows
    <3>2. MergeEntry(s, t).kind # "undo" /\ undone' = undone
      BY <2>6 DEF MergePeople, MergeEntry
    <3> QED BY <3>1, <3>2, GrowsRequest
  <2> QED BY <1>2, <2>1, <2>2, <2>3, <2>4, <2>5, <2>6 DEF Requests
<1>3. CASE Undoes
  <2>1. PICK n : \/ UndoLabel(n) \/ UndoAssign(n) \/ UndoFalsePositive(n)
                 \/ UndoMergeClusters(n) \/ UndoMergePeople(n)
    BY <1>3 DEF Undoes
  <2>2. \E kind, d : Undoing(n, kind, d)
    BY <2>1, UndoLabelRows, UndoAssignRows, UndoFalsePositiveRows, UndoMergeClustersRows,
       UndoMergePeopleRows
  <2> QED BY <2>2, GrowsUndoing
<1> QED BY <1>1, <1>2, <1>3 DEF Next

\* A request that is no undo adds to the operations that stand.
LEMMA LogRequest ==
  ASSUME TypeInv, NEW entry, log' = Append(log, entry), undone' = undone
  PROVE  /\ Len(log) \in Nat /\ Done' = Done \cup {Len(log) + 1} /\ Len(log) + 1 \notin Done
         /\ log'[Len(log) + 1] = entry /\ Len(log) + 1 \notin undone
         /\ \A n \in Done : log'[n] = log[n] /\ n < Len(log) + 1
         /\ Live' = IF entry.kind = "merge_people" THEN Live \cup {Len(log) + 1} ELSE Live
         /\ Tokens' = IF entry.kind \in {"label", "assign"} THEN Tokens \cup {Len(log) + 1}
                                                           ELSE Tokens
<1>1. /\ Len(log) \in Nat /\ Len(log') = Len(log) + 1
      /\ log'[Len(log) + 1] = entry
      /\ \A n \in 1 .. Len(log) : log'[n] = log[n]
  BY Appended DEF TypeInv
<1>2. Done' = Done \cup {Len(log) + 1} /\ Len(log) + 1 \notin Done
      /\ \A n \in Done : n < Len(log) + 1
  BY <1>1 DEF Done
<1>3. undone \subseteq Done
  BY DEF TypeInv, Done
<1>4. \A n \in Done : log'[n] = log[n]
  BY <1>1 DEF Done
<1>5. Live' = IF entry.kind = "merge_people" THEN Live \cup {Len(log) + 1} ELSE Live
  BY <1>1, <1>2, <1>3, <1>4 DEF Live
<1>6. Tokens' = IF entry.kind \in {"label", "assign"} THEN Tokens \cup {Len(log) + 1}
                                                     ELSE Tokens
  BY <1>1, <1>2, <1>3, <1>4 DEF Tokens
<1> QED BY <1>1, <1>2, <1>3, <1>4, <1>5, <1>6

\* What is recorded of an undo.
LEMMA UndoEntryIs ==
  ASSUME NEW n
  PROVE  UndoEntry(n).kind = "undo" /\ UndoEntry(n).op = n
  BY DEF UndoEntry

\* An undo takes one operation from those that stand.
LEMMA LogUndo ==
  ASSUME TypeInv, NEW n \in Done, log' = Append(log, UndoEntry(n)),
         undone' = undone \cup {n}
  PROVE  /\ Len(log) \in Nat /\ Done' = Done \cup {Len(log) + 1} /\ Len(log) + 1 \notin Done
         /\ log'[Len(log) + 1] = UndoEntry(n)
         /\ \A m \in Done : log'[m] = log[m] /\ m < Len(log) + 1
         /\ Live' = Live \ {n} /\ Tokens' = Tokens \ {n}
<1>1. /\ Len(log) \in Nat /\ Len(log') = Len(log) + 1
      /\ log'[Len(log) + 1] = UndoEntry(n)
      /\ \A m \in 1 .. Len(log) : log'[m] = log[m]
  BY Appended DEF TypeInv
<1>2. Done' = Done \cup {Len(log) + 1} /\ Len(log) + 1 \notin Done
      /\ \A m \in Done : m < Len(log) + 1
  BY <1>1 DEF Done
<1>3. undone \subseteq Done
  BY DEF TypeInv, Done
<1>4. \A m \in Done : log'[m] = log[m]
  BY <1>1 DEF Done
<1>5. Live' = Live \ {n} /\ Tokens' = Tokens \ {n}
  <2>1. log'[Len(log) + 1].kind = "undo"
    BY <1>1, UndoEntryIs
  <2> DEFINE i == Len(log) + 1
  <2> HIDE DEF i
  <2>2. Done' = Done \cup {i} /\ log'[i].kind = "undo" /\ n # i
    BY <1>2, <2>1 DEF i
  <2>3. Live' = Live \ {n}
    BY <1>3, <1>4, <2>2 DEF Live
  <2>4. Tokens' = Tokens \ {n}
    BY <1>3, <1>4, <2>2 DEF Tokens
  <2> QED BY <2>3, <2>4
<1> QED BY <1>1, <1>2, <1>4, <1>5

\* Every step leaves the operations of undos marked undone.
LEMMA UndosMarkedStep ==
  ASSUME TypeInv, UndosMarked, [Next]_vars
  PROVE  UndosMarked'
<1>1. CASE UNCHANGED <<log, undone>>
  BY <1>1 DEF UndosMarked, Done
<1>2. ASSUME NEW entry, entry.kind # "undo", log' = Append(log, entry), undone' = undone
      PROVE  UndosMarked'
  BY <1>2, LogRequest DEF UndosMarked
<1>3. ASSUME NEW n \in Done \ undone, log' = Append(log, UndoEntry(n)),
             undone' = undone \cup {n}
      PROVE  UndosMarked'
  <2>1. /\ Done' = Done \cup {Len(log) + 1} /\ \A m \in Done : log'[m] = log[m]
        /\ log'[Len(log) + 1] = UndoEntry(n)
    BY <1>3, LogUndo
  <2>2. UndoEntry(n).op \in undone'
    BY <1>3, UndoEntryIs
  <2> QED BY <1>3, <2>1, <2>2 DEF UndosMarked
<1> QED BY <1>1, <1>2, <1>3, GrowsStep DEF Grows

\* The operation that an undo names is undone, always.
LEMMA Marked1 == Spec => []UndosMarked
<1>1. Init => UndosMarked
  BY DEF Init, UndosMarked, Done
<1> QED BY <1>1, UndosMarkedStep, Typed, PTL DEF Spec

\* Once clusters are merged or undos have crossed, that stays so.
LEMMA BadStays ==
  ASSUME TypeInv, UndosMarked, [Next]_vars
  PROVE  (Mixed => Mixed') /\ (Crossed => Crossed')
<1>1. DOMAIN log = Done /\ DOMAIN log' = Done'
  <2>1. IsLog /\ IsLog'
    BY TypeStep DEF TypeInv
  <2> QED BY <2>1 DEF IsLog, Done
<1>2. Done \subseteq Done' /\ \A n \in Done : log'[n] = log[n]
  BY LogStays DEF Done
<1>3. Mixed => Mixed'
  BY <1>1, <1>2 DEF Mixed
<1>4. ASSUME Crossed PROVE Crossed'
  <2>1. PICK i \in Done :
    /\ log[i].kind = "undo" /\ log[log[i].op].kind = "merge_people"
    /\ \E m \in 1 .. (i - 1) :
         /\ log[m].kind = "merge_people" /\ log[m].source = log[log[i].op].target
         /\ \A j \in 1 .. (i - 1) : ~ (log[j].kind = "undo" /\ log[j].op = m)
    BY <1>1, <1>4 DEF Crossed
  <2>2. log[i].op \in Done
    BY <2>1 DEF UndosMarked, TypeInv, Done
  <2>3. \A j \in 1 .. (i - 1) : j \in Done
    BY LogStays DEF Done
  <2>4. /\ log'[i].kind = "undo" /\ log'[log'[i].op].kind = "merge_people"
        /\ \E m \in 1 .. (i - 1) :
             /\ log'[m].kind = "merge_people" /\ log'[m].source = log'[log'[i].op].target
             /\ \A j \in 1 .. (i - 1) : ~ (log'[j].kind = "undo" /\ log'[j].op = m)
    BY <1>2, <2>1, <2>2, <2>3
  <2> QED BY <1>1, <1>2, <2>1, <2>4 DEF Crossed
<1> QED BY <1>3, <1>4

\* An undo that does not cross is one of a merge whose target was not merged.
LEMMA NotCrossing ==
  ASSUME TypeInv, UndosMarked, NEW n \in Done, log' = Append(log, UndoEntry(n)),
         undone' = undone \cup {n}, log[n].kind = "merge_people", IsLog', ~Crossed'
  PROVE  \A m \in Live : log[m].source # log[n].target
<1> SUFFICES ASSUME NEW m \in Live, log[m].source = log[n].target PROVE Crossed'
  OBVIOUS
<1> DEFINE i == Len(log) + 1
<1>1. /\ Done' = Done \cup {i} /\ log'[i] = UndoEntry(n) /\ Len(log) \in Nat
      /\ \A k \in Done : log'[k] = log[k]
  BY LogUndo
<1>2. DOMAIN log' = Done'
  BY DEF IsLog, Done
<1>3. 1 .. (i - 1) = Done
  BY <1>1 DEF Done
<1> HIDE DEF i
<1>4. i \in DOMAIN log' /\ log'[n] = log[n]
  BY <1>1, <1>2
<1>5. log'[i].kind = "undo" /\ log'[i].op = n
  <2>1. UndoEntry(n).kind = "undo" /\ UndoEntry(n).op = n
    BY DEF UndoEntry
  <2> QED BY <1>1, <2>1
<1>6. /\ m \in Done /\ log'[m].kind = "merge_people"
      /\ log'[m].source = log'[n].target
  BY <1>1, <1>4 DEF Live
<1>7. \A j \in Done : ~ (log'[j].kind = "undo" /\ log'[j].op = m)
  BY <1>1 DEF UndosMarked, Live
<1>8. log'[log'[i].op].kind = "merge_people" /\ log'[log'[i].op].target = log'[n].target
  BY <1>4, <1>5
<1>9. /\ log'[m].kind = "merge_people" /\ log'[m].source = log'[log'[i].op].target
      /\ \A j \in 1 .. (i - 1) : ~ (log'[j].kind = "undo" /\ log'[j].op = m)
      /\ m \in 1 .. (i - 1)
  BY <1>3, <1>6, <1>7, <1>8
<1> QED BY <1>4, <1>5, <1>8, <1>9 DEF Crossed

-----------------------------------------------------------------------------
(* Which operations hold a cluster.                                        *)

\* The operations that took a cluster from those that are open, and stand.
IsMark(op) ==
  \/ op.kind \in {"label", "assign"}
  \/ op.kind = "false_positive" /\ op.status = "open"

Marks == {n \in Done : n \notin undone /\ IsMark(log[n])}

\* At most one at a cluster, which is not open then.
OneMark ==
  \A n \in Marks :
    /\ Exists(db, log[n].cluster) /\ ~IsOpen(db, log[n].cluster)
    /\ \A m \in Marks : log[m].cluster = log[n].cluster => m = n

\* The tracks of a label are those of its cluster; an assignment found no label.
TokenTracks ==
  \A n \in Tokens : /\ log[n].tracks = Members(db, log[n].cluster)
                    /\ log[n].kind = "assign" => log[n].label = Nobody

\* A cluster names the person of the label that stands.
Named ==
  \A c \in Clusters : db.clusters[c].label # Nobody =>
    \E n \in Tokens : log[n].cluster = c /\ log[n].person = db.clusters[c].label

\* A cluster there is has members and was not merged, and there is no spare one.
Peopled ==
  \A c \in Clusters :
    /\ Exists(db, c) => c # Spare /\ Members(db, c) # {}
    /\ db.clusters[c].into = NoCluster

FalseExisted == \A n \in Done : log[n].kind = "false_positive" => log[n].status # "none"

MarkInv == OneMark /\ TokenTracks /\ Named /\ Peopled /\ FalseExisted

\* Labels and assignments take their cluster.
LEMMA TokensMark == Tokens \subseteq Marks
  BY DEF Tokens, Marks, IsMark

\* Which operations hold a cluster after a request.
LEMMA MarksRequest ==
  ASSUME TypeInv, NEW entry, log' = Append(log, entry), undone' = undone
  PROVE  Marks' = IF IsMark(entry) THEN Marks \cup {Len(log) + 1} ELSE Marks
<1>1. /\ Done' = Done \cup {Len(log) + 1} /\ Len(log) + 1 \notin Done
      /\ log'[Len(log) + 1] = entry /\ Len(log) + 1 \notin undone
      /\ \A n \in Done : log'[n] = log[n]
  BY LogRequest
<1> DEFINE i == Len(log) + 1
<1> HIDE DEF i
<1>2. /\ Done' = Done \cup {i} /\ i \notin Done
      /\ log'[i] = entry /\ i \notin undone
      /\ \A n \in Done : log'[n] = log[n]
  BY <1>1 DEF i
<1>3. Marks' = IF IsMark(entry) THEN Marks \cup {i} ELSE Marks
  BY <1>2 DEF Marks
<1> QED BY <1>3 DEF i

\* Which operations hold a cluster after an undo.
LEMMA MarksUndo ==
  ASSUME TypeInv, NEW n \in Done, log' = Append(log, UndoEntry(n)),
         undone' = undone \cup {n}
  PROVE  Marks' = Marks \ {n}
<1>1. /\ Done' = Done \cup {Len(log) + 1} /\ Len(log) + 1 \notin Done
      /\ log'[Len(log) + 1] = UndoEntry(n)
      /\ \A m \in Done : log'[m] = log[m]
  BY LogUndo
<1> DEFINE i == Len(log) + 1
<1> HIDE DEF i
<1>2. Done' = Done \cup {i} /\ i \notin Done /\ ~IsMark(log'[i])
      /\ \A m \in Done : log'[m] = log[m]
  BY <1>1, UndoEntryIs DEF i, IsMark
<1> QED BY <1>2 DEF Marks

\* What is asked of a step that changes one row: a cluster is opened when its
\* mark goes, and marked when it was open.
RowStep(c, row, i) ==
  /\ db'.clusters = [db.clusters EXCEPT ![c] = row] /\ db'.home = db.home
  /\ row.status # "none" /\ row.into = NoCluster /\ Exists(db, c)
  /\ i \notin Done /\ Done' = Done \cup {i} /\ \A n \in Done : log'[n] = log[n]
  /\ Marks' \subseteq Marks \cup {i} /\ Tokens' \subseteq Tokens \cup {i}
  /\ row.status = "open" => \A m \in Marks' : log'[m].cluster # c
  /\ i \in Marks' => log'[i].cluster = c /\ IsOpen(db, c)
  /\ i \in Tokens' => log'[i].tracks = Members(db, c)
  /\ i \in Tokens' /\ log'[i].kind = "assign" => log'[i].label = db.clusters[c].label
  /\ \A n \in Tokens \ Tokens' : log[n].cluster = c
  /\ row.label # Nobody =>
       \/ \E n \in Tokens' : log'[n].cluster = c /\ log'[n].person = row.label
       \/ row.label = db.clusters[c].label /\ Tokens \subseteq Tokens'
  /\ log'[i].kind = "false_positive" => log'[i].status # "none"

\* A step that writes one cluster row in this way keeps the marks.
LEMMA MarkRow ==
  ASSUME TypeInv, MarkInv, NEW c \in Clusters, NEW row, NEW i, RowStep(c, row, i)
  PROVE  MarkInv'
<1>1. db.clusters \in [Clusters -> ClusterRow]
  BY RowsAre DEF TypeInv
<1>2. /\ db'.clusters = [db.clusters EXCEPT ![c] = row] /\ db'.home = db.home
      /\ row.status # "none" /\ row.into = NoCluster /\ Exists(db, c)
  BY DEF RowStep
<1>3. \A x : Members(db', x) = Members(db, x)
  BY <1>2 DEF Members
<1>4. \A x \in Clusters : Exists(db', x) <=> Exists(db, x)
  BY <1>1, <1>2 DEF Exists
<1>5. \A x \in Clusters \ {c} : IsOpen(db', x) <=> IsOpen(db, x)
  BY <1>1, <1>2 DEF IsOpen
<1>6. IsOpen(db', c) <=> row.status = "open"
  BY <1>1, <1>2 DEF IsOpen
<1>7. \A n \in Done : log'[n] = log[n]
  BY DEF RowStep
<1>8. \A n \in Marks : log[n].cluster \in Clusters
  BY DEF TypeInv, Marks, IsMark, EntryOK, Done
<1>9. IsOpen(db, c) => \A m \in Marks : log[m].cluster # c
  BY DEF MarkInv, OneMark
<1>10. Marks \subseteq Done /\ Tokens \subseteq Done
  BY DEF Marks, Tokens
<1>11. OneMark'
  <2>1. ASSUME NEW n \in Marks'
        PROVE  /\ Exists(db', log'[n].cluster) /\ ~IsOpen(db', log'[n].cluster)
               /\ \A m \in Marks' : log'[m].cluster = log'[n].cluster => m = n
    <3>1. CASE n \in Marks
      <4>1. log'[n] = log[n] /\ log[n].cluster \in Clusters
        BY <1>7, <1>8, <1>10, <3>1
      <4>2. Exists(db, log[n].cluster) /\ ~IsOpen(db, log[n].cluster)
        BY <3>1 DEF MarkInv, OneMark
      <4>3. ~IsOpen(db', log[n].cluster)
        BY <1>5, <1>6, <2>1, <4>1, <4>2 DEF RowStep
      <4>4. ASSUME NEW m \in Marks', log'[m].cluster = log[n].cluster PROVE m = n
        <5>1. CASE m \in Marks
          BY <1>7, <1>10, <3>1, <4>4, <5>1 DEF MarkInv, OneMark
        <5>2. CASE m = i
          BY <1>9, <3>1, <4>4, <5>2 DEF RowStep
        <5> QED BY <5>1, <5>2 DEF RowStep
      <4> QED BY <1>4, <4>1, <4>2, <4>3, <4>4
    <3>2. CASE n = i
      <4>1. log'[n].cluster = c /\ IsOpen(db, c)
        BY <2>1, <3>2 DEF RowStep
      <4>2. row.status # "open"
        BY <2>1, <4>1 DEF RowStep
      <4>3. ASSUME NEW m \in Marks', log'[m].cluster = c PROVE m = n
        BY <1>7, <1>9, <1>10, <3>2, <4>1, <4>3 DEF RowStep
      <4> QED BY <1>2, <1>4, <1>6, <4>1, <4>2, <4>3
    <3> QED BY <2>1, <3>1, <3>2 DEF RowStep
  <2> QED BY <2>1 DEF OneMark
<1>12. TokenTracks'
  <2>1. ASSUME NEW n \in Tokens'
        PROVE  /\ log'[n].tracks = Members(db', log'[n].cluster)
               /\ log'[n].kind = "assign" => log'[n].label = Nobody
    <3>1. CASE n \in Tokens
      BY <1>3, <1>7, <1>10, <3>1 DEF MarkInv, TokenTracks
    <3>2. CASE n = i
      <4>1. log'[n].cluster = c /\ log'[n].tracks = Members(db, c) /\ IsOpen(db, c)
        BY <2>1, <3>2, TokensMark DEF RowStep, Tokens, Marks, IsMark
      <4>2. db.clusters[c].label = Nobody
        BY <1>9, <4>1, TokensMark DEF MarkInv, Named
      <4> QED BY <1>3, <2>1, <3>2, <4>1, <4>2 DEF RowStep
    <3> QED BY <2>1, <3>1, <3>2 DEF RowStep
  <2> QED BY <2>1 DEF TokenTracks
<1>13. Named'
  <2>1. ASSUME NEW x \in Clusters, db'.clusters[x].label # Nobody
        PROVE  \E n \in Tokens' : /\ log'[n].cluster = x
                                  /\ log'[n].person = db'.clusters[x].label
    <3>1. CASE x # c
      <4>1. db'.clusters[x] = db.clusters[x]
        BY <1>1, <1>2, <3>1
      <4>2. PICK n \in Tokens : log[n].cluster = x /\ log[n].person = db.clusters[x].label
        BY <2>1, <4>1 DEF MarkInv, Named
      <4>3. n \in Tokens' /\ log'[n] = log[n]
        BY <1>7, <1>10, <3>1, <4>2 DEF RowStep
      <4> QED BY <4>1, <4>2, <4>3
    <3>2. CASE x = c
      <4>1. db'.clusters[x] = row
        BY <1>1, <1>2, <3>2
      <4>2. CASE row.label = db.clusters[c].label /\ Tokens \subseteq Tokens'
        <5>1. PICK n \in Tokens : log[n].cluster = c /\ log[n].person = db.clusters[c].label
          BY <2>1, <3>2, <4>1, <4>2 DEF MarkInv, Named
        <5> QED BY <1>7, <1>10, <3>2, <4>1, <4>2, <5>1
      <4> QED BY <2>1, <3>2, <4>1, <4>2 DEF RowStep
    <3> QED BY <3>1, <3>2
  <2> QED BY <2>1 DEF Named
<1>14. Peopled'
  BY <1>1, <1>2, <1>3, <1>4 DEF MarkInv, Peopled, Exists, Members
<1>15. FalseExisted'
  BY <1>7 DEF MarkInv, FalseExisted, RowStep
<1> QED BY <1>11, <1>12, <1>13, <1>14, <1>15 DEF MarkInv

\* A step that leaves clusters and their members alone.
LEMMA MarkKept ==
  ASSUME MarkInv, db'.clusters = db.clusters, db'.home = db.home,
         Marks' = Marks, Tokens' = Tokens, \A n \in Done : log'[n] = log[n], FalseExisted'
  PROVE  MarkInv'
<1>1. \A x : Members(db', x) = Members(db, x)
  BY DEF Members
<1>2. \A x : (Exists(db', x) <=> Exists(db, x)) /\ (IsOpen(db', x) <=> IsOpen(db, x))
  BY DEF Exists, IsOpen
<1>3. \A n \in Marks \cup Tokens : log'[n] = log[n]
  BY DEF Marks, Tokens
<1>4. OneMark'
  BY <1>2, <1>3 DEF MarkInv, OneMark
<1>5. TokenTracks'
  BY <1>1, <1>3 DEF MarkInv, TokenTracks
<1>6. Named'
  BY <1>3 DEF MarkInv, Named
<1>7. Peopled'
  BY <1>1, <1>2 DEF MarkInv, Peopled
<1> QED BY <1>4, <1>5, <1>6, <1>7 DEF MarkInv

\* A step that leaves the log alone, too.
LEMMA MarkIdle ==
  ASSUME MarkInv, db'.clusters = db.clusters, db'.home = db.home,
         UNCHANGED <<log, undone>>
  PROVE  MarkInv'
<1>1. Marks' = Marks /\ Tokens' = Tokens /\ FalseExisted'
  BY DEF MarkInv, Marks, Tokens, Done, FalseExisted
<1> QED BY <1>1, MarkKept

\* A request that is rolled back keeps the marks.
LEMMA MarkRolledBack ==
  ASSUME MarkInv, NEW kind, RolledBack(kind), undone' = undone
  PROVE  MarkInv'
  BY MarkIdle DEF RolledBack

\* A request that is recorded as neither a mark nor a merge of clusters, on people.
LEMMA MarkPeople ==
  ASSUME TypeInv, MarkInv, NEW d, NEW entry, Committing(d, entry), undone' = undone,
         ~IsMark(entry), entry.kind # "false_positive",
         d.clusters = db.clusters, d.home = db.home
  PROVE  MarkInv'
<1>1. log' = Append(log, entry) /\ db' = d
  BY DEF Committing
<1>2. entry.kind \notin {"label", "assign"}
  BY DEF IsMark
<1>3. /\ Marks' = Marks /\ Tokens' = Tokens /\ \A n \in Done : log'[n] = log[n]
      /\ Done' = Done \cup {Len(log) + 1} /\ log'[Len(log) + 1] = entry
  BY <1>1, <1>2, LogRequest, MarksRequest
<1>4. FalseExisted'
  BY <1>3 DEF MarkInv, FalseExisted
<1> QED BY <1>1, <1>3, <1>4, MarkKept

\* A new track joins a cluster that is open, or is the first of a new one.
LEMMA MarkCluster ==
  ASSUME TypeInv, IInv, MarkInv, NEW t \in Tracks, NEW c \in Clusters, Cluster(t, c)
  PROVE  MarkInv'
<1>1. /\ db.clusters \in [Clusters -> ClusterRow]
      /\ db.home \in [Tracks -> Clusters \cup {NoCluster}]
  BY RowsAre DEF TypeInv
<1>2. /\ db'.home = [db.home EXCEPT ![t] = c]
      /\ db'.clusters = Refreshed(Created(c, t), c, {t})
  BY ClusterRows
<1>3. UNCHANGED <<log, undone>>
  BY DEF Cluster
<1>4. Marks' = Marks /\ Tokens' = Tokens /\ FalseExisted'
  BY <1>3 DEF MarkInv, Marks, Tokens, Done, FalseExisted
<1>5. db.home[t] = NoCluster /\ ~Exists(db, t)
  BY DEF Cluster, IInv, Fresh, Undecided
<1> DEFINE row == IF c = t THEN [NoRow EXCEPT !.status = "open"] ELSE db.clusters[c]
<1>6. row \in ClusterRow
  BY <1>1 DEF NoRow, ClusterRow, Statuses, Owners
<1>7. row.status = "open" /\ row.label = Nobody /\ row.into = NoCluster
  <2>1. CASE c = t
    BY <2>1 DEF NoRow
  <2>2. CASE c # t
    <3>1. db.clusters[c].status = "open" /\ db.clusters[c].into = NoCluster
      BY <2>2 DEF Cluster, IsOpen, MarkInv, Peopled
    <3>2. \A n \in Tokens : log[n].cluster # c
      BY <3>1, TokensMark DEF MarkInv, OneMark, IsOpen
    <3>3. db.clusters[c].label = Nobody
      BY <3>2 DEF MarkInv, Named
    <3> QED BY <2>2, <3>1, <3>3
  <2> QED BY <2>1, <2>2
<1> DEFINE row2 == [row EXCEPT !.version = @ + 1]
<1>8. db'.clusters = [db.clusters EXCEPT ![c] = row2]
  BY <1>1, <1>2 DEF Refreshed, Created
<1> HIDE DEF row
<1>9. row2.status = "open" /\ row2.label = Nobody /\ row2.into = NoCluster
  BY <1>6, <1>7 DEF ClusterRow
<1> HIDE DEF row2
<1>10. \A n \in Marks : log[n].cluster # c /\ log[n].cluster \in Clusters
  <2>1. \A n \in Marks : log[n].cluster \in Clusters
    BY DEF TypeInv, Marks, IsMark, EntryOK, Done
  <2> QED BY <1>5, <2>1 DEF Cluster, MarkInv, OneMark
<1>11. \A x \in Clusters \ {c} : db'.clusters[x] = db.clusters[x]
  BY <1>1, <1>8
<1>12. db'.clusters[c] = row2
  BY <1>1, <1>8
<1>13. \A x \in Clusters \ {c} : Members(db', x) = Members(db, x)
  BY <1>1, <1>2, <1>5, IdentityAssumption DEF Members, Clusters
<1>14. t \in Members(db', c) /\ c # Spare
  <2>1. c = t \/ Exists(db, c)
    BY DEF Cluster, IsOpen, Exists
  <2> QED BY <1>1, <1>2, <2>1, IdentityAssumption DEF Members, MarkInv, Peopled
<1>15. OneMark'
  BY <1>3, <1>4, <1>10, <1>11 DEF MarkInv, OneMark, Exists, IsOpen
<1>16. TokenTracks'
  BY <1>3, <1>4, <1>10, <1>13, TokensMark DEF MarkInv, TokenTracks
<1>17. Named'
  BY <1>3, <1>4, <1>9, <1>11, <1>12 DEF MarkInv, Named
<1>18. Peopled'
  <2>1. ASSUME NEW x \in Clusters
        PROVE  /\ Exists(db', x) => x # Spare /\ Members(db', x) # {}
               /\ db'.clusters[x].into = NoCluster
    <3>1. CASE x = c
      BY <1>9, <1>12, <1>14, <3>1
    <3>2. CASE x # c
      BY <1>11, <1>13, <3>2 DEF MarkInv, Peopled, Exists
    <3> QED BY <3>1, <3>2
  <2> QED BY <2>1 DEF Peopled
<1> QED BY <1>4, <1>15, <1>16, <1>17, <1>18 DEF MarkInv

\* The pipeline keeps the marks.
LEMMA MarkPipeline ==
  ASSUME TypeInv, IInv, MarkInv, Pipeline
  PROVE  MarkInv'
<1>1. ASSUME NEW e \in Events, Arrive(e) PROVE MarkInv'
  <2>1. db'.clusters = db.clusters /\ db'.home = db.home
    BY <1>1, ArriveRows
  <2>2. UNCHANGED <<log, undone>>
    BY <1>1 DEF Arrive
  <2> QED BY <2>1, <2>2, MarkIdle
<1>2. ASSUME NEW t \in Tracks, NEW p \in People, NEW A \in SUBSET ({t} \cap Good),
             Recognise(t, p, A)
      PROVE  MarkInv'
  <2>1. A \in SUBSET Tracks
    OBVIOUS
  <2>2. db'.clusters = db.clusters /\ db'.home = db.home
    BY <1>2, <2>1, RecogniseRows
  <2>3. UNCHANGED <<log, undone>>
    BY <1>2 DEF Recognise
  <2> QED BY <2>2, <2>3, MarkIdle
<1> QED BY <1>1, <1>2, MarkCluster DEF Pipeline

\* A split puts tracks into a cluster that is deleted at once: it is rolled back.
LEMMA SplitFails ==
  ASSUME TypeInv, IInv, NEW c \in Clusters, NEW T \in SUBSET Tracks, Split(c, T)
  PROVE  RolledBack("split") /\ undone' = undone
<1>1. ~Exists(db, Spare) /\ T # {} /\ undone' = undone
  BY DEF Split
<1> DEFINE entry == [kind |-> "split", cluster |-> c, tracks |-> T]
<1>2. PICK d : Mutates("split", d, entry) /\ d.home = Rehomed(T, Spare)
               /\ d.clusters = SplitClusters(c)
  BY SplitRows
<1> HIDE DEF entry
<1>3. Members(db, Spare) = {}
  <2>1. \A u \in Tracks : db.home[u] # Spare
    BY <1>1, IdentityAssumption DEF IInv, Housed, Exists
  <2> QED BY <2>1 DEF Members
<1> DEFINE new == [db.clusters EXCEPT ![Spare] = [NoRow EXCEPT !.status = "open"]]
           kept == Refreshed(new, c, Members(db, c))
<1>4. kept \in [Clusters -> ClusterRow] /\ Spare \in Clusters
  <2>1. [NoRow EXCEPT !.status = "open"] \in ClusterRow /\ Spare \in Clusters
    BY DEF NoRow, ClusterRow, Statuses, Owners, Clusters
  <2>2. new \in [Clusters -> ClusterRow]
    BY <2>1, RowsAre DEF TypeInv
  <2> HIDE DEF new
  <2> QED BY <2>1, <2>2, RefreshedTyped
<1>5. d.clusters = Refreshed(kept, Spare, {})
  BY <1>2, <1>3 DEF SplitClusters
<1> HIDE DEF kept
<1>6. d.clusters[Spare].status = "none"
  BY <1>4, <1>5 DEF Refreshed, NoRow
<1>7. PICK u \in Tracks : u \in T
  BY <1>1
<1>8. d.home[u] = Spare
  BY <1>2, <1>7 DEF Rehomed
<1>9. ~Sound(d)
  <2>1. d.home[u] # NoCluster /\ ~Exists(d, d.home[u])
    BY <1>6, <1>8, IdentityAssumption DEF Exists
  <2> QED BY <2>1 DEF Sound
<1> QED BY <1>1, <1>2, <1>9 DEF Mutates, RolledBack

\* Neither a label nor a status changes what a cluster was merged into.
LEMMA IntoFields ==
  ASSUME NEW row \in ClusterRow
  PROVE  /\ \A p \in Owners :
              Labeled(row, p).into = row.into /\ Reopened(row, p).into = row.into
         /\ \A st \in Statuses : Marked(row, st).into = row.into
<1>1. \A p \in Owners : Labeled(row, p).into = row.into
  BY DEF ClusterRow, Labeled
<1>2. \A p \in Owners : Reopened(row, p).into = row.into
  BY DEF ClusterRow, Reopened
<1>3. \A st \in Statuses : Marked(row, st).into = row.into
  BY DEF ClusterRow, Marked
<1> QED BY <1>1, <1>2, <1>3

\* A label or assignment p of an open cluster c.
LEMMA MarkToken ==
  ASSUME TypeInv, MarkInv, NEW c \in Clusters, NEW p \in People, NEW d, NEW entry,
         Committing(d, entry), undone' = undone, IsOpen(db, c),
         d.clusters = [db.clusters EXCEPT ![c] = Labeled(@, p)], d.home = db.home,
         entry.kind \in {"label", "assign"}, entry.cluster = c, entry.person = p,
         entry.tracks = Members(db, c),
         entry.kind = "assign" => entry.label = db.clusters[c].label
  PROVE  MarkInv'
<1> DEFINE i == Len(log) + 1
           row == Labeled(db.clusters[c], p)
<1>1. log' = Append(log, entry) /\ db' = d
  BY DEF Committing
<1>2. /\ Marks' = Marks \cup {i} /\ Tokens' = Tokens \cup {i} /\ log'[i] = entry
      /\ i \notin Done /\ Done' = Done \cup {i} /\ \A n \in Done : log'[n] = log[n]
  BY <1>1, LogRequest, MarksRequest DEF IsMark
<1> HIDE DEF i
<1>3. db.clusters[c] \in ClusterRow /\ p \in Owners
  BY RowsAre DEF TypeInv, Owners
<1>4. row.status = "labeled" /\ row.label = p
  BY <1>3, RowFields
<1>5. row.into = NoCluster
  BY <1>3, IntoFields DEF MarkInv, Peopled
<1>6. db'.clusters = [db.clusters EXCEPT ![c] = row] /\ db'.home = db.home
  BY <1>1
<1> HIDE DEF row
<1>7. RowStep(c, row, i)
  BY <1>2, <1>4, <1>5, <1>6 DEF RowStep, IsOpen, Exists
<1> QED BY <1>7, MarkRow

\* The mark of a false positive keeps the marks.
LEMMA MarkFalse ==
  ASSUME TypeInv, MarkInv, NEW c \in Clusters, FalsePositive(c)
  PROVE  MarkInv'
<1> DEFINE entry == [kind |-> "false_positive", cluster |-> c,
                     status |-> db.clusters[c].status]
<1>1. PICK d : /\ Mutates("false_positive", d, entry) /\ d.home = db.home
               /\ d.clusters = [db.clusters EXCEPT ![c] = Marked(@, "false_positive")]
  BY FalsePositiveRows
<1>2. Exists(db, c) /\ undone' = undone
  BY DEF FalsePositive
<1>3. /\ entry.kind = "false_positive" /\ entry.cluster = c
      /\ entry.status = db.clusters[c].status
  OBVIOUS
<1> HIDE DEF entry
<1>4. CASE RolledBack("false_positive")
  BY <1>2, <1>4, MarkRolledBack
<1>5. CASE Committing(d, entry)
  <2> DEFINE i == Len(log) + 1
             row == Marked(db.clusters[c], "false_positive")
  <2>1. log' = Append(log, entry) /\ db' = d
    BY <1>5 DEF Committing
  <2>2. /\ Marks' = IF IsMark(entry) THEN Marks \cup {i} ELSE Marks
        /\ Tokens' = Tokens /\ log'[i] = entry
        /\ i \notin Done /\ Done' = Done \cup {i} /\ \A n \in Done : log'[n] = log[n]
    BY <1>2, <1>3, <2>1, LogRequest, MarksRequest
  <2>3. IsMark(entry) <=> IsOpen(db, c)
    BY <1>3 DEF IsMark, IsOpen
  <2>4. i \notin Marks /\ i \notin Tokens
    BY <2>2 DEF Marks, Tokens
  <2> HIDE DEF i
  <2>5. db.clusters[c] \in ClusterRow /\ "false_positive" \in Statuses
    BY RowsAre DEF TypeInv, Statuses
  <2>6. row.status = "false_positive" /\ row.label = db.clusters[c].label
    BY <2>5, RowFields
  <2>7. row.into = NoCluster
    BY <2>5, IntoFields DEF MarkInv, Peopled
  <2>8. db'.clusters = [db.clusters EXCEPT ![c] = row] /\ db'.home = db.home
    BY <1>1, <2>1
  <2> HIDE DEF row
  <2>9. RowStep(c, row, i)
    BY <1>2, <1>3, <2>2, <2>3, <2>4, <2>6, <2>7, <2>8 DEF RowStep, Exists
  <2> QED BY <2>9, MarkRow
<1> QED BY <1>1, <1>4, <1>5, Outcome

\* The requests keep the marks, unless clusters are merged.
LEMMA MarkRequests ==
  ASSUME TypeInv, IInv, MarkInv, Requests
  PROVE  MarkInv' \/ Mixed'
<1>1. ASSUME NEW c \in Clusters, NEW A, Label(c, A) PROVE MarkInv'
  <2> DEFINE p == Now + 1
             entry == [kind |-> "label", cluster |-> c, person |-> p,
                       tracks |-> Members(db, c)]
  <2>1. PICK d : Mutates("label", d, entry) /\ Learns(d, c, p, A)
    BY <1>1, LabelRows
  <2>2. p \in People /\ IsOpen(db, c) /\ undone' = undone
    BY <1>1, LabelRows DEF Label
  <2>3. /\ entry.kind = "label" /\ entry.cluster = c /\ entry.person = p
        /\ entry.tracks = Members(db, c)
    OBVIOUS
  <2> HIDE DEF entry, p
  <2>4. CASE Committing(d, entry)
    <3>1. d.clusters = [db.clusters EXCEPT ![c] = Labeled(@, p)] /\ d.home = db.home
      BY <2>1 DEF Learns
    <3> QED BY <2>2, <2>3, <2>4, <3>1, MarkToken
  <2>5. CASE RolledBack("label")
    BY <2>2, <2>5, MarkRolledBack
  <2> QED BY <2>1, <2>4, <2>5, Outcome
<1>2. ASSUME NEW c \in Clusters, NEW p \in People, NEW A, Assign(c, p, A)
      PROVE  MarkInv'
  <2>1. PICK d : Mutates("assign", d, AssignEntry(d, c, p, A)) /\ Learns(d, c, p, A)
    BY <1>2, AssignRows
  <2>2. IsOpen(db, c) /\ undone' = undone
    BY <1>2 DEF Assign
  <2> DEFINE entry == AssignEntry(d, c, p, A)
  <2>3. /\ entry.kind = "assign" /\ entry.cluster = c /\ entry.person = p
        /\ entry.tracks = Members(db, c) /\ entry.label = db.clusters[c].label
    BY DEF AssignEntry
  <2> HIDE DEF entry
  <2>4. CASE Committing(d, entry)
    <3>1. d.clusters = [db.clusters EXCEPT ![c] = Labeled(@, p)] /\ d.home = db.home
      BY <2>1 DEF Learns
    <3> QED BY <2>2, <2>3, <2>4, <3>1, MarkToken
  <2>5. CASE RolledBack("assign")
    BY <2>2, <2>5, MarkRolledBack
  <2> QED BY <2>1, <2>4, <2>5, Outcome DEF entry
<1>3. ASSUME NEW c \in Clusters, NEW T \in SUBSET Tracks, Split(c, T) PROVE MarkInv'
  BY <1>3, SplitFails, MarkRolledBack
<1>4. ASSUME NEW s \in Clusters, NEW t \in Clusters, MergeClusters(s, t)
      PROVE  MarkInv' \/ Mixed'
  <2>1. PICK d : Mutates("merge_clusters", d, MergeClustersEntry(s, t))
    BY <1>4, MergeClustersRows
  <2>2. undone' = undone
    BY <1>4 DEF MergeClusters
  <2>3. CASE RolledBack("merge_clusters")
    BY <2>2, <2>3, MarkRolledBack
  <2>4. CASE Committing(d, MergeClustersEntry(s, t))
    <3>1. log' = Append(log, MergeClustersEntry(s, t)) /\ IsLog
      BY <2>4 DEF Committing, TypeInv
    <3>2. Len(log) \in Nat /\ Len(log') = Len(log) + 1 /\ IsLog'
          /\ log'[Len(log) + 1] = MergeClustersEntry(s, t)
      BY <3>1, Appended
    <3>3. Len(log) + 1 \in DOMAIN log'
      BY <3>2 DEF IsLog
    <3> QED BY <3>2, <3>3 DEF Mixed, MergeClustersEntry
  <2> QED BY <2>1, <2>3, <2>4, Outcome
<1>5. ASSUME NEW s \in People, NEW t \in People, MergePeople(s, t) PROVE MarkInv'
  <2>1. PICK d : Mutates("merge_people", d, MergeEntry(s, t)) /\ Merges(d, s, t)
    BY <1>5, MergePeopleRows
  <2>2. undone' = undone
    BY <1>5 DEF MergePeople
  <2>3. CASE RolledBack("merge_people")
    BY <2>2, <2>3, MarkRolledBack
  <2>4. CASE Committing(d, MergeEntry(s, t))
    <3>1. MergeEntry(s, t).kind = "merge_people"
      BY DEF MergeEntry
    <3>2. d.clusters = db.clusters /\ d.home = db.home
      BY <2>1 DEF Merges
    <3> QED BY <2>2, <2>4, <3>1, <3>2, MarkPeople DEF IsMark
  <2> QED BY <2>1, <2>3, <2>4, Outcome
<1> QED BY <1>1, <1>2, <1>3, <1>4, <1>5, MarkFalse DEF Requests

\* The undo of a mark n opens its cluster, whose row becomes `row`.
LEMMA MarkUndone ==
  ASSUME TypeInv, MarkInv, NEW n, NEW kind, NEW d, NEW row, Undoing(n, kind, d),
         NEW c \in Clusters, c = log[n].cluster, Exists(db, c),
         n \in Marks \/ (n \notin Tokens /\ row.status # "open"),
         d.clusters = [db.clusters EXCEPT ![c] = row], d.home = db.home,
         row.status # "none", row.into = NoCluster,
         row.label = Nobody \/ (row.label = db.clusters[c].label /\ n \notin Tokens)
  PROVE  MarkInv'
<1>1. CASE RolledBack(kind) /\ undone' = undone
  BY <1>1, MarkRolledBack
<1>2. CASE Committing(d, UndoEntry(n)) /\ undone' = undone \cup {n}
  <2> DEFINE i == Len(log) + 1
  <2>1. log' = Append(log, UndoEntry(n)) /\ db' = d /\ n \in Done
    BY <1>2, UndoingOutcome DEF Committing, Done
  <2>2. /\ Marks' = Marks \ {n} /\ Tokens' = Tokens \ {n}
        /\ log'[i] = UndoEntry(n)
        /\ i \notin Done /\ Done' = Done \cup {i} /\ \A m \in Done : log'[m] = log[m]
    BY <1>2, <2>1, LogUndo, MarksUndo
  <2>3. i \notin Marks /\ i \notin Tokens
    BY <2>2 DEF Marks, Tokens
  <2>4. log'[i].kind = "undo"
    BY <2>2, UndoEntryIs
  <2> HIDE DEF i
  <2>5. row.status = "open" => \A m \in Marks' : log'[m].cluster # c
    <3>1. \A m \in Marks : log'[m] = log[m]
      BY <2>2 DEF Marks
    <3> QED BY <2>2, <3>1 DEF MarkInv, OneMark
  <2>6. row.label # Nobody => row.label = db.clusters[c].label /\ Tokens \subseteq Tokens'
    BY <2>2
  <2>7. \A m \in Tokens \ Tokens' : log[m].cluster = c
    BY <2>2
  <2>8. RowStep(c, row, i)
    BY <2>1, <2>2, <2>3, <2>4, <2>5, <2>6, <2>7 DEF RowStep
  <2> QED BY <2>8, MarkRow
<1> QED BY <1>1, <1>2, UndoingOutcome

\* The undos keep the marks, unless clusters are merged.
LEMMA MarkUndoes ==
  ASSUME TypeInv, UndosMarked, MarkInv, Undoes
  PROVE  MarkInv' \/ Mixed'
<1>0. db.clusters \in [Clusters -> ClusterRow] /\ [Next]_vars
  BY RowsAre DEF TypeInv, Next
<1>1. ASSUME NEW n, UndoLabel(n) PROVE MarkInv'
  <2>1. PICK d : Undoing(n, "undo_label", d) /\ Unlabels(d, log[n])
    BY <1>1, UndoLabelRows
  <2>2. MayUnlabel(log[n])
    BY <1>1, UndoLabelRows
  <2> DEFINE c == log[n].cluster
             row == Reopened(db.clusters[c], Nobody)
  <2>3. /\ c \in Clusters /\ Exists(db, c) /\ d.home = db.home
        /\ d.clusters = [db.clusters EXCEPT ![c] = row]
    BY <2>1, <2>2 DEF Unlabels, MayUnlabel
  <2>4. n \in Marks
    BY <2>1, <2>2 DEF Undoing, MayUnlabel, Marks, IsMark, Done
  <2>5. db.clusters[c] \in ClusterRow /\ Nobody \in Owners
    BY <1>0, <2>3 DEF Owners
  <2>6. row.status = "open" /\ row.label = Nobody
    BY <2>5, RowFields
  <2>7. row.into = NoCluster
    BY <2>3, <2>5, IntoFields DEF MarkInv, Peopled
  <2> HIDE DEF row
  <2> QED BY <2>1, <2>3, <2>4, <2>6, <2>7, MarkUndone
<1>2. ASSUME NEW n, UndoAssign(n) PROVE MarkInv'
  <2>1. PICK d : Undoing(n, "undo_assign", d) /\ Unassigns(d, log[n])
    BY <1>2, UndoAssignRows
  <2>2. MayUnassign(log[n])
    BY <1>2, UndoAssignRows
  <2>3. n \in Tokens /\ n \in Marks
    BY <2>1, <2>2 DEF Undoing, MayUnassign, Marks, Tokens, IsMark, Done
  <2> DEFINE c == log[n].cluster
             row == Reopened(db.clusters[c], Nobody)
  <2>4. log[n].label = Nobody
    BY <2>2, <2>3 DEF MarkInv, TokenTracks, MayUnassign
  <2>5. /\ c \in Clusters /\ Exists(db, c) /\ d.home = db.home
        /\ d.clusters = [db.clusters EXCEPT ![c] = row]
    BY <2>1, <2>2, <2>4 DEF Unassigns, MayUnassign
  <2>6. db.clusters[c] \in ClusterRow /\ Nobody \in Owners
    BY <1>0, <2>5 DEF Owners
  <2>7. row.status = "open" /\ row.label = Nobody
    BY <2>6, RowFields
  <2>8. row.into = NoCluster
    BY <2>5, <2>6, IntoFields DEF MarkInv, Peopled
  <2> HIDE DEF row
  <2> QED BY <2>1, <2>3, <2>5, <2>7, <2>8, MarkUndone
<1>3. ASSUME NEW n, UndoFalsePositive(n) PROVE MarkInv'
  <2> DEFINE c == log[n].cluster
             row == Marked(db.clusters[c], log[n].status)
  <2>1. PICK d : /\ Undoing(n, "undo_false_positive", d) /\ d.home = db.home
                 /\ d.clusters = [db.clusters EXCEPT ![c] = row]
    BY <1>3, UndoFalsePositiveRows
  <2>2. /\ log[n].kind = "false_positive" /\ EntryOK(log[n]) /\ c \in Clusters
        /\ db.clusters[c].status = "false_positive"
    BY <1>3, UndoFalsePositiveRows
  <2>3. Exists(db, c) /\ log[n].status \in Statuses /\ n \in Done \ undone
    BY <2>1, <2>2 DEF Exists, EntryOK, Undoing, Done
  <2>4. log[n].status # "none" /\ n \notin Tokens
    BY <2>2, <2>3 DEF MarkInv, FalseExisted, Tokens
  <2>5. db.clusters[c] \in ClusterRow
    BY <1>0, <2>2
  <2>6. row.status = log[n].status /\ row.label = db.clusters[c].label
    BY <2>3, <2>5, RowFields
  <2>7. row.into = NoCluster
    BY <2>2, <2>3, <2>5, IntoFields DEF MarkInv, Peopled
  <2> HIDE DEF row
  <2>8. n \in Marks \/ row.status # "open"
    BY <2>2, <2>3, <2>6 DEF Marks, IsMark
  <2> QED BY <2>1, <2>2, <2>3, <2>4, <2>6, <2>7, <2>8, MarkUndone
<1>4. ASSUME NEW n, UndoMergeClusters(n) PROVE Mixed'
  <2>1. Mixed
    BY <1>4 DEF UndoMergeClusters, Undoable, Mixed
  <2> QED BY <1>0, <2>1, BadStays
<1>5. ASSUME NEW n, UndoMergePeople(n) PROVE MarkInv'
  <2>1. PICK d : Undoing(n, "undo_merge_people", d) /\ Unmerges(d, log[n])
    BY <1>5, UndoMergePeopleRows
  <2>2. MayUnmerge(log[n])
    BY <1>5, UndoMergePeopleRows
  <2>3. CASE RolledBack("undo_merge_people") /\ undone' = undone
    BY <2>3, MarkRolledBack
  <2>4. CASE Committing(d, UndoEntry(n)) /\ undone' = undone \cup {n}
    <3>1. log' = Append(log, UndoEntry(n)) /\ db' = d /\ n \in Done
      BY <2>1, <2>4, UndoingOutcome DEF Committing, Done
    <3>2. n \notin Marks /\ n \notin Tokens
      BY <2>2 DEF MayUnmerge, Marks, Tokens, IsMark
    <3>3. /\ Marks' = Marks /\ Tokens' = Tokens /\ \A m \in Done : log'[m] = log[m]
          /\ Done' = Done \cup {Len(log) + 1} /\ log'[Len(log) + 1] = UndoEntry(n)
      <4>1. log' = Append(log, UndoEntry(n)) /\ n \in Done /\ undone' = undone \cup {n}
        BY <2>4, <3>1
      <4>2. Marks' = Marks \ {n} /\ Tokens' = Tokens \ {n}
        BY <4>1, LogUndo, MarksUndo
      <4>3. Marks \ {n} = Marks /\ Tokens \ {n} = Tokens
        BY <3>2
      <4>4. /\ \A m \in Done : log'[m] = log[m]
            /\ Done' = Done \cup {Len(log) + 1} /\ log'[Len(log) + 1] = UndoEntry(n)
        BY <4>1, LogUndo
      <4> QED BY <4>2, <4>3, <4>4
    <3>4. UndoEntry(n).kind = "undo"
      BY UndoEntryIs
    <3>5. FalseExisted'
      BY <3>3, <3>4 DEF MarkInv, FalseExisted
    <3>6. db'.clusters = db.clusters /\ db'.home = db.home
      BY <2>1, <3>1 DEF Unmerges
    <3> QED BY <3>3, <3>5, <3>6, MarkKept
  <2> QED BY <2>1, <2>3, <2>4, UndoingOutcome
<1> QED BY <1>1, <1>2, <1>3, <1>4, <1>5 DEF Undoes

\* There are no marks at first.
LEMMA MarkInit == Init => MarkInv
<1> SUFFICES ASSUME Init PROVE MarkInv
  OBVIOUS
<1>1. Done = {} /\ Marks = {} /\ Tokens = {}
  BY DEF Init, Done, Marks, Tokens
<1>2. \A c \in Clusters : db.clusters[c] = NoRow
  BY DEF Init
<1>3. Peopled /\ Named
  BY <1>2 DEF Peopled, Named, Exists, NoRow
<1> QED BY <1>1, <1>3 DEF MarkInv, OneMark, TokenTracks, FalseExisted

\* Every step keeps the marks, unless clusters are merged.
LEMMA MarkStep ==
  ASSUME TypeInv, UndosMarked, IInv, MarkInv, [Next]_vars
  PROVE  MarkInv' \/ Mixed'
<1>1. CASE UNCHANGED vars
  BY <1>1, MarkIdle DEF vars
<1> QED BY <1>1, MarkPipeline, MarkRequests, MarkUndoes DEF Next

-----------------------------------------------------------------------------
(* Whose the tracks are: the tree of merges, owners and samples.           *)

IntoExists ==
  \A p \in People : db.people[p].into # Nobody =>
    db.people[db.people[p].into].status # "none"

\* The source of a merge that stands is merged into its target, by no other
\* merge, and whoever is merged is the source of one.
Held ==
  /\ \A m \in Live : db.people[log[m].source] = MergedAway(log[m].target)
  /\ \A m, n \in Live : log[m].source = log[n].source => m = n
  /\ \A p \in People : db.people[p].status = "merged" => \E m \in Live : log[m].source = p

\* What came to a person goes on with that person, when merged in turn.
Nested ==
  \A m, n \in Live : log[n].source = log[m].target => log[m].tracks \subseteq log[n].tracks

\* Two merges into one person moved different tracks.
Siblings ==
  \A m, n \in Live : log[n].target = log[m].target /\ m # n =>
    log[m].tracks \cap log[n].tracks = {}

\* A track moved by two merges came to the second by way of the first's target.
Laid ==
  \A m, n \in Live : m < n /\ log[m].tracks \cap log[n].tracks # {} =>
    \E k \in Live : k <= n /\ log[k].source = log[m].target

TreeInv == IntoExists /\ Held /\ Nested /\ Siblings /\ Laid

\* The target of a merge has what came, as long as it is not merged itself.
Kept ==
  \A m \in Live : IsActive(db, log[m].target) =>
    \A u \in Tracks : u \in log[m].tracks => db.owner[u] = log[m].target

MergedOwned == \A m \in Live, u \in Tracks : u \in log[m].tracks => db.owner[u] # Nobody

\* A track of a label is with its person until a merge takes it from there.
First ==
  \A n \in Tokens, u \in Tracks : u \in log[n].tracks =>
    /\ \A m \in Live : u \in log[m].tracks =>
         \E k \in Live : /\ k <= m /\ log[k].source = log[n].person
                         /\ u \in log[k].tracks
    /\ (\A m \in Live : u \notin log[m].tracks) => db.owner[u] = log[n].person

\* The tracks that are assigned had no person.
Cleared ==
  \A n \in Tokens : log[n].kind = "assign" =>
    \A t \in log[n].tracks : log[n].owners[t] = Nobody

OwnersActive == \A t \in Tracks : db.owner[t] # Nobody => IsActive(db, db.owner[t])

OwnSamples == \A q \in db.protos : db.owner[q.key[2]] = q.of

\* The prototypes of its tracks are those that an assignment, or a merge, recorded.
SamplesRecorded ==
  /\ \A n \in Tokens : log[n].kind = "assign" =>
       \A q \in db.protos : q.key[2] \in log[n].tracks => q.key \in log[n].protos
  /\ \A m \in Live :
       /\ \A k \in log[m].protos : k[2] \in log[m].tracks
       /\ \A q \in db.protos : q.key[2] \in log[m].tracks => q.key \in log[m].protos

OwnedInv ==
  Kept /\ MergedOwned /\ First /\ Cleared /\ OwnersActive /\ OwnSamples /\ SamplesRecorded

\* Tracks nobody decided about, and those in clusters without a label, are nobody's.
Unowned ==
  \A t \in Tracks :
    /\ Undecided(t) => db.owner[t] = Nobody
    /\ db.home[t] # NoCluster /\ (\A n \in Tokens : log[n].cluster # db.home[t]) =>
         db.owner[t] = Nobody

Parted == \A pair \in db.links, p \in People : ~ (pair \subseteq Owned(db, p))

\* The log is the same, as far as the operations that stood go.
SameLog == \A n \in Live \cup Tokens : log'[n] = log[n]

\* A step that changes neither people nor merges that stand keeps their tree.
LEMMA TreeIdle ==
  ASSUME TreeInv, SameLog, Live' = Live, db'.people = db.people
  PROVE  TreeInv'
<1>1. \A n \in Live : log'[n] = log[n]
  BY DEF SameLog
<1>2. IntoExists'
  BY DEF TreeInv, IntoExists
<1>3. Held'
  BY <1>1 DEF TreeInv, Held
<1>4. Nested' /\ Siblings'
  BY <1>1 DEF TreeInv, Nested, Siblings
<1>5. Laid'
  BY <1>1 DEF TreeInv, Laid
<1> QED BY <1>2, <1>3, <1>4, <1>5 DEF TreeInv

\* A step that leaves owners, samples and operations alone keeps them in order.
LEMMA OwnedIdle ==
  ASSUME OwnedInv, SameLog, Live' = Live, Tokens' = Tokens, db'.people = db.people,
         db'.owner = db.owner, db'.protos = db.protos
  PROVE  OwnedInv'
<1>1. (\A n \in Live : log'[n] = log[n]) /\ (\A n \in Tokens : log'[n] = log[n])
  BY DEF SameLog
<1>2. Kept' /\ MergedOwned'
  BY <1>1 DEF OwnedInv, Kept, MergedOwned, IsActive
<1>3. First'
  BY <1>1 DEF OwnedInv, First
<1>4. Cleared' /\ OwnersActive' /\ OwnSamples'
  BY <1>1 DEF OwnedInv, Cleared, OwnersActive, OwnSamples, IsActive
<1>5. SamplesRecorded'
  BY <1>1 DEF OwnedInv, SamplesRecorded
<1> QED BY <1>2, <1>3, <1>4, <1>5 DEF OwnedInv

\* The types of what these proofs are about.
LEMMA Shapes ==
  ASSUME TypeInv
  PROVE  /\ Nobody \notin People
         /\ db.owner \in [Tracks -> Owners] /\ db.people \in [People -> PersonRow]
         /\ db.home \in [Tracks -> Clusters \cup {NoCluster}] /\ db.links \subseteq Frames
         /\ \A q \in db.protos : q.key[2] \in Tracks /\ q.of \in People /\ q.key \in ProtoKeys
         /\ \A n \in Tokens : /\ log[n].person \in People /\ log[n].tracks \subseteq Tracks
                              /\ log[n].cluster \in Clusters
         /\ \A m \in Live : /\ log[m].source \in People /\ log[m].target \in People
                            /\ log[m].source # log[m].target
                            /\ log[m].tracks \subseteq Tracks
         /\ Live \subseteq Done /\ Tokens \subseteq Done /\ Done \subseteq Nat
<1>1. Nobody \notin People
  BY IdentityAssumption DEF Nobody, People
<1>2. /\ db.owner \in [Tracks -> Owners] /\ db.people \in [People -> PersonRow]
      /\ db.home \in [Tracks -> Clusters \cup {NoCluster}] /\ db.links \subseteq Frames
  BY RowsAre DEF TypeInv
<1>3. db.protos \subseteq [key : ProtoKeys, of : People]
  BY RowsAre DEF TypeInv
<1>4. \A q \in db.protos : q.key[2] \in Tracks /\ q.of \in People /\ q.key \in ProtoKeys
  BY <1>3 DEF ProtoKeys
<1>5. \A n \in Tokens \cup Live : n \in Done /\ EntryOK(log[n])
  BY DEF Tokens, Live, TypeInv, Done
<1>6. \A n \in Tokens : /\ log[n].person \in People /\ log[n].tracks \subseteq Tracks
                        /\ log[n].cluster \in Clusters
  BY <1>5 DEF Tokens, EntryOK
<1>7. \A m \in Live : /\ log[m].source \in People /\ log[m].target \in People
                      /\ log[m].source # log[m].target /\ log[m].tracks \subseteq Tracks
  BY <1>5 DEF Live, EntryOK
<1>8. Live \subseteq Done /\ Tokens \subseteq Done /\ Done \subseteq Nat
  BY DEF Live, Tokens, Done
<1> QED BY <1>1, <1>2, <1>4, <1>6, <1>7, <1>8

\* Who was merged by a merge that stands is not active, and the target exists.
LEMMA TreeFacts ==
  ASSUME TypeInv, TreeInv
  PROVE  /\ \A m \in Live : /\ ~IsActive(db, log[m].source)
                            /\ db.people[log[m].source] # NoPerson
                            /\ db.people[log[m].target].status # "none"
                            /\ IsActive(db, log[m].target) \/
                                 \E k \in Live : log[k].source = log[m].target
         /\ \A p \in People : IsActive(db, p) => db.people[p] = Active
<1>1. ASSUME NEW m \in Live
      PROVE  /\ ~IsActive(db, log[m].source)
             /\ db.people[log[m].source] # NoPerson
             /\ db.people[log[m].target].status # "none"
             /\ IsActive(db, log[m].target) \/
                  \E k \in Live : log[k].source = log[m].target
  <2>1. /\ log[m].source \in People /\ log[m].target \in People /\ Nobody \notin People
        /\ db.people \in [People -> PersonRow]
    BY Shapes
  <2>2. db.people[log[m].source] = MergedAway(log[m].target)
    BY DEF TreeInv, Held
  <2>3. /\ db.people[log[m].source].status = "merged"
        /\ db.people[log[m].source].into = log[m].target
    BY <2>2 DEF MergedAway
  <2>4. db.people[log[m].target].status # "none"
    BY <2>1, <2>3 DEF TreeInv, IntoExists
  <2>5. db.people[log[m].target].status \in {"active", "merged"}
    BY <2>1, <2>4 DEF PersonRow
  <2>6. IsActive(db, log[m].target) \/ \E k \in Live : log[k].source = log[m].target
    BY <2>1, <2>5 DEF IsActive, TreeInv, Held
  <2> QED BY <2>3, <2>4, <2>6 DEF IsActive, NoPerson
<1>2. ASSUME NEW p \in People, IsActive(db, p) PROVE db.people[p] = Active
  <2>1. db.people[p] \in PersonRow /\ db.people[p].status = "active"
    BY <1>2, Shapes DEF IsActive
  <2>2. db.people[p].into = Nobody
    BY <2>1 DEF TypeInv, MergedSayInto
  <2> QED BY <2>1, <2>2 DEF PersonRow, Active
<1> QED BY <1>1, <1>2

\* A person is created.
LEMMA TreeBorn ==
  ASSUME TypeInv, TreeInv, SameLog, Live' = Live, NEW p \in People,
         db.people[p] = NoPerson, db'.people = [db.people EXCEPT ![p] = Active]
  PROVE  TreeInv'
<1>1. /\ db.people \in [People -> PersonRow] /\ Nobody \notin People
      /\ \A m \in Live : log[m].source \in People
  BY Shapes
<1>2. \A q \in People \ {p} : db'.people[q] = db.people[q]
  BY <1>1
<1>3. db'.people[p] = Active
  BY <1>1
<1>4. \A n \in Live : log'[n] = log[n]
  BY DEF SameLog
<1>5. \A m \in Live : log[m].source # p
  BY TreeFacts
<1>6. IntoExists'
  <2>1. ASSUME NEW q \in People, db'.people[q].into # Nobody
        PROVE  db'.people[db'.people[q].into].status # "none"
    <3>1. q # p
      BY <1>3, <2>1 DEF Active
    <3>2. db'.people[q] = db.people[q] /\ db.people[q].into \in People
      BY <1>1, <1>2, <2>1, <3>1 DEF PersonRow, Owners
    <3>3. db.people[db.people[q].into].status # "none"
      BY <2>1, <3>2 DEF TreeInv, IntoExists
    <3>4. db.people[q].into # p
      BY <3>3 DEF NoPerson
    <3> QED BY <1>2, <3>2, <3>3, <3>4
  <2> QED BY <2>1 DEF IntoExists
<1>7. Held'
  <2>1. \A m \in Live : db'.people[log'[m].source] = MergedAway(log'[m].target)
    BY <1>1, <1>2, <1>4, <1>5 DEF TreeInv, Held
  <2>2. \A m, n \in Live : log'[m].source = log'[n].source => m = n
    BY <1>4 DEF TreeInv, Held
  <2>3. \A q \in People : db'.people[q].status = "merged" => \E m \in Live : log'[m].source = q
    BY <1>2, <1>3, <1>4 DEF TreeInv, Held, Active
  <2> QED BY <2>1, <2>2, <2>3 DEF Held
<1>8. Nested' /\ Siblings'
  BY <1>4 DEF TreeInv, Nested, Siblings
<1>9. Laid'
  BY <1>4 DEF TreeInv, Laid
<1> QED BY <1>6, <1>7, <1>8, <1>9 DEF TreeInv

-----------------------------------------------------------------------------
(* Tracks are given to a person, or taken back.                            *)

\* Tracks that are nobody's were moved by no merge and named by no label.
LEMMA Untouched ==
  ASSUME TypeInv, OwnedInv, NEW t \in Tracks, db.owner[t] = Nobody
  PROVE  /\ \A m \in Live : t \notin log[m].tracks
         /\ \A n \in Tokens : t \notin log[n].tracks
         /\ \A q \in db.protos : q.key[2] # t
<1>1. \A m \in Live : t \notin log[m].tracks
  BY DEF OwnedInv, MergedOwned
<1>2. \A n \in Tokens : t \notin log[n].tracks
  BY <1>1, Shapes DEF OwnedInv, First
<1>3. \A q \in db.protos : q.key[2] # t
  BY Shapes DEF OwnedInv, OwnSamples
<1> QED BY <1>1, <1>2, <1>3

\* The operation i, if it is one, that gave the tracks T to p.
TakenBy(i, T, p, N) ==
  /\ i \notin Live /\ i \notin Tokens
  /\ Tokens' \subseteq Tokens \cup {i} /\ Tokens \subseteq Tokens'
  /\ log'[i].tracks = T /\ log'[i].person = p
  /\ log'[i].kind = "assign" => /\ log'[i].owners = [t \in T |-> db.owner[t]]
                                /\ log'[i].protos = Keys(N)

\* Tracks without a person are given to p, with the prototypes N.
Takes(T, p, N) ==
  /\ T \subseteq Tracks /\ \A t \in T : db.owner[t] = Nobody
  /\ db'.owner = Moved(db.owner, T, p)
  /\ db'.protos = db.protos \cup N /\ \A q \in N : q.key[2] \in T /\ q.of = p
  /\ IsActive(db', p)
  /\ \A x \in People : x # p => (IsActive(db', x) <=> IsActive(db, x))
  /\ IsActive(db, p) \/ db.people[p] = NoPerson
  /\ SameLog /\ Live' = Live
  /\ Tokens' = Tokens \/ \E i : TakenBy(i, T, p, N)

\* Giving a person tracks that were nobody's keeps owners in order.
LEMMA OwnedTakes ==
  ASSUME TypeInv, TreeInv, OwnedInv, NEW T, NEW p \in People, NEW N, Takes(T, p, N)
  PROVE  OwnedInv'
<1>1. /\ Nobody \notin People /\ db.owner \in [Tracks -> Owners]
      /\ \A q \in db.protos : q.key[2] \in Tracks /\ q.of \in People
      /\ \A n \in Tokens : log[n].tracks \subseteq Tracks
      /\ \A m \in Live : log[m].tracks \subseteq Tracks /\ log[m].target \in People
  BY Shapes
<1>2. /\ \A t \in T : db'.owner[t] = p
      /\ \A t \in Tracks \ T : db'.owner[t] = db.owner[t]
  BY DEF Takes, Moved
<1>3. /\ \A m \in Live : log[m].tracks \cap T = {}
      /\ \A n \in Tokens : log[n].tracks \cap T = {}
      /\ \A q \in db.protos : q.key[2] \notin T
  BY Untouched DEF Takes
<1>4. /\ \A n \in Live : log'[n] = log[n]
      /\ \A n \in Tokens : log'[n] = log[n]
      /\ Live' = Live
  BY DEF Takes, SameLog
<1>5. \A x \in Tokens' : x \in Tokens \/ TakenBy(x, T, p, N)
  BY DEF Takes, TakenBy
<1>6. Kept'
  <2>1. ASSUME NEW m \in Live, IsActive(db', log[m].target), NEW u \in Tracks,
               u \in log[m].tracks
        PROVE  db'.owner[u] = log[m].target
    <3>1. IsActive(db, log[m].target)
      <4>1. log[m].target # p \/ IsActive(db, p)
        BY TreeFacts DEF Takes, NoPerson
      <4> QED BY <1>1, <2>1, <4>1 DEF Takes
    <3>2. db.owner[u] = log[m].target
      BY <2>1, <3>1 DEF OwnedInv, Kept
    <3> QED BY <1>2, <1>3, <2>1, <3>2
  <2> QED BY <1>4, <2>1 DEF Kept
<1>7. MergedOwned'
  BY <1>2, <1>3, <1>4 DEF MergedOwned, OwnedInv
<1>8. First'
  <2>1. ASSUME NEW n \in Tokens', NEW u \in Tracks, u \in log'[n].tracks
        PROVE  /\ \A m \in Live : u \in log'[m].tracks =>
                    \E k \in Live : /\ k <= m /\ log'[k].source = log'[n].person
                                    /\ u \in log'[k].tracks
               /\ (\A m \in Live : u \notin log'[m].tracks) => db'.owner[u] = log'[n].person
    <3>1. CASE n \in Tokens
      <4>1. log'[n] = log[n] /\ u \notin T
        BY <1>3, <1>4, <2>1, <3>1
      <4>2. db'.owner[u] = db.owner[u]
        BY <1>2, <4>1
      <4> QED BY <1>4, <2>1, <3>1, <4>1, <4>2 DEF OwnedInv, First
    <3>2. CASE TakenBy(n, T, p, N)
      <4>1. u \in T /\ log'[n].person = p
        BY <2>1, <3>2 DEF TakenBy
      <4> QED BY <1>2, <1>3, <1>4, <4>1
    <3> QED BY <1>5, <3>1, <3>2
  <2> QED BY <1>4, <2>1 DEF First
<1>9. Cleared'
  <2>1. ASSUME NEW n \in Tokens', log'[n].kind = "assign", NEW t \in log'[n].tracks
        PROVE  log'[n].owners[t] = Nobody
    <3>1. CASE n \in Tokens
      BY <1>4, <2>1, <3>1 DEF OwnedInv, Cleared
    <3>2. CASE TakenBy(n, T, p, N)
      <4>1. t \in T /\ log'[n].owners = [x \in T |-> db.owner[x]]
        BY <2>1, <3>2 DEF TakenBy
      <4> QED BY <4>1 DEF Takes
    <3> QED BY <1>5, <3>1, <3>2
  <2> QED BY <2>1 DEF Cleared
<1>10. OwnersActive'
  <2>1. ASSUME NEW t \in Tracks, db'.owner[t] # Nobody PROVE IsActive(db', db'.owner[t])
    <3>1. CASE t \in T
      BY <1>2, <3>1 DEF Takes
    <3>2. CASE t \notin T
      <4>1. db'.owner[t] = db.owner[t] /\ db.owner[t] \in People
        BY <1>1, <1>2, <2>1, <3>2 DEF Owners
      <4>2. IsActive(db, db.owner[t])
        BY <2>1, <4>1 DEF OwnedInv, OwnersActive
      <4> QED BY <4>1, <4>2 DEF Takes
    <3> QED BY <3>1, <3>2
  <2> QED BY <2>1 DEF OwnersActive
<1>11. OwnSamples'
  <2>1. ASSUME NEW q \in db'.protos PROVE db'.owner[q.key[2]] = q.of
    <3>1. CASE q \in db.protos
      BY <1>1, <1>2, <1>3, <3>1 DEF OwnedInv, OwnSamples
    <3>2. CASE q \in N
      BY <1>2, <3>2 DEF Takes
    <3> QED BY <3>1, <3>2 DEF Takes
  <2> QED BY <2>1 DEF OwnSamples
<1>12. SamplesRecorded'
  <2>1. ASSUME NEW n \in Tokens', log'[n].kind = "assign",
               NEW q \in db'.protos, q.key[2] \in log'[n].tracks
        PROVE  q.key \in log'[n].protos
    <3>1. CASE n \in Tokens
      <4>1. log'[n] = log[n] /\ q.key[2] \notin T
        BY <1>3, <1>4, <2>1, <3>1
      <4>2. q \in db.protos
        BY <4>1 DEF Takes
      <4> QED BY <2>1, <3>1, <4>1, <4>2 DEF OwnedInv, SamplesRecorded
    <3>2. CASE TakenBy(n, T, p, N)
      <4>1. q.key[2] \in T /\ log'[n].protos = Keys(N)
        BY <2>1, <3>2 DEF TakenBy
      <4>2. q \in N
        BY <1>3, <4>1 DEF Takes
      <4> QED BY <4>1, <4>2 DEF Keys
    <3> QED BY <1>5, <3>1, <3>2
  <2>2. ASSUME NEW m \in Live
        PROVE  /\ \A k \in log'[m].protos : k[2] \in log'[m].tracks
               /\ \A q \in db'.protos : q.key[2] \in log'[m].tracks => q.key \in log'[m].protos
    <3>1. log'[m] = log[m]
      BY <1>4
    <3>2. \A q \in db'.protos : q.key[2] \in log[m].tracks => q \in db.protos
      BY <1>3 DEF Takes
    <3> QED BY <3>1, <3>2 DEF OwnedInv, SamplesRecorded
  <2> QED BY <1>4, <2>1, <2>2 DEF SamplesRecorded
<1> QED BY <1>6, <1>7, <1>8, <1>9, <1>10, <1>11, <1>12 DEF OwnedInv

\* Two labels that stand are of two clusters, and so of different tracks.
LEMMA TokensApart ==
  ASSUME TypeInv, MarkInv, NEW m \in Tokens, NEW n \in Tokens, m # n
  PROVE  log[m].tracks \cap log[n].tracks = {} /\ log[m].cluster # log[n].cluster
<1>1. m \in Marks /\ n \in Marks
  BY TokensMark
<1>2. log[m].cluster # log[n].cluster
  BY <1>1 DEF MarkInv, OneMark
<1>3. /\ log[m].tracks = Members(db, log[m].cluster)
      /\ log[n].tracks = Members(db, log[n].cluster)
  BY DEF MarkInv, TokenTracks
<1> QED BY <1>2, <1>3 DEF Members

\* The tracks of a label whose person is active were moved by no merge that stands.
LEMMA TokenUnmoved ==
  ASSUME TypeInv, TreeInv, OwnedInv, NEW n \in Tokens, IsActive(db, log[n].person),
         NEW m \in Live
  PROVE  log[m].tracks \cap log[n].tracks = {}
<1>1. \A u \in Tracks : u \in log[n].tracks => u \notin log[m].tracks
  BY TreeFacts DEF OwnedInv, First
<1> QED BY <1>1, Shapes

\* The tracks of the label n become nobody's.
Releases(n) ==
  /\ n \in Tokens /\ IsActive(db, log[n].person)
  /\ log[n].tracks \subseteq Owned(db, log[n].person)
  /\ db'.owner = Moved(db.owner, log[n].tracks, Nobody)
  /\ db'.protos \subseteq db.protos
  /\ \A q \in db'.protos : q.key[2] \notin log[n].tracks
  /\ \A x \in People : IsActive(db', x) => IsActive(db, x)
  /\ \A x \in People : IsActive(db, x) /\ x # log[n].person => IsActive(db', x)
  /\ IsActive(db', log[n].person) \/
       \A t \in Tracks : db'.owner[t] # log[n].person
  /\ SameLog /\ Live' = Live /\ Tokens' = Tokens \ {n}

\* Taking the tracks of a label back keeps owners in order.
LEMMA OwnedReleases ==
  ASSUME TypeInv, MarkInv, TreeInv, OwnedInv, NEW n, Releases(n)
  PROVE  OwnedInv'
<1> DEFINE T == log[n].tracks
           p == log[n].person
<1>1. /\ Nobody \notin People /\ db.owner \in [Tracks -> Owners]
      /\ \A q \in db.protos : q.key[2] \in Tracks /\ q.of \in People
      /\ \A m \in Tokens : log[m].tracks \subseteq Tracks
      /\ \A m \in Live : log[m].tracks \subseteq Tracks /\ log[m].target \in People
  BY Shapes
<1>2. /\ \A t \in T : t \in Tracks => db'.owner[t] = Nobody
      /\ \A t \in Tracks \ T : db'.owner[t] = db.owner[t]
  BY DEF Releases, Moved
<1>3. /\ \A m \in Live : log[m].tracks \cap T = {}
      /\ \A m \in Tokens' : log[m].tracks \cap T = {}
  BY TokenUnmoved, TokensApart DEF Releases
<1>4. /\ \A m \in Live : log'[m] = log[m]
      /\ \A m \in Tokens' : m \in Tokens /\ log'[m] = log[m]
      /\ Live' = Live
  BY DEF Releases, SameLog
<1>5. \A q \in db'.protos : q \in db.protos /\ q.key[2] \in Tracks \ T
  BY <1>1 DEF Releases
<1> HIDE DEF T
<1>6. Kept'
  <2>1. ASSUME NEW m \in Live, IsActive(db', log[m].target), NEW u \in Tracks,
               u \in log[m].tracks
        PROVE  db'.owner[u] = log[m].target
    <3>1. IsActive(db, log[m].target)
      BY <1>1, <2>1 DEF Releases
    <3>2. db.owner[u] = log[m].target
      BY <2>1, <3>1 DEF OwnedInv, Kept
    <3> QED BY <1>2, <1>3, <2>1, <3>2
  <2> QED BY <1>4, <2>1 DEF Kept
<1>7. MergedOwned'
  BY <1>2, <1>3, <1>4 DEF MergedOwned, OwnedInv
<1>8. First'
  <2>1. ASSUME NEW x \in Tokens', NEW u \in Tracks, u \in log'[x].tracks
        PROVE  /\ \A m \in Live : u \in log'[m].tracks =>
                    \E k \in Live : /\ k <= m /\ log'[k].source = log'[x].person
                                    /\ u \in log'[k].tracks
               /\ (\A m \in Live : u \notin log'[m].tracks) => db'.owner[u] = log'[x].person
    <3>1. x \in Tokens /\ log'[x] = log[x] /\ u \notin T
      BY <1>3, <1>4, <2>1
    <3>2. db'.owner[u] = db.owner[u]
      BY <1>2, <3>1
    <3>3. /\ \A m \in Live : u \in log[m].tracks =>
               \E k \in Live : k <= m /\ log[k].source = log[x].person /\ u \in log[k].tracks
          /\ (\A m \in Live : u \notin log[m].tracks) => db.owner[u] = log[x].person
      BY <2>1, <3>1 DEF OwnedInv, First
    <3>4. \A m \in Live : log'[m] = log[m]
      BY <1>4
    <3> QED BY <3>1, <3>2, <3>3, <3>4
  <2> QED BY <1>4, <2>1 DEF First
<1>9. Cleared'
  BY <1>4 DEF OwnedInv, Cleared
<1>10. OwnersActive'
  <2>1. ASSUME NEW t \in Tracks, db'.owner[t] # Nobody PROVE IsActive(db', db'.owner[t])
    <3>1. t \notin T
      BY <1>2, <2>1
    <3>2. db'.owner[t] = db.owner[t] /\ db.owner[t] \in People
      BY <1>1, <1>2, <2>1, <3>1 DEF Owners
    <3>3. IsActive(db, db.owner[t])
      BY <2>1, <3>2 DEF OwnedInv, OwnersActive
    <3> QED BY <3>2, <3>3 DEF Releases
  <2> QED BY <2>1 DEF OwnersActive
<1>11. OwnSamples'
  BY <1>2, <1>5 DEF OwnedInv, OwnSamples
<1>12. SamplesRecorded'
  BY <1>4, <1>5 DEF OwnedInv, SamplesRecorded
<1> QED BY <1>6, <1>7, <1>8, <1>9, <1>10, <1>11, <1>12 DEF OwnedInv

\* A person who is active is deleted.
LEMMA TreeDeleted ==
  ASSUME TypeInv, TreeInv, SameLog, Live' = Live, NEW p \in People, IsActive(db, p),
         db'.people = [db.people EXCEPT ![p] = NoPerson], Sound(db')
  PROVE  TreeInv'
<1>1. /\ db.people \in [People -> PersonRow]
      /\ \A m \in Live : log[m].source \in People
  BY Shapes
<1>2. (\A q \in People \ {p} : db'.people[q] = db.people[q]) /\ db'.people[p] = NoPerson
  BY <1>1
<1>3. \A n \in Live : log'[n] = log[n]
  BY DEF SameLog
<1>4. \A m \in Live : log[m].source # p
  BY TreeFacts
<1>5. IntoExists'
  BY DEF Sound, IntoExists
<1>6. Held'
  <2>1. \A m \in Live : db'.people[log'[m].source] = MergedAway(log'[m].target)
    BY <1>1, <1>2, <1>3, <1>4 DEF TreeInv, Held
  <2>2. \A m, n \in Live : log'[m].source = log'[n].source => m = n
    BY <1>3 DEF TreeInv, Held
  <2>3. \A q \in People : db'.people[q].status = "merged" => \E m \in Live : log'[m].source = q
    BY <1>2, <1>3 DEF TreeInv, Held, NoPerson
  <2> QED BY <2>1, <2>2, <2>3 DEF Held
<1>7. Nested' /\ Siblings'
  BY <1>3 DEF TreeInv, Nested, Siblings
<1>8. Laid'
  BY <1>3 DEF TreeInv, Laid
<1> QED BY <1>5, <1>6, <1>7, <1>8 DEF TreeInv

-----------------------------------------------------------------------------
(* People are merged, and the merge is undone.                             *)

\* The operation i moved everything of s, who was merged into t.
Moves(i, s, t) ==
  /\ IsActive(db, s) /\ IsActive(db, t) /\ s # t
  /\ Live' = Live \cup {i} /\ i \notin Live /\ Tokens' = Tokens /\ SameLog
  /\ \A m \in Live : m < i
  /\ i \in Nat
  /\ log'[i].source = s /\ log'[i].target = t
  /\ log'[i].tracks = Owned(db, s) /\ log'[i].protos = Keys(ProtosOf(db, s))
  /\ db'.people = [db.people EXCEPT ![s] = MergedAway(t)]
  /\ db'.owner = Moved(db.owner, Owned(db, s), t)
  /\ db'.protos = Given(db.protos, Keys(ProtosOf(db, s)), t)

\* A merge changes the row of its source alone, whom no merge had moved before.
LEMMA PeopleMoved ==
  ASSUME TypeInv, TreeInv, NEW i, NEW s \in People, NEW t \in People, Moves(i, s, t)
  PROVE  /\ \A x \in People \ {s} : db'.people[x] = db.people[x]
         /\ db'.people[s] = MergedAway(t)
         /\ \A m \in Live : log[m].source # s /\ log[m].source # t
         /\ \A m \in Live : log'[m] = log[m]
<1>1. db.people \in [People -> PersonRow]
  BY Shapes
<1>2. \A m \in Live : log[m].source # s /\ log[m].source # t
  BY TreeFacts DEF Moves
<1> QED BY <1>1, <1>2 DEF Moves, SameLog

\* A merge of people keeps the tree of merges.
LEMMA TreeMoves ==
  ASSUME TypeInv, TreeInv, OwnedInv, NEW i, NEW s \in People, NEW t \in People,
         Moves(i, s, t)
  PROVE  TreeInv'
<1>1. /\ Nobody \notin People /\ db.people \in [People -> PersonRow]
      /\ \A m \in Live : /\ log[m].source \in People /\ log[m].target \in People
                         /\ log[m].tracks \subseteq Tracks
      /\ Live \subseteq Nat
  BY Shapes
<1>2. /\ \A x \in People \ {s} : db'.people[x] = db.people[x]
      /\ db'.people[s] = MergedAway(t)
      /\ \A m \in Live : log[m].source # s /\ log[m].source # t
      /\ \A m \in Live : log'[m] = log[m]
  BY PeopleMoved
<1>3. /\ Live' = Live \cup {i} /\ i \notin Live /\ s # t /\ \A m \in Live : m < i
      /\ log'[i].source = s /\ log'[i].target = t /\ log'[i].tracks = Owned(db, s)
      /\ i \in Nat
  BY DEF Moves
<1>4. \A x \in People : db.people[x].status # "none" => db'.people[x].status # "none"
  BY <1>2 DEF MergedAway
<1>5. IntoExists'
  <2>1. ASSUME NEW x \in People, db'.people[x].into # Nobody
        PROVE  db'.people[db'.people[x].into].status # "none"
    <3>1. CASE x = s
      BY <1>2, <1>4, <3>1 DEF MergedAway, Moves, IsActive
    <3>2. CASE x # s
      <4>1. db'.people[x] = db.people[x] /\ db.people[x].into \in People
        BY <1>1, <1>2, <2>1, <3>2 DEF PersonRow, Owners
      <4> QED BY <1>4, <2>1, <4>1 DEF TreeInv, IntoExists
    <3> QED BY <3>1, <3>2
  <2> QED BY <2>1 DEF IntoExists
<1>6. Held'
  <2>1. \A m \in Live' : db'.people[log'[m].source] = MergedAway(log'[m].target)
    BY <1>1, <1>2, <1>3 DEF TreeInv, Held
  <2>2. \A m, n \in Live' : log'[m].source = log'[n].source => m = n
    BY <1>2, <1>3 DEF TreeInv, Held
  <2>3. ASSUME NEW x \in People, db'.people[x].status = "merged"
        PROVE  \E m \in Live' : log'[m].source = x
    <3>1. CASE x = s
      BY <1>3, <3>1
    <3>2. CASE x # s
      <4>1. PICK m \in Live : log[m].source = x
        BY <1>2, <2>3, <3>2 DEF TreeInv, Held
      <4> QED BY <1>2, <1>3, <4>1
    <3> QED BY <3>1, <3>2
  <2> QED BY <2>1, <2>2, <2>3 DEF Held
<1>7. \A m \in Live : log[m].target = s => log[m].tracks \subseteq Owned(db, s)
  BY <1>1 DEF OwnedInv, Kept, Moves, Owned
<1>8. \A m \in Live : log[m].target = t => log[m].tracks \subseteq Owned(db, t)
  BY <1>1 DEF OwnedInv, Kept, Moves, Owned
<1>9. Owned(db, s) \cap Owned(db, t) = {}
  BY <1>3 DEF Owned
<1>10. Nested'
  <2>1. ASSUME NEW m \in Live', NEW n \in Live', log'[n].source = log'[m].target
        PROVE  log'[m].tracks \subseteq log'[n].tracks
    <3>1. CASE m \in Live /\ n \in Live
      BY <1>2, <2>1, <3>1 DEF TreeInv, Nested
    <3>2. CASE m \in Live /\ n = i
      BY <1>2, <1>3, <1>7, <2>1, <3>2
    <3>3. CASE m = i
      BY <1>2, <1>3, <2>1, <3>3
    <3> QED BY <1>3, <3>1, <3>2, <3>3
  <2> QED BY <2>1 DEF Nested
<1>11. Siblings'
  <2>1. ASSUME NEW m \in Live', NEW n \in Live', log'[n].target = log'[m].target, m # n
        PROVE  log'[m].tracks \cap log'[n].tracks = {}
    <3>1. CASE m \in Live /\ n \in Live
      BY <1>2, <2>1, <3>1 DEF TreeInv, Siblings
    <3>2. CASE m \in Live /\ n = i
      BY <1>2, <1>3, <1>8, <1>9, <2>1, <3>2
    <3>3. CASE m = i /\ n \in Live
      BY <1>2, <1>3, <1>8, <1>9, <2>1, <3>3
    <3> QED BY <1>3, <2>1, <3>1, <3>2, <3>3
  <2> QED BY <2>1 DEF Siblings
<1>12. Laid'
  <2>1. ASSUME NEW m \in Live', NEW n \in Live', m < n,
               log'[m].tracks \cap log'[n].tracks # {}
        PROVE  \E k \in Live' : k <= n /\ log'[k].source = log'[m].target
    <3>1. CASE m \in Live /\ n \in Live
      BY <1>2, <1>3, <2>1, <3>1 DEF TreeInv, Laid
    <3>2. CASE m \in Live /\ n = i
      <4>1. PICK u \in Tracks : u \in log[m].tracks /\ db.owner[u] = s
        BY <1>1, <1>2, <1>3, <2>1, <3>2 DEF Owned
      <4>2. CASE IsActive(db, log[m].target)
        <5>1. log[m].target = s
          BY <3>2, <4>1, <4>2 DEF OwnedInv, Kept
        <5>2. i <= n
          BY <1>3, <3>2
        <5> QED BY <1>2, <1>3, <3>2, <5>1, <5>2
      <4>3. CASE ~IsActive(db, log[m].target)
        <5>1. PICK k \in Live : log[k].source = log[m].target
          BY <3>2, <4>3, TreeFacts
        <5>2. k <= n
          BY <1>1, <1>3, <3>2, <5>1
        <5> QED BY <1>2, <1>3, <3>2, <5>1, <5>2
      <4> QED BY <4>2, <4>3
    <3>3. CASE m = i
      BY <1>1, <1>3, <2>1, <3>3
    <3> QED BY <1>3, <3>1, <3>2, <3>3
  <2> QED BY <2>1 DEF Laid
<1> QED BY <1>5, <1>6, <1>10, <1>11, <1>12 DEF TreeInv

\* Where the rows that were given came from.
LEMMA GivenElement ==
  ASSUME NEW S \in SUBSET [key : ProtoKeys, of : People], NEW K, NEW p \in People,
         NEW q \in Given(S, K, p)
  PROVE  \E x \in S : /\ q.key = x.key
                      /\ IF x.key \in K THEN q.of = p ELSE q.of = x.of
<1>1. PICK x \in S : q = IF x.key \in K THEN [x EXCEPT !.of = p] ELSE x
  BY DEF Given
<1>2. [x EXCEPT !.of = p].key = x.key /\ [x EXCEPT !.of = p].of = p
  OBVIOUS
<1> QED BY <1>1, <1>2

\* A merge of people keeps owners in order.
LEMMA OwnedMoves ==
  ASSUME TypeInv, TreeInv, OwnedInv, NEW i, NEW s \in People, NEW t \in People,
         Moves(i, s, t)
  PROVE  OwnedInv'
<1> DEFINE S == Owned(db, s)
<1>1. /\ Nobody \notin People /\ db.owner \in [Tracks -> Owners]
      /\ \A q \in db.protos : q.key[2] \in Tracks /\ q.of \in People
      /\ \A n \in Tokens : log[n].tracks \subseteq Tracks /\ log[n].person \in People
      /\ \A m \in Live : log[m].tracks \subseteq Tracks /\ log[m].target \in People
      /\ Live \subseteq Nat
  BY Shapes
<1>2. /\ \A x \in People \ {s} : IsActive(db', x) <=> IsActive(db, x)
      /\ ~IsActive(db', s)
      /\ \A m \in Live : log'[m] = log[m]
  <2>1. /\ \A x \in People \ {s} : db'.people[x] = db.people[x]
        /\ db'.people[s] = MergedAway(t)
        /\ \A m \in Live : log[m].source # s /\ log[m].source # t
        /\ \A m \in Live : log'[m] = log[m]
    BY PeopleMoved
  <2> QED BY <2>1 DEF IsActive, MergedAway
<1>3. /\ Live' = Live \cup {i} /\ i \notin Live /\ s # t /\ \A m \in Live : m < i
      /\ log'[i].source = s /\ log'[i].target = t /\ log'[i].tracks = S
      /\ log'[i].protos = Keys(ProtosOf(db, s)) /\ IsActive(db, t)
      /\ Tokens' = Tokens /\ \A n \in Tokens : log'[n] = log[n]
      /\ i \in Nat
  BY DEF Moves, SameLog
<1>4. /\ \A u \in Tracks : u \in S <=> db.owner[u] = s
      /\ \A u \in S : db'.owner[u] = t
      /\ \A u \in Tracks \ S : db'.owner[u] = db.owner[u]
      /\ S \subseteq Tracks
  BY DEF Moves, Moved, Owned
<1>5. ASSUME NEW q \in db'.protos
      PROVE  \E x \in db.protos : /\ q.key = x.key
                                  /\ IF db.owner[x.key[2]] = s THEN q.of = t /\ x.of = s
                                                               ELSE q.of = x.of
  <2>1. db.protos \in SUBSET [key : ProtoKeys, of : People]
    BY RowsAre DEF TypeInv
  <2>2. PICK x \in db.protos : /\ q.key = x.key
                               /\ IF x.key \in Keys(ProtosOf(db, s)) THEN q.of = t
                                                                     ELSE q.of = x.of
    BY <1>5, <2>1, GivenElement DEF Moves
  <2>3. x.key \in Keys(ProtosOf(db, s)) <=> db.owner[x.key[2]] = s
    BY DEF Keys, ProtosOf, OwnedInv, OwnSamples
  <2>4. db.owner[x.key[2]] = x.of
    BY DEF OwnedInv, OwnSamples
  <2> QED BY <2>2, <2>3, <2>4
<1> HIDE DEF S
<1>6. Kept'
  <2>1. ASSUME NEW m \in Live', IsActive(db', log'[m].target), NEW u \in Tracks,
               u \in log'[m].tracks
        PROVE  db'.owner[u] = log'[m].target
    <3>1. CASE m \in Live
      <4>1. log[m].target # s /\ IsActive(db, log[m].target) /\ u \in log[m].tracks
        BY <1>1, <1>2, <2>1, <3>1
      <4>2. db.owner[u] = log[m].target
        BY <3>1, <4>1 DEF OwnedInv, Kept
      <4> QED BY <1>2, <1>4, <3>1, <4>1, <4>2
    <3>2. CASE m = i
      BY <1>3, <1>4, <2>1, <3>2
    <3> QED BY <1>3, <3>1, <3>2
  <2> QED BY <2>1 DEF Kept
<1>7. MergedOwned'
  <2>1. ASSUME NEW m \in Live', NEW u \in Tracks, u \in log'[m].tracks
        PROVE  db'.owner[u] # Nobody
    <3>1. CASE u \in S
      BY <1>1, <1>4, <3>1
    <3>2. CASE u \notin S
      <4>1. m \in Live /\ u \in log[m].tracks
        BY <1>2, <1>3, <2>1, <3>2
      <4> QED BY <1>4, <3>2, <4>1 DEF OwnedInv, MergedOwned
    <3> QED BY <3>1, <3>2
  <2> QED BY <2>1 DEF MergedOwned
<1>8. First'
  <2>1. ASSUME NEW n \in Tokens, NEW u \in Tracks, u \in log[n].tracks
        PROVE  /\ \A m \in Live' : u \in log'[m].tracks =>
                    \E k \in Live' : /\ k <= m /\ log'[k].source = log[n].person
                                     /\ u \in log'[k].tracks
               /\ (\A m \in Live' : u \notin log'[m].tracks) => db'.owner[u] = log[n].person
    <3>1. /\ \A m \in Live : u \in log[m].tracks =>
               \E k \in Live : k <= m /\ log[k].source = log[n].person /\ u \in log[k].tracks
          /\ (\A m \in Live : u \notin log[m].tracks) => db.owner[u] = log[n].person
      BY <2>1 DEF OwnedInv, First
    <3>2. ASSUME NEW m \in Live', u \in log'[m].tracks
          PROVE  \E k \in Live' : /\ k <= m /\ log'[k].source = log[n].person
                                  /\ u \in log'[k].tracks
      <4>1. CASE m \in Live
        <5>1. PICK k \in Live : k <= m /\ log[k].source = log[n].person /\ u \in log[k].tracks
          BY <1>2, <3>1, <3>2, <4>1
        <5> QED BY <1>2, <1>3, <5>1
      <4>2. CASE m = i
        <5>1. u \in S /\ db.owner[u] = s
          BY <1>3, <1>4, <3>2, <4>2
        <5>2. CASE \A x \in Live : u \notin log[x].tracks
          <6>1. log[n].person = s
            BY <3>1, <5>1, <5>2
          <6> QED BY <1>3, <4>2, <5>1, <6>1
        <5>3. CASE \E x \in Live : u \in log[x].tracks
          <6>1. PICK k \in Live : log[k].source = log[n].person /\ u \in log[k].tracks
            BY <3>1, <5>3
          <6>2. k <= m /\ log'[k] = log[k]
            BY <1>1, <1>2, <1>3, <4>2, <6>1
          <6> QED BY <1>3, <6>1, <6>2
        <5> QED BY <5>2, <5>3
      <4> QED BY <1>3, <3>2, <4>1, <4>2
    <3>3. ASSUME \A m \in Live' : u \notin log'[m].tracks PROVE db'.owner[u] = log[n].person
      <4>1. u \notin S /\ \A m \in Live : u \notin log[m].tracks
        BY <1>2, <1>3, <3>3
      <4> QED BY <1>4, <3>1, <4>1
    <3> QED BY <3>2, <3>3
  <2> QED BY <1>3, <2>1 DEF First
<1>9. Cleared'
  BY <1>3 DEF OwnedInv, Cleared
<1>10. OwnersActive'
  <2>1. ASSUME NEW u \in Tracks, db'.owner[u] # Nobody PROVE IsActive(db', db'.owner[u])
    <3>1. CASE u \in S
      BY <1>2, <1>3, <1>4, <3>1
    <3>2. CASE u \notin S
      <4>1. db'.owner[u] = db.owner[u] /\ db.owner[u] \in People /\ db.owner[u] # s
        BY <1>1, <1>4, <2>1, <3>2 DEF Owners
      <4>2. IsActive(db, db.owner[u])
        BY <2>1, <4>1 DEF OwnedInv, OwnersActive
      <4> QED BY <1>2, <4>1, <4>2
    <3> QED BY <3>1, <3>2
  <2> QED BY <2>1 DEF OwnersActive
<1>11. OwnSamples'
  <2>1. ASSUME NEW q \in db'.protos PROVE db'.owner[q.key[2]] = q.of
    <3>1. PICK x \in db.protos : /\ q.key = x.key
                                 /\ IF db.owner[x.key[2]] = s THEN q.of = t /\ x.of = s
                                                              ELSE q.of = x.of
      BY <1>5, <2>1
    <3>2. x.key[2] \in Tracks /\ db.owner[x.key[2]] = x.of
      BY <1>1 DEF OwnedInv, OwnSamples
    <3> QED BY <1>4, <3>1, <3>2
  <2> QED BY <2>1 DEF OwnSamples
<1>12. SamplesRecorded'
  <2>1. \A q \in db'.protos : \E x \in db.protos : q.key = x.key
    BY <1>5
  <2>2. ASSUME NEW n \in Tokens, log[n].kind = "assign",
               NEW q \in db'.protos, q.key[2] \in log[n].tracks
        PROVE  q.key \in log[n].protos
    BY <2>1, <2>2 DEF OwnedInv, SamplesRecorded
  <2>3. ASSUME NEW m \in Live'
        PROVE  /\ \A k \in log'[m].protos : k[2] \in log'[m].tracks
               /\ \A q \in db'.protos : q.key[2] \in log'[m].tracks => q.key \in log'[m].protos
    <3>1. CASE m \in Live
      BY <1>2, <2>1, <3>1 DEF OwnedInv, SamplesRecorded
    <3>2. CASE m = i
      <4>1. \A k \in Keys(ProtosOf(db, s)) : k[2] \in S
        BY <1>1, <1>4 DEF Keys, ProtosOf, OwnedInv, OwnSamples
      <4>2. ASSUME NEW q \in db'.protos, q.key[2] \in S PROVE q.key \in Keys(ProtosOf(db, s))
        <5>1. PICK x \in db.protos : /\ q.key = x.key
                                     /\ IF db.owner[x.key[2]] = s THEN q.of = t /\ x.of = s
                                                                  ELSE q.of = x.of
          BY <1>5, <4>2
        <5>2. x.of = s
          BY <1>4, <4>2, <5>1
        <5> QED BY <5>1, <5>2 DEF Keys, ProtosOf
      <4> QED BY <1>3, <3>2, <4>1, <4>2
    <3> QED BY <1>3, <3>1, <3>2
  <2> QED BY <1>3, <2>2, <2>3 DEF SamplesRecorded
<1> QED BY <1>6, <1>7, <1>8, <1>9, <1>10, <1>11, <1>12 DEF OwnedInv

\* The merge n is undone, and its target was not merged itself.
Returns(n) ==
  /\ n \in Live /\ \A m \in Live : log[m].source # log[n].target
  /\ Live' = Live \ {n} /\ Tokens' = Tokens /\ SameLog
  /\ db'.people = [db.people EXCEPT ![log[n].source] = Active]
  /\ db'.owner = Moved(db.owner, log[n].tracks, log[n].source)
  /\ db'.protos = Given(db.protos, log[n].protos, log[n].source)
  /\ Sound(db')

\* The undo of a merge whose target was not merged: no later merge moved its tracks.
LEMMA Returning ==
  ASSUME TypeInv, TreeInv, NEW n, Returns(n)
  PROVE  /\ n \in Live /\ IsActive(db, log[n].target) /\ log[n].source \in People
         /\ log[n].source # log[n].target
         /\ \A x \in People \ {log[n].source} : db'.people[x] = db.people[x]
         /\ db'.people[log[n].source] = Active
         /\ Live' = Live \ {n}
         /\ \A m \in Live : log'[m] = log[m]
         /\ \A m \in Live : n < m => log[n].tracks \cap log[m].tracks = {}
<1>1. /\ n \in Live /\ \A m \in Live : log[m].source # log[n].target
      /\ Live' = Live \ {n} /\ SameLog
      /\ db'.people = [db.people EXCEPT ![log[n].source] = Active]
  BY DEF Returns
<1>2. IsActive(db, log[n].target)
  BY <1>1, TreeFacts
<1>3. /\ db.people \in [People -> PersonRow] /\ log[n].source \in People
      /\ log[n].source # log[n].target
  BY <1>1, Shapes
<1>4. \A m \in Live : n < m => log[n].tracks \cap log[m].tracks = {}
  BY <1>1 DEF TreeInv, Laid
<1> QED BY <1>1, <1>2, <1>3, <1>4 DEF SameLog

\* Such an undo keeps the tree of merges.
LEMMA TreeReturns ==
  ASSUME TypeInv, TreeInv, NEW n, Returns(n)
  PROVE  TreeInv'
<1> DEFINE s == log[n].source
<1>1. /\ n \in Live /\ s \in People
      /\ \A x \in People \ {s} : db'.people[x] = db.people[x]
      /\ db'.people[s] = Active
      /\ Live' = Live \ {n}
      /\ \A m \in Live : log'[m] = log[m]
      /\ \A m \in Live : n < m => log[n].tracks \cap log[m].tracks = {}
  BY Returning
<1>2. \A m \in Live : log[m].source \in People /\ m \in Nat
  BY Shapes
<1>3. \A m \in Live : m # n => log[m].source # s
  BY <1>1 DEF TreeInv, Held
<1> HIDE DEF s
<1>4. IntoExists'
  BY DEF Returns, Sound, IntoExists
<1>5. Held'
  <2>1. \A m \in Live' : db'.people[log'[m].source] = MergedAway(log'[m].target)
    BY <1>1, <1>2, <1>3 DEF TreeInv, Held
  <2>2. \A m, k \in Live' : log'[m].source = log'[k].source => m = k
    BY <1>1 DEF TreeInv, Held
  <2>3. ASSUME NEW x \in People, db'.people[x].status = "merged"
        PROVE  \E m \in Live' : log'[m].source = x
    <3>1. x # s
      BY <1>1, <2>3 DEF Active
    <3>2. PICK m \in Live : log[m].source = x
      BY <1>1, <2>3, <3>1 DEF TreeInv, Held
    <3> QED BY <1>1, <3>1, <3>2 DEF s
  <2> QED BY <2>1, <2>2, <2>3 DEF Held
<1>6. Nested' /\ Siblings'
  BY <1>1 DEF TreeInv, Nested, Siblings
<1>7. Laid'
  <2>1. ASSUME NEW m \in Live', NEW x \in Live', m < x,
               log'[m].tracks \cap log'[x].tracks # {}
        PROVE  \E k \in Live' : k <= x /\ log'[k].source = log'[m].target
    <3>1. PICK k \in Live : k <= x /\ log[k].source = log[m].target
      BY <1>1, <2>1 DEF TreeInv, Laid
    <3>2. k # n
      <4>1. SUFFICES ASSUME k = n PROVE FALSE
        OBVIOUS
      <4>2. log[m].tracks \subseteq log[n].tracks
        BY <1>1, <3>1, <4>1 DEF TreeInv, Nested
      <4>3. n < x /\ x \in Live
        BY <1>1, <1>2, <3>1, <4>1
      <4>4. log[m].tracks \cap log[x].tracks # {}
        BY <1>1, <2>1
      <4> QED BY <1>1, <4>2, <4>3, <4>4
    <3> QED BY <1>1, <3>1, <3>2
  <2> QED BY <2>1 DEF Laid
<1> QED BY <1>4, <1>5, <1>6, <1>7 DEF TreeInv

\* Such an undo keeps owners in order.
LEMMA OwnedReturns ==
  ASSUME TypeInv, TreeInv, OwnedInv, NEW n, Returns(n)
  PROVE  OwnedInv'
<1> DEFINE s == log[n].source
           t == log[n].target
           T == log[n].tracks
<1>1. /\ n \in Live /\ IsActive(db, t) /\ s \in People /\ s # t
      /\ \A x \in People \ {s} : db'.people[x] = db.people[x]
      /\ db'.people[s] = Active
      /\ Live' = Live \ {n}
      /\ \A m \in Live : log'[m] = log[m]
      /\ \A m \in Live : n < m => T \cap log[m].tracks = {}
  BY Returning
<1>2. /\ Nobody \notin People /\ db.owner \in [Tracks -> Owners]
      /\ \A q \in db.protos : q.key[2] \in Tracks /\ q.of \in People
      /\ \A x \in Tokens : log[x].tracks \subseteq Tracks /\ log[x].person \in People
      /\ \A m \in Live : /\ log[m].tracks \subseteq Tracks /\ log[m].target \in People
                         /\ m \in Nat
  BY Shapes
<1>3. /\ Tokens' = Tokens /\ \A x \in Tokens : log'[x] = log[x]
      /\ \A x \in People : IsActive(db, x) => IsActive(db', x)
      /\ \A x \in People \ {s} : IsActive(db', x) => IsActive(db, x)
      /\ IsActive(db', s)
  BY <1>1 DEF Returns, SameLog, IsActive, Active
<1>4. /\ \A u \in T : u \in Tracks => db'.owner[u] = s
      /\ \A u \in Tracks \ T : db'.owner[u] = db.owner[u]
  BY DEF Returns, Moved
<1>5. \A u \in T : u \in Tracks => db.owner[u] = t
  BY <1>1 DEF OwnedInv, Kept
<1>6. /\ \A k \in log[n].protos : k[2] \in T
      /\ \A q \in db.protos : q.key[2] \in T => q.key \in log[n].protos
  BY <1>1 DEF OwnedInv, SamplesRecorded
<1>7. ASSUME NEW q \in db'.protos
      PROVE  \E x \in db.protos : /\ q.key = x.key
                                  /\ IF x.key[2] \in T THEN q.of = s ELSE q.of = x.of
  <2>1. db.protos \in SUBSET [key : ProtoKeys, of : People]
    BY RowsAre DEF TypeInv
  <2>2. PICK x \in db.protos : /\ q.key = x.key
                               /\ IF x.key \in log[n].protos THEN q.of = s ELSE q.of = x.of
    BY <1>1, <1>7, <2>1, GivenElement DEF Returns
  <2> QED BY <1>6, <2>2
<1>8. /\ \A m \in Live : m # n /\ log[m].target = t => log[m].tracks \cap T = {}
      /\ \A m \in Live : log[m].target = s => log[m].tracks \subseteq T
  BY <1>1 DEF TreeInv, Siblings, Nested
<1> HIDE DEF s, t, T
<1>9. Kept'
  <2>1. ASSUME NEW m \in Live', IsActive(db', log[m].target), NEW u \in Tracks,
               u \in log[m].tracks
        PROVE  db'.owner[u] = log[m].target
    <3>1. CASE log[m].target = s
      BY <1>1, <1>4, <1>8, <2>1, <3>1
    <3>2. CASE log[m].target # s
      <4>1. IsActive(db, log[m].target) /\ m \in Live /\ m # n
        BY <1>1, <1>2, <1>3, <2>1, <3>2
      <4>2. db.owner[u] = log[m].target
        BY <2>1, <4>1 DEF OwnedInv, Kept
      <4>3. u \notin T
        BY <1>5, <1>8, <2>1, <4>1, <4>2
      <4> QED BY <1>4, <4>2, <4>3
    <3> QED BY <3>1, <3>2
  <2>2. \A m \in Live' : log'[m] = log[m]
    BY <1>1
  <2> QED BY <2>1, <2>2 DEF Kept
<1>10. MergedOwned'
  BY <1>1, <1>2, <1>4 DEF OwnedInv, MergedOwned
<1>11. First'
  <2>1. ASSUME NEW x \in Tokens, NEW u \in Tracks, u \in log[x].tracks
        PROVE  /\ \A m \in Live' : u \in log'[m].tracks =>
                    \E k \in Live' : /\ k <= m /\ log'[k].source = log[x].person
                                     /\ u \in log'[k].tracks
               /\ (\A m \in Live' : u \notin log'[m].tracks) => db'.owner[u] = log[x].person
    <3>1. /\ \A m \in Live : u \in log[m].tracks =>
               \E k \in Live : k <= m /\ log[k].source = log[x].person /\ u \in log[k].tracks
          /\ (\A m \in Live : u \notin log[m].tracks) => db.owner[u] = log[x].person
      BY <2>1 DEF OwnedInv, First
    <3>2. ASSUME NEW m \in Live', u \in log'[m].tracks
          PROVE  \E k \in Live' : /\ k <= m /\ log'[k].source = log[x].person
                                  /\ u \in log'[k].tracks
      <4>1. m \in Live /\ m # n /\ u \in log[m].tracks
        BY <1>1, <3>2
      <4>2. PICK k \in Live : k <= m /\ log[k].source = log[x].person /\ u \in log[k].tracks
        BY <3>1, <4>1
      <4>3. k # n
        <5>1. SUFFICES ASSUME k = n PROVE FALSE
          OBVIOUS
        <5>2. n < m /\ u \in T
          BY <1>1, <1>2, <4>1, <4>2, <5>1 DEF T
        <5> QED BY <1>1, <4>1, <5>2
      <4> QED BY <1>1, <4>2, <4>3
    <3>3. ASSUME \A m \in Live' : u \notin log'[m].tracks PROVE db'.owner[u] = log[x].person
      <4>1. \A m \in Live : m # n => u \notin log[m].tracks
        BY <1>1, <3>3
      <4>2. CASE u \in T
        <5>1. PICK k \in Live : log[k].source = log[x].person /\ u \in log[k].tracks
          BY <1>1, <3>1, <4>2 DEF T
        <5>2. k = n
          BY <4>1, <5>1
        <5> QED BY <1>4, <4>2, <5>1, <5>2 DEF s
      <4>3. CASE u \notin T
        <5>1. \A m \in Live : u \notin log[m].tracks
          BY <4>1, <4>3 DEF T
        <5> QED BY <1>4, <3>1, <4>3, <5>1
      <4> QED BY <4>2, <4>3
    <3> QED BY <3>2, <3>3
  <2> QED BY <1>3, <2>1 DEF First
<1>12. Cleared'
  BY <1>3 DEF OwnedInv, Cleared
<1>13. OwnersActive'
  <2>1. ASSUME NEW u \in Tracks, db'.owner[u] # Nobody PROVE IsActive(db', db'.owner[u])
    <3>1. CASE u \in T
      BY <1>3, <1>4, <3>1
    <3>2. CASE u \notin T
      <4>1. db'.owner[u] = db.owner[u] /\ db.owner[u] \in People
        BY <1>2, <1>4, <2>1, <3>2 DEF Owners
      <4> QED BY <1>3, <2>1, <4>1 DEF OwnedInv, OwnersActive
    <3> QED BY <3>1, <3>2
  <2> QED BY <2>1 DEF OwnersActive
<1>14. OwnSamples'
  <2>1. ASSUME NEW q \in db'.protos PROVE db'.owner[q.key[2]] = q.of
    <3>1. PICK x \in db.protos : /\ q.key = x.key
                                 /\ IF x.key[2] \in T THEN q.of = s ELSE q.of = x.of
      BY <1>7, <2>1
    <3>2. x.key[2] \in Tracks /\ db.owner[x.key[2]] = x.of
      BY <1>2 DEF OwnedInv, OwnSamples
    <3> QED BY <1>4, <3>1, <3>2
  <2> QED BY <2>1 DEF OwnSamples
<1>15. SamplesRecorded'
  <2>1. \A q \in db'.protos : \E x \in db.protos : q.key = x.key
    BY <1>7
  <2>2. \A x \in Tokens : log[x].kind = "assign" =>
          \A q \in db'.protos : q.key[2] \in log[x].tracks => q.key \in log[x].protos
    BY <2>1 DEF OwnedInv, SamplesRecorded
  <2>3. \A m \in Live :
          /\ \A k \in log[m].protos : k[2] \in log[m].tracks
          /\ \A q \in db'.protos : q.key[2] \in log[m].tracks => q.key \in log[m].protos
    BY <2>1 DEF OwnedInv, SamplesRecorded
  <2>4. \A m \in Live' : m \in Live /\ log'[m] = log[m]
    BY <1>1
  <2> QED BY <1>3, <2>2, <2>3, <2>4 DEF SamplesRecorded
<1> QED BY <1>9, <1>10, <1>11, <1>12, <1>13, <1>14, <1>15 DEF OwnedInv

-----------------------------------------------------------------------------
(* The steps of the program keep owners in order.                          *)

OwnInv == TreeInv /\ OwnedInv /\ Unowned /\ Parted

\* Nobody gets a track, no track moves, and the labels that stand stay.
LEMMA UnownedStill ==
  ASSUME Unowned, db'.home = db.home, Tokens' = Tokens, SameLog,
         \A t \in Tracks : db.owner[t] = Nobody => db'.owner[t] = Nobody,
         \A t \in Tracks : Undecided(t)' => Undecided(t)
  PROVE  Unowned'
  BY DEF Unowned, SameLog

\* Links only go, and tracks only become nobody's.
LEMMA PartedLess ==
  ASSUME TypeInv, Parted, db'.links \subseteq db.links,
         \A t \in Tracks : db'.owner[t] \in {db.owner[t], Nobody}
  PROVE  Parted'
<1>1. \A p \in People : Owned(db', p) \subseteq Owned(db, p)
  BY Shapes DEF Owned
<1> QED BY <1>1 DEF Parted

\* A step that leaves people, their tracks and samples, and labels alone.
LEMMA OwnStill ==
  ASSUME TypeInv, OwnInv, SameLog, Live' = Live, Tokens' = Tokens, db'.people = db.people,
         db'.owner = db.owner, db'.protos = db.protos, db'.home = db.home,
         db'.links \subseteq db.links,
         \A t \in Tracks : Undecided(t)' => Undecided(t)
  PROVE  OwnInv'
<1>1. TreeInv' /\ OwnedInv'
  BY TreeIdle, OwnedIdle DEF OwnInv
<1>2. Unowned'
  BY UnownedStill DEF OwnInv
<1>3. Parted'
  BY PartedLess DEF OwnInv
<1> QED BY <1>1, <1>2, <1>3 DEF OwnInv

\* When the log stays, what stands in it does.
LEMMA SameLogThen ==
  ASSUME UNCHANGED <<log, undone>>
  PROVE  SameLog /\ Live' = Live /\ Tokens' = Tokens
  BY DEF SameLog, Live, Tokens, Done

\* A request that is rolled back keeps everything in order.
LEMMA OwnRolledBack ==
  ASSUME TypeInv, OwnInv, NEW kind, RolledBack(kind), undone' = undone
  PROVE  OwnInv'
<1>1. /\ SameLog /\ Live' = Live /\ Tokens' = Tokens /\ db' = db
      /\ \A t \in Tracks : Undecided(t)' => Undecided(t)
  BY SameLogThen DEF RolledBack, Undecided
<1> QED BY <1>1, OwnStill

-----------------------------------------------------------------------------
(* The pipeline.                                                           *)

\* The links of a new event join tracks nobody decided about.
LEMMA OwnArrive ==
  ASSUME TypeInv, OwnInv, NEW e \in Events, Arrive(e)
  PROVE  OwnInv'
<1>1. /\ db'.home = db.home /\ db'.owner = db.owner /\ db'.people = db.people
      /\ db'.protos = db.protos
      /\ db'.links = db.links \cup {pair \in Frames : pair \subseteq todo'}
  BY ArriveRows
<1>2. SameLog /\ Live' = Live /\ Tokens' = Tokens
  BY SameLogThen DEF Arrive
<1>3. /\ \A t \in Tracks : Undecided(t)' => Undecided(t)
      /\ \A t \in todo' : t \in Tracks /\ Undecided(t)
  BY DEF Arrive, Undecided
<1>4. TreeInv' /\ OwnedInv' /\ Unowned'
  BY <1>1, <1>2, <1>3, TreeIdle, OwnedIdle, UnownedStill DEF OwnInv
<1>5. Parted'
  <2>1. ASSUME NEW pair \in db'.links, NEW p \in People, pair \subseteq Owned(db', p)
        PROVE  FALSE
    <3>1. pair \subseteq Owned(db, p)
      BY <1>1, <2>1 DEF Owned
    <3>2. pair \in Frames /\ pair \subseteq todo'
      BY <1>1, <3>1 DEF OwnInv, Parted
    <3>3. PICK t \in pair : TRUE
      BY <3>2, Pair
    <3>4. db.owner[t] = p /\ db.owner[t] = Nobody
      BY <1>3, <3>1, <3>2 DEF Owned, OwnInv, Unowned
    <3> QED BY <3>4, Shapes
  <2> QED BY <2>1 DEF Parted
<1> QED BY <1>4, <1>5 DEF OwnInv

\* A track joins a cluster: it was nobody's.
LEMMA OwnCluster ==
  ASSUME TypeInv, OwnInv, NEW t \in Tracks, NEW c \in Clusters, Cluster(t, c)
  PROVE  OwnInv'
<1>1. /\ db'.home = [db.home EXCEPT ![t] = c] /\ db'.owner = db.owner
      /\ db'.people = db.people /\ db'.protos = db.protos /\ db'.links = db.links
  BY ClusterRows DEF SamePeople
<1>2. SameLog /\ Live' = Live /\ Tokens' = Tokens
  BY SameLogThen DEF Cluster
<1>3. /\ \A u \in Tracks : Undecided(u)' => Undecided(u)
      /\ Undecided(t)
  BY DEF Cluster, Undecided
<1>4. TreeInv' /\ OwnedInv' /\ Parted'
  BY <1>1, <1>2, TreeIdle, OwnedIdle, PartedLess DEF OwnInv
<1>5. db.home \in [Tracks -> Clusters \cup {NoCluster}]
  BY Shapes
<1>6. Unowned'
  <2>1. ASSUME NEW u \in Tracks
        PROVE  /\ Undecided(u)' => db'.owner[u] = Nobody
               /\ db'.home[u] # NoCluster
                    /\ (\A n \in Tokens : log[n].cluster # db'.home[u]) =>
                          db'.owner[u] = Nobody
    <3>1. CASE u = t
      BY <1>1, <1>3, <3>1 DEF OwnInv, Unowned
    <3>2. CASE u # t
      BY <1>1, <1>3, <1>5, <3>2 DEF OwnInv, Unowned
    <3> QED BY <3>1, <3>2
  <2> QED BY <1>2, <2>1 DEF Unowned, SameLog
<1> QED BY <1>4, <1>6 DEF OwnInv

\* No link joins the tracks that p gets to each other or to p's.
LEMMA PartedTakes ==
  ASSUME TypeInv, Parted, db'.links \subseteq db.links, NEW T, NEW p \in People,
         db'.owner = Moved(db.owner, T, p),
         \A u, v \in Tracks : {u, v} \in db'.links /\ u \in T =>
           v \notin T /\ db.owner[v] # p
  PROVE  Parted'
<1>1. ASSUME NEW pair \in db'.links, NEW x \in People, pair \subseteq Owned(db', x)
      PROVE  FALSE
  <2>1. pair \in db.links /\ pair \in Frames
    BY <1>1, Shapes
  <2>2. PICK u, v \in Tracks : u # v /\ pair = {u, v}
    BY <2>1, Pair
  <2>3. db'.owner[u] = x /\ db'.owner[v] = x
    BY <1>1, <2>2 DEF Owned
  <2>4. /\ db'.owner[u] = IF u \in T THEN p ELSE db.owner[u]
        /\ db'.owner[v] = IF v \in T THEN p ELSE db.owner[v]
    BY <2>2 DEF Moved
  <2>5. CASE u \notin T /\ v \notin T
    BY <2>1, <2>2, <2>3, <2>4, <2>5 DEF Parted, Owned
  <2>6. CASE u \in T
    BY <1>1, <2>2, <2>3, <2>4, <2>6
  <2>7. CASE v \in T
    <3>1. {v, u} \in db'.links
      BY <1>1, <2>2
    <3> QED BY <2>2, <2>3, <2>4, <2>7, <3>1
  <2> QED BY <2>5, <2>6, <2>7
<1> QED BY <1>1 DEF Parted

\* New prototypes are of the tracks and of the person learned.
LEMMA NewProtosOf ==
  ASSUME NEW d, NEW p, NEW A
  PROVE  \A q \in NewProtos(d, p, A) : q.key[2] \in A /\ q.of = p
  BY DEF NewProtos

\* A track is recognised: it was nobody's, and none beside it is that person's.
LEMMA OwnRecognise ==
  ASSUME TypeInv, IInv, OwnInv, NEW t \in Tracks, NEW p \in People,
         NEW A \in SUBSET ({t} \cap Good), Recognise(t, p, A)
  PROVE  OwnInv'
<1>0. A \in SUBSET Tracks
  OBVIOUS
<1>1. /\ db'.home = db.home /\ db'.owner = Moved(db.owner, {t}, p)
      /\ db'.people = db.people /\ db'.links = db.links
      /\ db'.protos = db.protos \cup NewProtos(db, p, A)
  BY <1>0, RecogniseRows
<1>2. SameLog /\ Live' = Live /\ Tokens' = Tokens
  BY SameLogThen DEF Recognise
<1>3. /\ t \in todo /\ todo' = todo \ {t} /\ pending' = pending /\ IsActive(db, p)
      /\ p \notin Excluded(t)
  BY DEF Recognise
<1>4. db.owner[t] = Nobody
  BY <1>3 DEF OwnInv, Unowned, Undecided
<1>5. \A q \in NewProtos(db, p, A) : q.key[2] \in {t} /\ q.of = p
  BY NewProtosOf
<1>6. Takes({t}, p, NewProtos(db, p, A))
  BY <1>1, <1>2, <1>3, <1>4, <1>5 DEF Takes, IsActive
<1>7. TreeInv' /\ OwnedInv'
  BY <1>1, <1>2, <1>6, TreeIdle, OwnedTakes DEF OwnInv
<1>8. Parted'
  <2>1. ASSUME NEW u \in Tracks, NEW v \in Tracks, {u, v} \in db'.links, u \in {t}
        PROVE  v \notin {t} /\ db.owner[v] # p
    <3>1. {t, v} \in db.links /\ {t, v} \in Frames
      BY <1>1, <2>1, Shapes
    <3>2. v # t
      BY <3>1, Pair
    <3> QED BY <1>3, <3>1, <3>2 DEF Excluded
  <2> QED BY <1>1, <2>1, PartedTakes DEF OwnInv
<1>9. Unowned'
  <2>1. ASSUME NEW u \in Tracks, Undecided(u)' PROVE db'.owner[u] = Nobody
    <3>1. EventOf[t] \notin pending
      BY <1>3 DEF IInv, Fresh
    <3>2. Undecided(u) /\ u # t
      BY <1>3, <2>1, <3>1 DEF Undecided
    <3> QED BY <1>1, <3>2 DEF Moved, OwnInv, Unowned
  <2>2. ASSUME NEW u \in Tracks, db.home[u] # NoCluster,
               \A n \in Tokens : log[n].cluster # db.home[u]
        PROVE  db'.owner[u] = Nobody
    <3>1. u # t
      BY <1>3, <2>2 DEF IInv, Fresh, Undecided
    <3> QED BY <1>1, <2>2, <3>1 DEF Moved, OwnInv, Unowned
  <2> QED BY <1>1, <1>2, <2>1, <2>2 DEF Unowned, SameLog
<1> QED BY <1>7, <1>8, <1>9 DEF OwnInv

\* The pipeline keeps owners in order.
LEMMA OwnPipeline ==
  ASSUME TypeInv, IInv, OwnInv, Pipeline
  PROVE  OwnInv'
  BY OwnArrive, OwnRecognise, OwnCluster DEF Pipeline

-----------------------------------------------------------------------------
(* The requests.                                                           *)

\* A label or assignment of an open cluster c, to a person that is active, or is
\* created now.
LEMMA OwnToken ==
  ASSUME TypeInv, IInv, MarkInv, OwnInv, NEW c \in Clusters, NEW p \in People,
         NEW A \in SUBSET Members(db, c), NEW d, NEW entry,
         Committing(d, entry), undone' = undone, IsOpen(db, c), Learns(d, c, p, A),
         entry.kind \in {"label", "assign"}, entry.cluster = c, entry.person = p,
         entry.tracks = Members(db, c),
         entry.kind = "assign" =>
           /\ entry.owners = [t \in Members(db, c) |-> db.owner[t]]
           /\ entry.protos = Keys(NewProtos(db, p, A)),
         d.links \subseteq db.links,
         \A u, v \in Tracks : {u, v} \in d.links /\ u \in Members(db, c) => db.owner[v] # p,
         \/ d.people = db.people /\ IsActive(db, p)
         \/ d.people = [db.people EXCEPT ![p] = Active] /\ db.people[p] = NoPerson
  PROVE  OwnInv'
<1> DEFINE i == Len(log) + 1
           T == Members(db, c)
           N == NewProtos(db, p, A)
<1>1. /\ log' = Append(log, entry) /\ db' = d /\ UNCHANGED <<pending, todo>>
  BY DEF Committing
<1>2. /\ Live' = Live /\ Tokens' = Tokens \cup {i} /\ log'[i] = entry
      /\ i \notin Done /\ \A n \in Done : log'[n] = log[n]
  BY <1>1, LogRequest
<1> HIDE DEF i
<1>3. Live \subseteq Done /\ Tokens \subseteq Done
  BY Shapes
<1>4. SameLog /\ i \notin Live /\ i \notin Tokens
  BY <1>2, <1>3 DEF SameLog
<1>5. /\ db'.owner = Moved(db.owner, T, p) /\ db'.home = db.home
      /\ db'.protos = db.protos \cup N
  BY <1>1 DEF Learns
<1>6. \A n \in Tokens : log[n].cluster # c
  BY TokensMark DEF MarkInv, OneMark
<1>7. \A t \in T : t \in Tracks /\ db.home[t] = c /\ db.owner[t] = Nobody
  <2>1. c # NoCluster
    BY IdentityAssumption DEF Clusters
  <2> QED BY <1>6, <2>1 DEF Members, OwnInv, Unowned
<1>8. \A q \in N : q.key[2] \in T /\ q.of = p
  BY NewProtosOf
<1>9. TakenBy(i, T, p, N)
  BY <1>2, <1>4 DEF TakenBy
<1> HIDE DEF N, T
<1>10. /\ IsActive(db', p) /\ (IsActive(db, p) \/ db.people[p] = NoPerson)
       /\ \A x \in People : x # p => (IsActive(db', x) <=> IsActive(db, x))
  <2>1. db.people \in [People -> PersonRow]
    BY Shapes
  <2> QED BY <1>1, <2>1 DEF IsActive, Active
<1>11. Takes(T, p, N)
  <2>1. T \subseteq Tracks /\ \A t \in T : db.owner[t] = Nobody
    BY <1>7
  <2>2. Tokens' = Tokens \/ \E x : TakenBy(x, T, p, N)
    BY <1>9
  <2> QED BY <1>2, <1>4, <1>5, <1>8, <1>10, <2>1, <2>2 DEF Takes
<1>12. TreeInv'
  <2>1. CASE d.people = db.people
    BY <1>1, <1>2, <1>4, <2>1, TreeIdle DEF OwnInv
  <2>2. CASE d.people = [db.people EXCEPT ![p] = Active] /\ db.people[p] = NoPerson
    BY <1>1, <1>2, <1>4, <2>2, TreeBorn DEF OwnInv
  <2> QED BY <2>1, <2>2
<1>13. OwnedInv'
  BY <1>11, OwnedTakes DEF OwnInv
<1>14. Parted'
  <2>1. ASSUME NEW u \in Tracks, NEW v \in Tracks, {u, v} \in db'.links, u \in T
        PROVE  v \notin T /\ db.owner[v] # p
    <3>1. {u, v} \in db.links /\ ~ ({u, v} \subseteq Members(db, c))
      BY <1>1, <2>1 DEF IInv, Apart
    <3> QED BY <1>1, <2>1, <3>1 DEF T
  <2>2. db'.links \subseteq db.links
    BY <1>1
  <2> QED BY <1>5, <2>1, <2>2, PartedTakes DEF OwnInv
<1>15. Unowned'
  <2>1. ASSUME NEW u \in Tracks, Undecided(u)' PROVE db'.owner[u] = Nobody
    <3>1. Undecided(u)
      BY <1>1, <2>1 DEF Undecided
    <3>2. db.home[u] = NoCluster /\ db.owner[u] = Nobody
      BY <3>1 DEF IInv, Fresh, OwnInv, Unowned
    <3>3. u \notin T
      BY <1>7, <3>2, IdentityAssumption DEF Clusters
    <3> QED BY <1>5, <3>2, <3>3 DEF Moved
  <2>2. ASSUME NEW u \in Tracks, db'.home[u] # NoCluster,
               \A n \in Tokens' : log'[n].cluster # db'.home[u]
        PROVE  db'.owner[u] = Nobody
    <3>1. db.home[u] # c
      BY <1>2, <1>5, <2>2
    <3>2. \A n \in Tokens : log[n].cluster # db.home[u]
      BY <1>2, <1>3, <1>5, <2>2
    <3>3. u \notin T
      BY <1>7, <3>1
    <3> QED BY <1>5, <2>2, <3>2, <3>3 DEF Moved, OwnInv, Unowned
  <2> QED BY <2>1, <2>2 DEF Unowned
<1> QED BY <1>12, <1>13, <1>14, <1>15 DEF OwnInv

\* A request that is recorded as neither a label nor a merge of people, and
\* changes neither people nor homes.
LEMMA OwnAside ==
  ASSUME TypeInv, OwnInv, NEW d, NEW entry, Committing(d, entry), undone' = undone,
         entry.kind \notin {"label", "assign", "merge_people"},
         d.home = db.home, SamePeople(d)
  PROVE  OwnInv'
<1>1. log' = Append(log, entry) /\ db' = d /\ UNCHANGED <<pending, todo>>
  BY DEF Committing
<1>2. Live' = Live /\ Tokens' = Tokens /\ \A n \in Done : log'[n] = log[n]
  BY <1>1, LogRequest
<1>3. SameLog
  BY <1>2, Shapes DEF SameLog
<1>4. /\ db'.people = db.people /\ db'.owner = db.owner /\ db'.protos = db.protos
      /\ db'.home = db.home /\ db'.links \subseteq db.links
  BY <1>1 DEF SamePeople
<1>5. \A t \in Tracks : Undecided(t)' => Undecided(t)
  BY <1>1 DEF Undecided
<1> QED BY <1>2, <1>3, <1>4, <1>5, OwnStill

\* A merge of people keeps owners in order, and frames apart.
LEMMA OwnMerges ==
  ASSUME TypeInv, OwnInv, NEW s \in People, NEW t \in People, MergePeople(s, t)
  PROVE  OwnInv'
<1>1. PICK d : Mutates("merge_people", d, MergeEntry(s, t)) /\ Merges(d, s, t)
  BY MergePeopleRows
<1>2. /\ undone' = undone /\ s # t /\ IsActive(db, s) /\ IsActive(db, t)
      /\ Conflicts(db, Owned(db, s), Owned(db, t)) = {}
  BY DEF MergePeople
<1>3. CASE RolledBack("merge_people")
  BY <1>2, <1>3, OwnRolledBack
<1>4. CASE Committing(d, MergeEntry(s, t))
  <2> DEFINE i == Len(log) + 1
             entry == MergeEntry(s, t)
  <2>1. log' = Append(log, entry) /\ db' = d /\ UNCHANGED <<pending, todo>>
    BY <1>4 DEF Committing
  <2>2. /\ entry.kind = "merge_people" /\ entry.source = s /\ entry.target = t
        /\ entry.tracks = Owned(db, s) /\ entry.protos = Keys(ProtosOf(db, s))
    BY DEF MergeEntry
  <2> HIDE DEF entry
  <2>3. /\ Live' = Live \cup {i} /\ Tokens' = Tokens /\ log'[i] = entry
        /\ i \notin Done /\ \A n \in Done : log'[n] = log[n] /\ n < i
        /\ i \in Nat
    <3>1. /\ Len(log) \in Nat /\ Len(log) + 1 \notin Done
          /\ log'[Len(log) + 1] = entry
          /\ \A n \in Done : log'[n] = log[n] /\ n < Len(log) + 1
          /\ Live' = IF entry.kind = "merge_people" THEN Live \cup {Len(log) + 1} ELSE Live
          /\ Tokens' = IF entry.kind \in {"label", "assign"} THEN Tokens \cup {Len(log) + 1}
                                                            ELSE Tokens
      BY <1>2, <2>1, LogRequest
    <3> QED BY <2>2, <3>1
  <2> HIDE DEF i
  <2>4. Live \subseteq Done /\ Tokens \subseteq Done
    BY Shapes
  <2>5. SameLog /\ i \notin Live /\ \A m \in Live : m < i
    BY <2>3, <2>4 DEF SameLog
  <2>6. /\ db'.people = [db.people EXCEPT ![s] = MergedAway(t)]
        /\ db'.owner = Moved(db.owner, Owned(db, s), t)
        /\ db'.protos = Given(db.protos, Keys(ProtosOf(db, s)), t)
        /\ db'.home = db.home /\ db'.links = db.links
    BY <1>1, <2>1 DEF Merges
  <2>7. Moves(i, s, t)
    BY <1>2, <2>2, <2>3, <2>5, <2>6 DEF Moves
  <2>8. TreeInv' /\ OwnedInv'
    BY <2>7, TreeMoves, OwnedMoves DEF OwnInv
  <2>9. \A u \in Tracks : db'.owner[u] = IF db.owner[u] = s THEN t ELSE db.owner[u]
    BY <2>6 DEF Moved, Owned
  <2>10. Unowned'
    <3>1. \A u \in Tracks : db.owner[u] = Nobody => db'.owner[u] = Nobody
      BY <2>9, Shapes
    <3>2. \A u \in Tracks : Undecided(u)' => Undecided(u)
      BY <2>1 DEF Undecided
    <3> QED BY <2>3, <2>5, <2>6, <3>1, <3>2, UnownedStill DEF OwnInv
  <2>11. Parted'
    <3>1. ASSUME NEW pair \in db'.links, NEW x \in People, pair \subseteq Owned(db', x)
          PROVE  FALSE
      <4>1. pair \in db.links /\ pair \in Frames
        BY <2>6, <3>1, Shapes
      <4>2. PICK u, v \in Tracks : u # v /\ pair = {u, v}
        BY <4>1, Pair
      <4>3. db'.owner[u] = x /\ db'.owner[v] = x
        BY <3>1, <4>2 DEF Owned
      <4>4. ~ (db.owner[u] = s /\ db.owner[v] = t) /\ ~ (db.owner[u] = t /\ db.owner[v] = s)
        BY <1>2, <4>1, <4>2 DEF Conflicts, Owned
      <4>5. db.owner[u] = db.owner[v]
        BY <2>9, <4>2, <4>3, <4>4
      <4>6. db.owner[u] \in People
        <5>1. db.owner[u] = s \/ db.owner[u] = x
          BY <2>9, <4>2, <4>3
        <5> QED BY <5>1
      <4>7. pair \subseteq Owned(db, db.owner[u])
        BY <4>2, <4>5 DEF Owned
      <4> QED BY <4>1, <4>6, <4>7 DEF OwnInv, Parted
    <3> QED BY <3>1 DEF Parted
  <2> QED BY <2>8, <2>10, <2>11 DEF OwnInv
<1> QED BY <1>1, <1>3, <1>4, Outcome

\* A label keeps owners in order.
LEMMA OwnLabel ==
  ASSUME TypeInv, IInv, MarkInv, OwnInv, NEW c \in Clusters, NEW A, Label(c, A)
  PROVE  OwnInv'
<1> DEFINE p == Now + 1
           entry == [kind |-> "label", cluster |-> c, person |-> p,
                     tracks |-> Members(db, c)]
<1>1. PICK d : /\ Mutates("label", d, entry) /\ Learns(d, c, p, A) /\ d.links = db.links
               /\ d.people = [db.people EXCEPT ![p] = Active]
  BY LabelRows
<1>2. /\ p \in People /\ IsOpen(db, c) /\ undone' = undone
      /\ A \in SUBSET Members(db, c)
  BY LabelRows DEF Label
<1>3. /\ entry.kind = "label" /\ entry.cluster = c /\ entry.person = p
      /\ entry.tracks = Members(db, c)
  OBVIOUS
<1>4. db.people[p] = NoPerson
  <2>1. Now = Len(log) /\ Now \in Nat
    BY <1>1, TypedRequest
  <2> QED BY <1>2, <2>1 DEF TypeInv, Unborn
<1> HIDE DEF entry, p
<1>5. \A v \in Tracks : db.owner[v] # p
  <2>1. ~IsActive(db, p)
    BY <1>4 DEF IsActive, NoPerson
  <2> QED BY <1>2, <2>1, Shapes DEF OwnInv, OwnedInv, OwnersActive
<1>6. CASE Committing(d, entry)
  <2>1. /\ d.links \subseteq db.links
        /\ \A u, v \in Tracks : {u, v} \in d.links /\ u \in Members(db, c) => db.owner[v] # p
        /\ entry.kind \in {"label", "assign"}
        /\ entry.kind = "assign" =>
             /\ entry.owners = [t \in Members(db, c) |-> db.owner[t]]
             /\ entry.protos = Keys(NewProtos(db, p, A))
    BY <1>1, <1>3, <1>5
  <2>2. \/ d.people = db.people /\ IsActive(db, p)
        \/ d.people = [db.people EXCEPT ![p] = Active] /\ db.people[p] = NoPerson
    BY <1>1, <1>4
  <2>3. Learns(d, c, p, A) /\ d.links \subseteq db.links
    BY <1>1
  <2>4. /\ p \in People /\ IsOpen(db, c) /\ undone' = undone /\ A \in SUBSET Members(db, c)
        /\ entry.cluster = c /\ entry.person = p /\ entry.tracks = Members(db, c)
    BY <1>2, <1>3
  <2> QED BY <1>6, <2>1, <2>2, <2>3, <2>4, OwnToken, ZenonT(60)
<1>7. CASE RolledBack("label")
  BY <1>2, <1>7, OwnRolledBack
<1> QED BY <1>1, <1>6, <1>7, Outcome

\* An assignment keeps owners in order: it deletes the links in its way.
LEMMA OwnAssign ==
  ASSUME TypeInv, IInv, MarkInv, OwnInv, NEW c \in Clusters, NEW p \in People, NEW A,
         Assign(c, p, A)
  PROVE  OwnInv'
<1> DEFINE T == Members(db, c)
<1>1. PICK d : /\ Mutates("assign", d, AssignEntry(d, c, p, A)) /\ Learns(d, c, p, A)
               /\ d.links = db.links \ Conflicts(db, T, Owned(db, p))
               /\ d.people = db.people
  BY AssignRows
<1>2. IsOpen(db, c) /\ IsActive(db, p) /\ undone' = undone /\ A \in SUBSET T
  BY DEF Assign
<1> DEFINE entry == AssignEntry(d, c, p, A)
<1>3. /\ entry.kind = "assign" /\ entry.cluster = c /\ entry.person = p
      /\ entry.tracks = T /\ entry.owners = [t \in T |-> db.owner[t]]
      /\ entry.protos = Keys(NewProtos(db, p, A))
  BY DEF AssignEntry
<1> HIDE DEF entry
<1>4. ASSUME NEW u \in Tracks, NEW v \in Tracks, {u, v} \in d.links, u \in T
      PROVE  db.owner[v] # p
  BY <1>1, <1>4 DEF Conflicts, Owned
<1>5. d.links \subseteq db.links
  BY <1>1
<1>6. CASE Committing(d, entry)
  <2>1. /\ \A u, v \in Tracks : {u, v} \in d.links /\ u \in Members(db, c) => db.owner[v] # p
        /\ entry.kind \in {"label", "assign"}
        /\ entry.kind = "assign" =>
             /\ entry.owners = [t \in Members(db, c) |-> db.owner[t]]
             /\ entry.protos = Keys(NewProtos(db, p, A))
    BY <1>3, <1>4
  <2>2. Learns(d, c, p, A) /\ d.people = db.people /\ IsActive(db, p)
    BY <1>1, <1>2
  <2> QED BY <1>2, <1>3, <1>5, <1>6, <2>1, <2>2, OwnToken
<1>7. CASE RolledBack("assign")
  BY <1>2, <1>7, OwnRolledBack
<1> QED BY <1>1, <1>6, <1>7, Outcome DEF entry

-----------------------------------------------------------------------------
(* The undos.                                                              *)

\* The tracks of a cluster that is open again are nobody's.
LEMMA UnownedReleases ==
  ASSUME TypeInv, MarkInv, Unowned, NEW n, Releases(n), db'.home = db.home,
         \A t \in Tracks : Undecided(t)' => Undecided(t)
  PROVE  Unowned'
<1>1. /\ \A t \in Tracks : db'.owner[t] = IF t \in log[n].tracks THEN Nobody ELSE db.owner[t]
      /\ n \in Tokens /\ Tokens' = Tokens \ {n}
      /\ \A m \in Tokens : log'[m] = log[m]
  BY DEF Releases, Moved, SameLog
<1>2. log[n].tracks = Members(db, log[n].cluster)
  BY <1>1 DEF MarkInv, TokenTracks
<1>3. ASSUME NEW t \in Tracks, db.home[t] # NoCluster,
             \A m \in Tokens' : log[m].cluster # db.home[t]
      PROVE  db'.owner[t] = Nobody
  <2>1. CASE log[n].cluster = db.home[t]
    BY <1>1, <1>2, <2>1 DEF Members
  <2>2. CASE log[n].cluster # db.home[t]
    <3>1. \A m \in Tokens : log[m].cluster # db.home[t]
      BY <1>1, <1>3, <2>2
    <3> QED BY <1>1, <1>3, <3>1 DEF Unowned
  <2> QED BY <2>1, <2>2
<1>4. \A t \in Tracks : Undecided(t)' => db'.owner[t] = Nobody
  BY <1>1 DEF Unowned
<1>5. \A m \in Tokens' : log'[m] = log[m]
  BY <1>1
<1> QED BY <1>3, <1>4, <1>5 DEF Unowned

\* What a committed undo does to the operations that stand.
LEMMA UndoneLog ==
  ASSUME TypeInv, NEW n \in Done, NEW d, Committing(d, UndoEntry(n)),
         undone' = undone \cup {n}
  PROVE  /\ log' = Append(log, UndoEntry(n)) /\ db' = d /\ Sound(d)
         /\ Live' = Live \ {n} /\ Tokens' = Tokens \ {n} /\ SameLog
         /\ \A t \in Tracks : Undecided(t)' => Undecided(t)
<1>1. /\ log' = Append(log, UndoEntry(n)) /\ db' = d /\ Sound(d) /\ UNCHANGED <<pending, todo>>
  BY DEF Committing
<1>2. Live' = Live \ {n} /\ Tokens' = Tokens \ {n} /\ \A m \in Done : log'[m] = log[m]
  BY <1>1, LogUndo
<1>3. SameLog
  BY <1>2, Shapes DEF SameLog
<1> QED BY <1>1, <1>2, <1>3 DEF Undecided

\* The undo of a label keeps owners in order.
LEMMA OwnUndoLabel ==
  ASSUME TypeInv, MarkInv, OwnInv, NEW n, UndoLabel(n)
  PROVE  OwnInv'
<1>1. PICK d : Undoing(n, "undo_label", d) /\ Unlabels(d, log[n])
  BY UndoLabelRows
<1>2. MayUnlabel(log[n])
  BY UndoLabelRows
<1>3. n \in Done /\ n \in Tokens /\ n \notin Live
  BY <1>1, <1>2 DEF Undoing, MayUnlabel, Tokens, Live, Done
<1>4. CASE RolledBack("undo_label") /\ undone' = undone
  BY <1>4, OwnRolledBack
<1>5. CASE Committing(d, UndoEntry(n)) /\ undone' = undone \cup {n}
  <2> DEFINE p == log[n].person
             T == log[n].tracks
  <2>1. /\ db' = d /\ Sound(d) /\ Live' = Live \ {n} /\ Tokens' = Tokens \ {n} /\ SameLog
        /\ \A t \in Tracks : Undecided(t)' => Undecided(t)
    BY <1>3, <1>5, UndoneLog
  <2>2. Live' = Live
    BY <1>3, <2>1
  <2>3. /\ db'.home = db.home /\ db'.links = db.links
        /\ db'.owner = Moved(db.owner, T, Nobody)
        /\ db'.protos = Without(db.protos, Keys(ProtosOf(db, p)))
        /\ db'.people = [db.people EXCEPT ![p] = NoPerson]
    BY <1>1, <2>1 DEF Unlabels
  <2>4. p \in People /\ IsActive(db, p) /\ T \subseteq Owned(db, p) /\ T \subseteq Tracks
    BY <1>2 DEF MayUnlabel, Owned
  <2>5. /\ db.people \in [People -> PersonRow] /\ Nobody \notin People
        /\ \A q \in db.protos : q.key[2] \in Tracks
    BY Shapes
  <2> HIDE DEF p, T
  <2>6. db'.protos \subseteq db.protos /\ \A q \in db'.protos : q.key[2] \notin T
    <3>1. \A q \in db'.protos : q \in db.protos /\ q.of # p
      BY <2>3 DEF Without, Keys, ProtosOf
    <3> QED BY <2>4, <3>1 DEF OwnInv, OwnedInv, OwnSamples, Owned
  <2>7. db'.people[p] = NoPerson /\ \A x \in People \ {p} : db'.people[x] = db.people[x]
    BY <2>3, <2>4, <2>5
  <2>8. \A x \in People : IsActive(db', x) <=> IsActive(db, x) /\ x # p
    BY <2>7 DEF IsActive, NoPerson
  <2>9. \A t \in Tracks : db'.owner[t] # p
    <3>1. db'.people[p].status = "none" /\ p # Nobody
      BY <2>4, <2>5, <2>7 DEF NoPerson
    <3> QED BY <2>1, <3>1 DEF Sound
  <2>10. Releases(n)
    BY <1>3, <2>1, <2>2, <2>3, <2>4, <2>6, <2>8, <2>9 DEF Releases, p, T
  <2>11. OwnedInv' /\ Unowned'
    BY <2>1, <2>3, <2>10, OwnedReleases, UnownedReleases DEF OwnInv
  <2>12. TreeInv'
    <3>1. Sound(db')
      BY <2>1
    <3> QED BY <2>1, <2>2, <2>3, <2>4, <3>1, TreeDeleted DEF OwnInv
  <2>13. Parted'
    <3>1. \A t \in Tracks : db'.owner[t] \in {db.owner[t], Nobody}
      BY <2>3 DEF Moved
    <3> QED BY <2>3, <3>1, PartedLess DEF OwnInv
  <2> QED BY <2>11, <2>12, <2>13 DEF OwnInv
<1> QED BY <1>1, <1>4, <1>5, UndoingOutcome

\* The undo of an assignment keeps owners in order.
LEMMA OwnUndoAssign ==
  ASSUME TypeInv, IInv, MarkInv, OwnInv, NEW n, UndoAssign(n)
  PROVE  OwnInv'
<1>1. PICK d : Undoing(n, "undo_assign", d) /\ Unassigns(d, log[n])
  BY UndoAssignRows
<1>2. MayUnassign(log[n])
  BY UndoAssignRows
<1>3. n \in Done /\ n \in Tokens /\ n \notin Live /\ log[n].kind = "assign"
  BY <1>1, <1>2 DEF Undoing, MayUnassign, Tokens, Live, Done
<1>4. CASE RolledBack("undo_assign") /\ undone' = undone
  BY <1>4, OwnRolledBack
<1>5. CASE Committing(d, UndoEntry(n)) /\ undone' = undone \cup {n}
  <2> DEFINE p == log[n].person
             T == log[n].tracks
  <2>1. /\ db' = d /\ Live' = Live \ {n} /\ Tokens' = Tokens \ {n} /\ SameLog
        /\ \A t \in Tracks : Undecided(t)' => Undecided(t)
    BY <1>3, <1>5, UndoneLog
  <2>2. Live' = Live
    BY <1>3, <2>1
  <2>3. /\ db'.home = db.home /\ db'.people = db.people
        /\ db'.links = db.links \cup log[n].links
        /\ db'.owner = [t \in Tracks |-> IF t \in T THEN log[n].owners[t] ELSE db.owner[t]]
        /\ db'.protos = Without(db.protos, log[n].protos)
    BY <1>1, <2>1 DEF Unassigns
  <2>4. p \in People /\ IsActive(db, p) /\ T \subseteq Owned(db, p) /\ T \subseteq Tracks
    BY <1>2 DEF MayUnassign, Owned
  <2>5. \A t \in T : log[n].owners[t] = Nobody
    BY <1>3 DEF OwnInv, OwnedInv, Cleared
  <2> HIDE DEF p, T
  <2>6. db'.owner = Moved(db.owner, T, Nobody)
    BY <2>3, <2>5 DEF Moved
  <2>7. db'.protos \subseteq db.protos /\ \A q \in db'.protos : q.key[2] \notin T
    BY <1>3, <2>3 DEF Without, OwnInv, OwnedInv, SamplesRecorded, T
  <2>8. Releases(n)
    <3>1. \A x \in People : IsActive(db', x) <=> IsActive(db, x)
      BY <2>3 DEF IsActive
    <3> QED BY <1>3, <2>1, <2>2, <2>4, <2>6, <2>7, <3>1 DEF Releases, p, T
  <2>9. OwnedInv' /\ Unowned'
    BY <2>1, <2>3, <2>8, OwnedReleases, UnownedReleases DEF OwnInv
  <2>10. TreeInv'
    BY <2>1, <2>2, <2>3, TreeIdle DEF OwnInv
  <2>11. Parted'
    <3>1. ASSUME NEW pair \in db'.links, NEW x \in People, pair \subseteq Owned(db', x)
          PROVE  FALSE
      <4>1. \A t \in pair : t \in Tracks /\ t \notin T /\ db.owner[t] = x
        BY <2>6, <3>1, Shapes DEF Owned, Moved
      <4>2. CASE pair \in db.links
        BY <4>1, <4>2 DEF OwnInv, Parted, Owned
      <4>3. CASE pair \in log[n].links
        <5>1. pair \cap T # {}
          BY <1>3, <4>3 DEF IInv, Recorded, Bridges, Done, T
        <5> QED BY <4>1, <5>1
      <4> QED BY <2>3, <3>1, <4>2, <4>3
    <3> QED BY <3>1 DEF Parted
  <2> QED BY <2>9, <2>10, <2>11 DEF OwnInv
<1> QED BY <1>1, <1>4, <1>5, UndoingOutcome

\* The undo of a merge of people whose target was not merged meanwhile.
LEMMA OwnUndoMerge ==
  ASSUME TypeInv, UndosMarked, OwnInv, NEW n, UndoMergePeople(n)
  PROVE  OwnInv' \/ Crossed'
<1>1. PICK d : Undoing(n, "undo_merge_people", d) /\ Unmerges(d, log[n])
  BY UndoMergePeopleRows
<1>2. MayUnmerge(log[n])
  BY UndoMergePeopleRows
<1>3. n \in Done /\ n \in Live /\ n \notin Tokens /\ log[n].kind = "merge_people"
  BY <1>1, <1>2 DEF Undoing, MayUnmerge, Tokens, Live, Done
<1>4. CASE RolledBack("undo_merge_people") /\ undone' = undone
  BY <1>4, OwnRolledBack
<1>5. CASE Committing(d, UndoEntry(n)) /\ undone' = undone \cup {n} /\ ~Crossed'
  <2> DEFINE s == log[n].source
             T == log[n].tracks
  <2>1. /\ log' = Append(log, UndoEntry(n)) /\ db' = d /\ Sound(d)
        /\ Live' = Live \ {n} /\ Tokens' = Tokens \ {n} /\ SameLog
        /\ \A t \in Tracks : Undecided(t)' => Undecided(t)
    BY <1>3, <1>5, UndoneLog
  <2>2. Tokens' = Tokens
    BY <1>3, <2>1
  <2>3. IsLog'
    BY <2>1, Appended DEF TypeInv
  <2>4. \A m \in Live : log[m].source # log[n].target
    BY <1>3, <1>5, <2>1, <2>3, NotCrossing
  <2>5. /\ db'.home = db.home /\ db'.links = db.links
        /\ db'.owner = Moved(db.owner, T, s)
        /\ db'.protos = Given(db.protos, log[n].protos, s)
        /\ db'.people = [db.people EXCEPT ![s] = Active]
    BY <1>1, <2>1 DEF Unmerges
  <2>6. Returns(n)
    BY <1>3, <2>1, <2>2, <2>4, <2>5 DEF Returns
  <2>7. TreeInv' /\ OwnedInv'
    BY <2>6, TreeReturns, OwnedReturns DEF OwnInv
  <2>8. /\ IsActive(db, log[n].target) /\ s \in People
        /\ ~IsActive(db, s) /\ Nobody \notin People
        /\ log[n].target \in People
    <3>1. IsActive(db, log[n].target)
      BY <2>6, Returning DEF OwnInv
    <3>2. ~IsActive(db, s)
      BY <1>3, TreeFacts DEF OwnInv
    <3> QED BY <1>3, <3>1, <3>2, Shapes
  <2>9. \A t \in T : t \in Tracks => db.owner[t] = log[n].target
    BY <1>3, <2>8 DEF OwnInv, OwnedInv, Kept
  <2>10. \A t \in Tracks : db'.owner[t] = IF t \in T THEN s ELSE db.owner[t]
    BY <2>5 DEF Moved
  <2>11. \A t \in Tracks : db.owner[t] # s
    BY <2>8 DEF OwnInv, OwnedInv, OwnersActive
  <2> HIDE DEF s, T
  <2>12. Unowned'
    <3>1. \A t \in Tracks : db.owner[t] = Nobody => db'.owner[t] = Nobody
      BY <2>8, <2>9, <2>10
    <3> QED BY <2>1, <2>2, <2>5, <3>1, UnownedStill DEF OwnInv
  <2>13. Parted'
    <3>1. ASSUME NEW pair \in db'.links, NEW x \in People, pair \subseteq Owned(db', x)
          PROVE  FALSE
      <4>1. pair \in db.links
        BY <2>5, <3>1
      <4>2. CASE x = s
        <5>1. \A t \in pair : t \in Tracks /\ db.owner[t] = log[n].target
          BY <2>9, <2>10, <2>11, <3>1, <4>2 DEF Owned
        <5> QED BY <2>8, <4>1, <5>1 DEF OwnInv, Parted, Owned
      <4>3. CASE x # s
        <5>1. \A t \in pair : t \in Tracks /\ db.owner[t] = x
          BY <2>10, <3>1, <4>3 DEF Owned
        <5> QED BY <4>1, <5>1 DEF OwnInv, Parted, Owned
      <4> QED BY <4>2, <4>3
    <3> QED BY <3>1 DEF Parted
  <2> QED BY <2>7, <2>12, <2>13 DEF OwnInv
<1> QED BY <1>1, <1>4, <1>5, UndoingOutcome

\* The undo of a false positive keeps owners in order.
LEMMA OwnUndoFalse ==
  ASSUME TypeInv, OwnInv, NEW n, UndoFalsePositive(n)
  PROVE  OwnInv'
<1>1. PICK d : Undoing(n, "undo_false_positive", d) /\ d.home = db.home /\ SamePeople(d)
  BY UndoFalsePositiveRows
<1>2. log[n].kind = "false_positive"
  BY UndoFalsePositiveRows
<1>3. n \in Done /\ n \notin Live /\ n \notin Tokens
  BY <1>1, <1>2 DEF Undoing, Tokens, Live, Done
<1>4. CASE RolledBack("undo_false_positive") /\ undone' = undone
  BY <1>4, OwnRolledBack
<1>5. CASE Committing(d, UndoEntry(n)) /\ undone' = undone \cup {n}
  <2>1. /\ db' = d /\ Live' = Live \ {n} /\ Tokens' = Tokens \ {n} /\ SameLog
        /\ \A t \in Tracks : Undecided(t)' => Undecided(t)
    BY <1>3, <1>5, UndoneLog
  <2>2. Live' = Live /\ Tokens' = Tokens
    BY <1>3, <2>1
  <2>3. /\ db'.people = db.people /\ db'.owner = db.owner /\ db'.protos = db.protos
        /\ db'.home = db.home /\ db'.links \subseteq db.links
    BY <1>1, <2>1 DEF SamePeople
  <2> QED BY <2>1, <2>2, <2>3, OwnStill
<1> QED BY <1>1, <1>4, <1>5, UndoingOutcome

\* The undos keep owners in order, unless clusters were merged or undos crossed.
LEMMA OwnUndoes ==
  ASSUME TypeInv, UndosMarked, IInv, MarkInv, OwnInv, Undoes
  PROVE  OwnInv' \/ Mixed' \/ Crossed'
<1>1. ASSUME NEW n, UndoMergeClusters(n) PROVE Mixed'
  <2>1. Mixed /\ [Next]_vars
    BY <1>1 DEF UndoMergeClusters, Undoable, Mixed, Next
  <2> QED BY <2>1, BadStays
<1> QED BY <1>1, OwnUndoLabel, OwnUndoAssign, OwnUndoFalse, OwnUndoMerge DEF Undoes

\* The requests keep owners in order, unless clusters are merged.
LEMMA OwnRequests ==
  ASSUME TypeInv, IInv, MarkInv, OwnInv, Requests
  PROVE  OwnInv' \/ Mixed'
<1>1. ASSUME NEW c \in Clusters, FalsePositive(c) PROVE OwnInv'
  <2> DEFINE entry == [kind |-> "false_positive", cluster |-> c,
                       status |-> db.clusters[c].status]
  <2>1. PICK d : Mutates("false_positive", d, entry) /\ d.home = db.home /\ SamePeople(d)
    BY <1>1, FalsePositiveRows
  <2>2. undone' = undone
    BY <1>1 DEF FalsePositive
  <2>3. entry.kind = "false_positive"
    OBVIOUS
  <2> HIDE DEF entry
  <2>4. CASE RolledBack("false_positive")
    BY <2>2, <2>4, OwnRolledBack
  <2>5. CASE Committing(d, entry)
    BY <2>1, <2>2, <2>3, <2>5, OwnAside
  <2> QED BY <2>1, <2>4, <2>5, Outcome
<1>2. ASSUME NEW c \in Clusters, NEW T \in SUBSET Tracks, Split(c, T) PROVE OwnInv'
  BY <1>2, SplitFails, OwnRolledBack
<1>3. ASSUME NEW s \in Clusters, NEW t \in Clusters, MergeClusters(s, t)
      PROVE  OwnInv' \/ Mixed'
  <2>1. PICK d : Mutates("merge_clusters", d, MergeClustersEntry(s, t))
    BY <1>3, MergeClustersRows
  <2>2. undone' = undone
    BY <1>3 DEF MergeClusters
  <2>3. CASE RolledBack("merge_clusters")
    BY <2>2, <2>3, OwnRolledBack
  <2>4. CASE Committing(d, MergeClustersEntry(s, t))
    <3>1. log' = Append(log, MergeClustersEntry(s, t)) /\ IsLog
      BY <2>4 DEF Committing, TypeInv
    <3>2. Len(log) \in Nat /\ Len(log') = Len(log) + 1 /\ IsLog'
          /\ log'[Len(log) + 1] = MergeClustersEntry(s, t)
      BY <3>1, Appended
    <3>3. Len(log) + 1 \in DOMAIN log'
      BY <3>2 DEF IsLog
    <3> QED BY <3>2, <3>3 DEF Mixed, MergeClustersEntry
  <2> QED BY <2>1, <2>3, <2>4, Outcome
<1> QED BY <1>1, <1>2, <1>3, OwnLabel, OwnAssign, OwnMerges DEF Requests

\* At first no track has an owner.
LEMMA OwnInit == Init => OwnInv
<1> SUFFICES ASSUME Init PROVE OwnInv
  OBVIOUS
<1>1. Done = {} /\ Live = {} /\ Tokens = {}
  BY DEF Init, Done, Live, Tokens
<1>2. /\ \A p \in People : db.people[p] = NoPerson
      /\ \A t \in Tracks : db.owner[t] = Nobody /\ db.home[t] = NoCluster
      /\ db.links = {} /\ db.protos = {}
  BY DEF Init
<1>3. TreeInv
  BY <1>1, <1>2 DEF TreeInv, IntoExists, Held, Nested, Siblings, Laid, NoPerson
<1>4. OwnedInv
  BY <1>1, <1>2 DEF OwnedInv, Kept, MergedOwned, First, Cleared, OwnersActive, OwnSamples,
                    SamplesRecorded
<1> QED BY <1>2, <1>3, <1>4 DEF OwnInv, Unowned, Parted

\* Every step keeps owners in order, unless clusters were merged or undos crossed.
LEMMA OwnStep ==
  ASSUME TypeInv, UndosMarked, IInv, MarkInv, OwnInv, [Next]_vars
  PROVE  OwnInv' \/ Mixed' \/ Crossed'
<1>1. CASE UNCHANGED vars
  <2>1. /\ SameLog /\ Live' = Live /\ Tokens' = Tokens /\ db' = db
        /\ \A t \in Tracks : Undecided(t)' => Undecided(t)
    BY <1>1, SameLogThen DEF vars, Undecided
  <2> QED BY <2>1, OwnStill
<1> QED BY <1>1, OwnPipeline, OwnRequests, OwnUndoes DEF Next

-----------------------------------------------------------------------------
(* Everything together.                                                    *)

\* What holds of people, tracks and samples as long as clusters were not merged
\* and no undos of merges of people have crossed.
Straight == IInv /\ MarkInv /\ OwnInv

\* Everything is in order at first.
LEMMA StraightInit == Init => Straight
  BY InitIInv, MarkInit, OwnInit DEF Straight

\* Once out of order it stays excused, and until then every step keeps order.
LEMMA StraightStep ==
  ASSUME TypeInv, UndosMarked, Mixed \/ Crossed \/ Straight, [Next]_vars
  PROVE  (Mixed \/ Crossed \/ Straight)'
<1>1. CASE Mixed \/ Crossed
  BY <1>1, BadStays
<1>2. CASE Straight
  <2>1. IInv /\ MarkInv /\ OwnInv
    BY <1>2 DEF Straight
  <2>2. Numbered
    BY DEF TypeInv, Numbered
  <2>3. IInv' \/ Wandered'
    BY <2>1, <2>2, IInvStep
  <2>4. TypeInv'
    BY TypeStep
  <2>5. Wandered' => Mixed'
    <3>1. undone' \subseteq 1 .. Len(log') /\ DOMAIN log' = 1 .. Len(log')
      BY <2>4 DEF TypeInv, IsLog
    <3> QED BY <3>1 DEF Wandered, Mixed
  <2>6. MarkInv' \/ Mixed'
    BY <2>1, MarkStep
  <2>7. OwnInv' \/ Mixed' \/ Crossed'
    BY <2>1, OwnStep
  <2> QED BY <2>3, <2>5, <2>6, <2>7 DEF Straight
<1> QED BY <1>1, <1>2

\* Everything is in order until clusters are merged or undos cross, always.
LEMMA Straightness == Spec => [](Mixed \/ Crossed \/ Straight)
<1>1. Init => Mixed \/ Crossed \/ Straight
  BY StraightInit
<1>2. /\ TypeInv /\ UndosMarked /\ (Mixed \/ Crossed \/ Straight) /\ [Next]_vars
      => (Mixed \/ Crossed \/ Straight)'
  BY StraightStep
<1> QED BY <1>1, <1>2, Typed, Marked1, PTL DEF Spec

\* The owner of a track is an active person (PersonRecord.status), after any
\* requests and undos of undo_operation, until clusters are merged or undos crossed.
THEOREM OwnersStayActive == Spec => []OwnersAreActive
<1>1. Straight => OwnersAreActive
  BY DEF Straight, OwnInv, OwnedInv, OwnersActive, OwnersAreActive, IsActive
<1>2. Mixed \/ Crossed => OwnersAreActive
  BY DEF OwnersAreActive
<1> QED BY <1>1, <1>2, Straightness, PTL

\* Two tracks of one frame are never of one person: what track_states excludes by
\* excluded_people and merge_people refuses is not reached by any other way either.
THEOREM FramesShowTwo == Spec => []PeopleApart
<1>1. Straight => PeopleApart
  BY DEF Straight, OwnInv, Parted, PeopleApart
<1>2. Mixed \/ Crossed => PeopleApart
  BY DEF PeopleApart
<1> QED BY <1>1, <1>2, Straightness, PTL

\* A prototype is of the person its track is of: merge_people and undo_operation
\* move exactly the prototype_ids of the tracks they move.
THEOREM SamplesFollow == Spec => []SamplesAreOwn
<1>1. Straight => SamplesAreOwn
  BY DEF Straight, OwnInv, OwnedInv, OwnSamples, SamplesAreOwn
<1>2. Mixed \/ Crossed => SamplesAreOwn
  BY DEF SamplesAreOwn
<1> QED BY <1>1, <1>2, Straightness, PTL

-----------------------------------------------------------------------------
(* Which track an observation is about.                                    *)

\* What k is the key of may be a sight of the track a, which came to its person
\* by no assignment that did not record k.
Shows(a, k) ==
  /\ EventOf[a] = k[2]
  /\ \A n \in Tokens : log[n].kind = "assign" /\ a \in log[n].tracks => k \in log[n].obs

\* The track a moved by the same merges as the observation o.
Anchors(a, o) ==
  /\ db.owner[a] = o.of /\ Shows(a, o.key)
  /\ \A m \in Live : a \in log[m].tracks <=> o.key \in log[m].obs

Anchored == \A o \in db.obs : \E a \in Tracks : Anchors(a, o)

\* Until it was deleted by a merge, this was so of an observation that may come back.
AsideAnchored ==
  \A m \in Live : \A k \in log[m].twice :
    \E a \in Tracks :
      /\ a \in log[m].tracks /\ Shows(a, k)
      /\ \A n \in Live : n < m => (a \in log[n].tracks <=> k \in log[n].obs)

\* What a merge deleted is gone, so no later one has met it.
Gone ==
  \A m \in Live : \A k \in log[m].twice :
    /\ \A o \in db.obs : o.key # k
    /\ \A n \in Live : m < n => k \notin log[n].obs /\ k \notin log[n].twice

\* Keys are of an operation that was; those of the last one have not moved.
Dated ==
  /\ \A o \in db.obs : /\ o.key[3] <= Len(log)
                       /\ o.key[3] = Len(log) => o.of = o.key[1]
  /\ \A m \in Live : \A k \in log[m].obs \cup log[m].twice : k[3] < m

KeysUnique == \A o1, o2 \in db.obs : o1.key = o2.key => o1 = o2

\* A merge found one observation of its source at an event.
MergeOnce ==
  \A m \in Live : \A k1, k2 \in log[m].obs \cup log[m].twice : k1[2] = k2[2] => k1 = k2

ObsInv ==
  /\ Anchored /\ AsideAnchored /\ Gone /\ Dated /\ KeysUnique /\ MergeOnce
  /\ Sound(db)

\* The types of what these proofs are about.
LEMMA ObsShapes ==
  ASSUME TypeInv
  PROVE  /\ Len(log) \in Nat /\ MaxOps \in Nat /\ Live \subseteq Nat
         /\ \A o \in db.obs : /\ o.key \in ObsKeys /\ o.key[3] \in Nat /\ o.of \in People
                              /\ o = [key |-> o.key, of |-> o.of]
         /\ \A m \in Live : log[m].obs \subseteq ObsKeys /\ log[m].twice \subseteq ObsKeys
         /\ \A k \in ObsKeys : k[1] \in People /\ k[2] \in Events /\ k[3] \in Nat
<1>1. Len(log) \in Nat /\ MaxOps \in Nat
  BY IdentityAssumption DEF TypeInv, IsLog
<1>2. \A k \in ObsKeys : k[1] \in People /\ k[2] \in Events /\ k[3] \in Nat
  BY <1>1 DEF ObsKeys
<1>3. db.obs \in SUBSET [key : ObsKeys, of : People]
  BY RowsAre DEF TypeInv
<1>4. \A o \in db.obs : /\ o.key \in ObsKeys /\ o.of \in People
                        /\ o = [key |-> o.key, of |-> o.of]
  BY <1>3
<1>5. \A m \in Live : log[m].obs \subseteq ObsKeys /\ log[m].twice \subseteq ObsKeys
  BY DEF TypeInv, EntryOK, Live, Done
<1>6. Live \subseteq Nat
  BY <1>1 DEF Live, Done
<1> QED BY <1>1, <1>2, <1>4, <1>5, <1>6

\* Time passes for what a step leaves alone.
LEMMA DatedStill ==
  ASSUME TypeInv, ObsInv, Len(log') \in Nat, Len(log) <= Len(log'), SameLog, Live' = Live,
         db'.obs \subseteq db.obs
  PROVE  Dated' /\ MergeOnce' /\ KeysUnique' /\ Gone'
<1>1. \A m \in Live : log'[m] = log[m]
  BY DEF SameLog
<1>2. Dated'
  <2>1. \A o \in db'.obs : /\ o.key[3] <= Len(log')
                           /\ o.key[3] = Len(log') => o.of = o.key[1]
    BY ObsShapes DEF ObsInv, Dated
  <2> QED BY <1>1, <2>1 DEF ObsInv, Dated
<1>3. MergeOnce'
  BY <1>1 DEF ObsInv, MergeOnce
<1>4. KeysUnique'
  BY DEF ObsInv, KeysUnique
<1>5. Gone'
  BY <1>1 DEF ObsInv, Gone
<1> QED BY <1>2, <1>3, <1>4, <1>5

\* Observations go, or lose a label or assignment that stood for them.
LEMMA ObsLess ==
  ASSUME TypeInv, ObsInv, Len(log') \in Nat, Len(log) <= Len(log'), SameLog, Live' = Live,
         Tokens' \subseteq Tokens, db'.obs \subseteq db.obs, Sound(db'),
         \A o \in db'.obs, a \in Tracks : Anchors(a, o) => db'.owner[a] = db.owner[a]
  PROVE  ObsInv'
<1>1. /\ \A m \in Live : log'[m] = log[m]
      /\ \A n \in Tokens' : n \in Tokens /\ log'[n] = log[n]
  BY DEF SameLog
<1>2. \A a, k : Shows(a, k) => Shows(a, k)'
  BY <1>1 DEF Shows
<1>3. Anchored'
  <2>1. ASSUME NEW o \in db'.obs PROVE \E a \in Tracks : Anchors(a, o)'
    <3>1. PICK a \in Tracks : Anchors(a, o)
      BY DEF ObsInv, Anchored
    <3>2. db'.owner[a] = db.owner[a] /\ Shows(a, o.key)'
      BY <1>2, <3>1 DEF Anchors
    <3> QED BY <1>1, <3>1, <3>2 DEF Anchors
  <2> QED BY <2>1 DEF Anchored
<1>4. AsideAnchored'
  <2>1. ASSUME NEW m \in Live, NEW k \in log[m].twice
        PROVE  \E a \in Tracks :
                 /\ a \in log[m].tracks /\ Shows(a, k)'
                 /\ \A n \in Live : n < m => (a \in log[n].tracks <=> k \in log[n].obs)
    BY <1>2 DEF ObsInv, AsideAnchored
  <2> QED BY <1>1, <2>1 DEF AsideAnchored
<1> QED BY <1>3, <1>4, DatedStill DEF ObsInv

\* What is new when p is seen on the tracks T.
LEMMA NewObsOf ==
  ASSUME NEW p, NEW T, NEW q \in NewObs(db, p, T)
  PROVE  /\ q.of = p /\ q.key[1] = p /\ q.key[3] = Len(log)
         /\ \E t \in T : EventOf[t] = q.key[2]
         /\ \A o \in db.obs : o.of = p => o.key[2] # q.key[2]
         /\ \A r \in NewObs(db, p, T) : r.key[2] = q.key[2] => r = q
<1> DEFINE seen == {o.key[2] : o \in ObsOf(db, p)}
           events == {EventOf[t] : t \in T} \ seen
<1>1. NewObs(db, p, T) = {[key |-> <<p, e, Len(log)>>, of |-> p] : e \in events}
  BY DEF NewObs, Now
<1>2. PICK e \in events : q = [key |-> <<p, e, Len(log)>>, of |-> p]
  BY <1>1
<1>3. q.of = p /\ q.key = <<p, e, Len(log)>>
  BY <1>2
<1>4. \A o \in db.obs : o.of = p => o.key[2] # e
  BY <1>2 DEF ObsOf
<1>5. \E t \in T : EventOf[t] = e
  BY <1>2
<1>6. ASSUME NEW r \in NewObs(db, p, T), r.key[2] = q.key[2] PROVE r = q
  <2>1. PICK f \in events : r = [key |-> <<p, f, Len(log)>>, of |-> p]
    BY <1>1
  <2> HIDE DEF events
  <2> QED BY <1>2, <1>3, <1>6, <2>1
<1> HIDE DEF events
<1> QED BY <1>3, <1>4, <1>5, <1>6

\* The person p is seen on the tracks T, which were nobody's.
Sees(T, p) ==
  /\ T \subseteq Tracks /\ \A t \in T : db.owner[t] = Nobody
  /\ db'.owner = Moved(db.owner, T, p)
  /\ db'.obs = db.obs \cup NewObs(db, p, T)
  /\ SameLog /\ Live' = Live /\ Len(log') \in Nat /\ Len(log) <= Len(log')
  /\ \A n \in Tokens' \ Tokens : log'[n].kind = "assign" =>
       log'[n].tracks = T /\ log'[n].obs = Keys(NewObs(db, p, T))
  /\ Sound(db')

\* Keys stay unique, and dated, when somebody is seen.
LEMMA SeenKeys ==
  ASSUME TypeInv, ObsInv, NEW T, NEW p \in People, Sees(T, p)
  PROVE  Dated' /\ KeysUnique' /\ Gone' /\ MergeOnce'
<1> DEFINE N == NewObs(db, p, T)
<1>1. /\ db'.obs = db.obs \cup N /\ Live' = Live
      /\ Len(log') \in Nat /\ Len(log) <= Len(log')
      /\ \A m \in Live : log'[m] = log[m]
  BY DEF Sees, SameLog
<1>2. \A q \in N : /\ q.of = p /\ q.key[1] = p /\ q.key[3] = Len(log)
                   /\ \A o \in db.obs : o.of = p => o.key[2] # q.key[2]
                   /\ \A r \in N : r.key[2] = q.key[2] => r = q
  BY NewObsOf
<1>3. /\ \A o \in db.obs : o.key[3] \in Nat
      /\ Len(log) \in Nat /\ \A m \in Live : m \in Nat /\ m <= Len(log)
  BY ObsShapes DEF Live, Done
<1> HIDE DEF N
<1>4. \A q \in N, o \in db.obs : q.key # o.key
  <2>1. ASSUME NEW q \in N, NEW o \in db.obs, q.key = o.key PROVE FALSE
    <3>1. o.key[3] = Len(log) /\ o.key[1] = p /\ o.key[2] = q.key[2]
      BY <1>2, <2>1
    <3>2. o.of = p
      BY <3>1 DEF ObsInv, Dated
    <3> QED BY <1>2, <3>1, <3>2
  <2> QED BY <2>1
<1>5. Dated'
  <2>1. ASSUME NEW o \in db'.obs
        PROVE  /\ o.key[3] <= Len(log')
               /\ o.key[3] = Len(log') => o.of = o.key[1]
    <3>1. CASE o \in N
      BY <1>1, <1>2, <1>3, <3>1
    <3>2. CASE o \in db.obs
      BY <1>1, <1>3, <3>2 DEF ObsInv, Dated
    <3> QED BY <1>1, <3>1, <3>2
  <2> QED BY <1>1, <2>1 DEF ObsInv, Dated
<1>6. KeysUnique'
  <2>1. ASSUME NEW o1 \in db'.obs, NEW o2 \in db'.obs, o1.key = o2.key PROVE o1 = o2
    <3>1. CASE o1 \in N /\ o2 \in N
      BY <1>2, <2>1, <3>1
    <3>2. CASE o1 \in db.obs /\ o2 \in db.obs
      BY <2>1, <3>2 DEF ObsInv, KeysUnique
    <3> QED BY <1>1, <1>4, <2>1, <3>1, <3>2
  <2> QED BY <2>1 DEF KeysUnique
<1>7. Gone'
  <2>1. ASSUME NEW m \in Live, NEW k \in log[m].twice, NEW o \in db'.obs PROVE o.key # k
    <3>1. CASE o \in db.obs
      BY <2>1, <3>1 DEF ObsInv, Gone
    <3>2. CASE o \in N
      <4>1. k[3] < m
        BY DEF ObsInv, Dated
      <4>2. k[3] \in Nat
        BY ObsShapes
      <4> QED BY <1>2, <1>3, <3>2, <4>1, <4>2
    <3> QED BY <1>1, <3>1, <3>2
  <2> QED BY <1>1, <2>1 DEF ObsInv, Gone
<1>8. MergeOnce'
  BY <1>1 DEF ObsInv, MergeOnce
<1> QED BY <1>5, <1>6, <1>7, <1>8

\* A new observation is of a track that nothing has moved.
LEMMA ObsSees ==
  ASSUME TypeInv, OwnInv, ObsInv, NEW T, NEW p \in People, Sees(T, p)
  PROVE  ObsInv'
<1> DEFINE N == NewObs(db, p, T)
<1>1. /\ db'.obs = db.obs \cup N /\ Live' = Live /\ Sound(db')
      /\ db'.owner = Moved(db.owner, T, p)
      /\ \A m \in Live : log'[m] = log[m]
      /\ \A n \in Tokens : log'[n] = log[n]
      /\ T \subseteq Tracks
  BY DEF Sees, SameLog
<1>2. \A t \in T : /\ \A m \in Live : t \notin log[m].tracks
                   /\ \A n \in Tokens : t \notin log[n].tracks
  BY Untouched DEF Sees, OwnInv
<1>3. \A n \in Tokens' \ Tokens : log'[n].kind = "assign" =>
        log'[n].tracks = T /\ log'[n].obs = Keys(N)
  BY DEF Sees
<1>4. \A a \in Tracks : db'.owner[a] = IF a \in T THEN p ELSE db.owner[a]
  BY <1>1 DEF Moved
<1>5. \A q \in N : q.of = p /\ q.key[3] = Len(log) /\ \E t \in T : EventOf[t] = q.key[2]
  BY NewObsOf
<1> HIDE DEF N
<1>6. \A k : \A a \in Tracks \ T : Shows(a, k) => Shows(a, k)'
  BY <1>1, <1>3 DEF Shows
<1>7. Anchored'
  <2>1. ASSUME NEW o \in db.obs PROVE \E a \in Tracks : Anchors(a, o)'
    <3>1. PICK a \in Tracks : Anchors(a, o)
      BY DEF ObsInv, Anchored
    <3>2. db.owner[a] # Nobody
      BY <3>1, ObsShapes, Shapes DEF Anchors
    <3>3. a \notin T
      BY <3>2 DEF Sees
    <3> QED BY <1>1, <1>4, <1>6, <3>1, <3>3 DEF Anchors
  <2>2. ASSUME NEW q \in N PROVE \E a \in Tracks : Anchors(a, q)'
    <3>1. PICK t \in T : EventOf[t] = q.key[2]
      BY <1>5
    <3>2. q.key \in Keys(N)
      BY DEF Keys
    <3>3. Shows(t, q.key)'
      BY <1>1, <1>2, <1>3, <3>1, <3>2 DEF Shows
    <3>4. \A m \in Live : q.key \notin log[m].obs
      <4>1. ASSUME NEW m \in Live, q.key \in log[m].obs PROVE FALSE
        <5>1. q.key[3] < m
          BY <4>1 DEF ObsInv, Dated
        <5>2. m \in Nat /\ m <= Len(log) /\ Len(log) \in Nat
          BY ObsShapes DEF Live, Done
        <5> QED BY <1>5, <5>1, <5>2
      <4> QED BY <4>1
    <3> QED BY <1>1, <1>2, <1>4, <1>5, <3>1, <3>3, <3>4 DEF Anchors
  <2> QED BY <1>1, <2>1, <2>2 DEF Anchored
<1>8. AsideAnchored'
  <2>1. ASSUME NEW m \in Live, NEW k \in log[m].twice
        PROVE  \E a \in Tracks :
                 /\ a \in log[m].tracks /\ Shows(a, k)'
                 /\ \A n \in Live : n < m => (a \in log[n].tracks <=> k \in log[n].obs)
    <3>1. PICK a \in Tracks :
            /\ a \in log[m].tracks /\ Shows(a, k)
            /\ \A n \in Live : n < m => (a \in log[n].tracks <=> k \in log[n].obs)
      BY DEF ObsInv, AsideAnchored
    <3>2. a \notin T
      BY <1>2, <3>1
    <3> QED BY <1>6, <3>1, <3>2
  <2> QED BY <1>1, <2>1 DEF AsideAnchored
<1> QED BY <1>1, <1>7, <1>8, SeenKeys DEF ObsInv

\* Where the observations that were given came from.
LEMMA GivenObs ==
  ASSUME NEW S \in SUBSET [key : ObsKeys, of : People], NEW K, NEW p \in People,
         NEW q \in Given(S, K, p)
  PROVE  \E x \in S : /\ q.key = x.key
                      /\ IF x.key \in K THEN q.of = p ELSE q.of = x.of
<1>1. PICK x \in S : q = IF x.key \in K THEN [x EXCEPT !.of = p] ELSE x
  BY DEF Given
<1>2. x = [key |-> x.key, of |-> x.of]
  OBVIOUS
<1> QED BY <1>1, <1>2

\* The operation i merged s into t, with its observations.
ObsMoves(i, s, t) ==
  /\ Moves(i, s, t) /\ i = Len(log) + 1 /\ Len(log') = i
  /\ log'[i].obs = Keys(ObsOf(db, s) \ Twice(db, s, t))
  /\ log'[i].twice = Keys(Twice(db, s, t))
  /\ db'.obs = Given(db.obs \ Twice(db, s, t), Keys(ObsOf(db, s) \ Twice(db, s, t)), t)
  /\ Sound(db')

\* The observations of s move, but for those that t has, too.
LEMMA MovedObs ==
  ASSUME TypeInv, ObsInv, NEW s \in People, NEW t \in People
  PROVE  /\ \A q \in Given(db.obs \ Twice(db, s, t), Keys(ObsOf(db, s) \ Twice(db, s, t)), t) :
              \E x \in db.obs : /\ x \notin Twice(db, s, t) /\ q.key = x.key
                                /\ q.of = IF x.of = s THEN t ELSE x.of
         /\ \A x \in db.obs : x.key \in Keys(Twice(db, s, t)) <=> x \in Twice(db, s, t)
         /\ \A x \in db.obs : x.key \in Keys(ObsOf(db, s) \ Twice(db, s, t)) <=>
                                x.of = s /\ x \notin Twice(db, s, t)
         /\ Twice(db, s, t) \subseteq ObsOf(db, s)
<1> DEFINE twice == Twice(db, s, t)
           own == ObsOf(db, s) \ twice
<1>1. twice \subseteq ObsOf(db, s)
  BY DEF Twice
<1>2. twice \subseteq db.obs /\ own \subseteq db.obs
  BY <1>1 DEF ObsOf
<1>3. \A x \in own : x.of = s /\ x \notin twice
  BY DEF ObsOf
<1>4. \A x \in db.obs : x.of = s /\ x \notin twice => x \in own
  BY DEF ObsOf
<1>5. db.obs \in SUBSET [key : ObsKeys, of : People]
  BY RowsAre DEF TypeInv
<1> HIDE DEF own, twice
<1>6. \A x, y \in db.obs : x.key = y.key => x = y
  BY DEF ObsInv, KeysUnique
<1>7. \A x \in db.obs : x.key \in Keys(twice) <=> x \in twice
  BY <1>2, <1>6 DEF Keys
<1>8. \A x \in db.obs : x.key \in Keys(own) <=> x.of = s /\ x \notin twice
  BY <1>2, <1>3, <1>4, <1>6 DEF Keys
<1>9. ASSUME NEW q \in Given(db.obs \ twice, Keys(own), t)
      PROVE  \E x \in db.obs : /\ x \notin twice /\ q.key = x.key
                               /\ q.of = IF x.of = s THEN t ELSE x.of
  <2>1. db.obs \ twice \in SUBSET [key : ObsKeys, of : People]
    BY <1>5
  <2>2. \E x \in db.obs \ twice : /\ q.key = x.key
                                  /\ IF x.key \in Keys(own) THEN q.of = t ELSE q.of = x.of
    BY <1>9, <2>1, GivenObs
  <2> QED BY <1>8, <2>2
<1> QED BY <1>1, <1>7, <1>8, <1>9 DEF own, twice

\* Keys stay unique, and dated, when people are merged.
LEMMA MovedKeys ==
  ASSUME TypeInv, ObsInv, NEW i, NEW s \in People, NEW t \in People, ObsMoves(i, s, t)
  PROVE  Dated' /\ KeysUnique' /\ Gone' /\ MergeOnce'
<1> DEFINE twice == Twice(db, s, t)
           own == ObsOf(db, s) \ twice
<1>1. /\ Live' = Live \cup {i} /\ i \notin Live /\ i \in Nat /\ \A m \in Live : m < i
      /\ \A m \in Live : log'[m] = log[m]
  BY DEF ObsMoves, Moves, SameLog
<1>2. /\ i = Len(log) + 1 /\ Len(log') = i
      /\ log'[i].obs = Keys(own) /\ log'[i].twice = Keys(twice)
  BY DEF ObsMoves
<1>3. \A q \in db'.obs :
        \E x \in db.obs : /\ x \notin twice /\ q.key = x.key
                          /\ q.of = IF x.of = s THEN t ELSE x.of
  BY MovedObs DEF ObsMoves
<1>4. /\ twice \subseteq ObsOf(db, s) /\ own \subseteq ObsOf(db, s)
      /\ ObsOf(db, s) \subseteq db.obs
  BY MovedObs DEF ObsOf
<1>5. \A x \in db.obs : x.key \in Keys(twice) <=> x \in twice
  BY MovedObs
<1>6. Keys(own) \cup Keys(twice) \subseteq Keys(db.obs)
  BY <1>4 DEF Keys
<1>7. \A o \in db.obs : o.of = s => o \in ObsOf(db, s)
  BY DEF ObsOf
<1> HIDE DEF own, twice
<1>8. \A k \in Keys(db.obs) : \E o \in db.obs : o.key = k
  BY DEF Keys
<1>9. Len(log) \in Nat /\ \A o \in db.obs : o.key[3] \in Nat /\ o.key[3] <= Len(log)
  BY ObsShapes DEF ObsInv, Dated
<1>10. Dated'
  <2>1. \A o \in db'.obs : o.key[3] <= Len(log') /\ o.key[3] # Len(log')
    BY <1>2, <1>3, <1>9
  <2>2. \A k \in Keys(own) \cup Keys(twice) : k[3] < i
    BY <1>2, <1>6, <1>8, <1>9
  <2>3. \A m \in Live : \A k \in log[m].obs \cup log[m].twice : k[3] < m
    BY DEF ObsInv, Dated
  <2> QED BY <1>1, <1>2, <2>1, <2>2, <2>3 DEF Dated
<1>11. KeysUnique'
  <2>1. ASSUME NEW o1 \in db'.obs, NEW o2 \in db'.obs, o1.key = o2.key PROVE o1 = o2
    <3>1. db'.obs \in SUBSET [key : ObsKeys, of : People]
      <4>1. db.obs \in SUBSET [key : ObsKeys, of : People]
        BY RowsAre DEF TypeInv
      <4>2. db.obs \ twice \in SUBSET [key : ObsKeys, of : People]
        BY <4>1
      <4> QED BY <4>2, GivenTyped DEF ObsMoves, twice
    <3>2. o1 = [key |-> o1.key, of |-> o1.of] /\ o2 = [key |-> o2.key, of |-> o2.of]
      BY <3>1
    <3>3. PICK x1 \in db.obs : o1.key = x1.key /\ o1.of = IF x1.of = s THEN t ELSE x1.of
      BY <1>3
    <3>4. PICK x2 \in db.obs : o2.key = x2.key /\ o2.of = IF x2.of = s THEN t ELSE x2.of
      BY <1>3
    <3>5. x1 = x2
      BY <2>1, <3>3, <3>4 DEF ObsInv, KeysUnique
    <3> QED BY <2>1, <3>2, <3>3, <3>4, <3>5
  <2> QED BY <2>1 DEF KeysUnique
<1>12. Gone'
  <2>1. ASSUME NEW m \in Live, NEW k \in log[m].twice
        PROVE  /\ \A o \in db'.obs : o.key # k
               /\ \A n \in Live : m < n => k \notin log[n].obs /\ k \notin log[n].twice
               /\ k \notin Keys(own) /\ k \notin Keys(twice)
    <3>1. \A o \in db.obs : o.key # k
      BY DEF ObsInv, Gone
    <3>2. k \notin Keys(own) /\ k \notin Keys(twice)
      BY <1>6, <1>8, <3>1
    <3>3. \A n \in Live : m < n => k \notin log[n].obs /\ k \notin log[n].twice
      BY DEF ObsInv, Gone
    <3> QED BY <1>3, <3>1, <3>2, <3>3
  <2>2. ASSUME NEW k \in Keys(twice), NEW o \in db'.obs PROVE o.key # k
    <3>1. PICK x \in db.obs : x \notin twice /\ o.key = x.key
      BY <1>3
    <3> QED BY <1>5, <3>1
  <2>3. \A n \in Live' : ~ (i < n)
    BY <1>1, ObsShapes
  <2> QED BY <1>1, <1>2, <2>1, <2>2, <2>3 DEF Gone
<1>13. MergeOnce'
  <2>1. ASSUME NEW k1 \in Keys(own) \cup Keys(twice), NEW k2 \in Keys(own) \cup Keys(twice),
               k1[2] = k2[2]
        PROVE  k1 = k2
    <3>1. PICK o1 \in ObsOf(db, s), o2 \in ObsOf(db, s) : k1 = o1.key /\ k2 = o2.key
      BY <1>4 DEF Keys
    <3>2. o1.of = o2.of /\ o1 \in db.obs /\ o2 \in db.obs
      BY DEF ObsOf
    <3> QED BY <2>1, <3>1, <3>2 DEF ObsInv, Sound
  <2>2. \A m \in Live : \A k1, k2 \in log[m].obs \cup log[m].twice : k1[2] = k2[2] => k1 = k2
    BY DEF ObsInv, MergeOnce
  <2> QED BY <1>1, <1>2, <2>1, <2>2 DEF MergeOnce
<1> QED BY <1>10, <1>11, <1>12, <1>13

\* The tracks of the source take its observations along.
LEMMA ObsMoved ==
  ASSUME TypeInv, ObsInv, NEW i, NEW s \in People, NEW t \in People, ObsMoves(i, s, t)
  PROVE  ObsInv'
<1> DEFINE twice == Twice(db, s, t)
           own == ObsOf(db, s) \ twice
<1>1. /\ Live' = Live \cup {i} /\ i \notin Live /\ i \in Nat /\ \A m \in Live : m < i
      /\ \A m \in Live : log'[m] = log[m]
      /\ Tokens' = Tokens /\ \A n \in Tokens : log'[n] = log[n]
      /\ log'[i].tracks = Owned(db, s) /\ db'.owner = Moved(db.owner, Owned(db, s), t)
  BY DEF ObsMoves, Moves, SameLog
<1>2. log'[i].obs = Keys(own) /\ log'[i].twice = Keys(twice) /\ Sound(db')
  BY DEF ObsMoves
<1>3. \A q \in db'.obs :
        \E x \in db.obs : /\ x \notin twice /\ q.key = x.key
                          /\ q.of = IF x.of = s THEN t ELSE x.of
  BY MovedObs DEF ObsMoves
<1>4. /\ \A x \in db.obs : x.key \in Keys(own) <=> x.of = s /\ x \notin twice
      /\ twice \subseteq ObsOf(db, s)
  BY MovedObs
<1> HIDE DEF own, twice
<1>5. \A a \in Tracks : /\ a \in Owned(db, s) <=> db.owner[a] = s
                        /\ db'.owner[a] = IF db.owner[a] = s THEN t ELSE db.owner[a]
  BY <1>1 DEF Owned, Moved
<1>6. \A a, k : Shows(a, k) => Shows(a, k)'
  BY <1>1 DEF Shows
<1>7. Anchored'
  <2>1. ASSUME NEW q \in db'.obs PROVE \E a \in Tracks : Anchors(a, q)'
    <3>1. PICK x \in db.obs : /\ x \notin twice /\ q.key = x.key
                              /\ q.of = IF x.of = s THEN t ELSE x.of
      BY <1>3
    <3>2. PICK a \in Tracks : Anchors(a, x)
      BY DEF ObsInv, Anchored
    <3>3. db.owner[a] = x.of /\ Shows(a, q.key)'
      BY <1>6, <3>1, <3>2 DEF Anchors
    <3>4. db'.owner[a] = q.of
      BY <1>5, <3>1, <3>3
    <3>5. a \in log'[i].tracks <=> q.key \in log'[i].obs
      BY <1>1, <1>2, <1>4, <1>5, <3>1, <3>3
    <3>6. \A m \in Live : a \in log[m].tracks <=> q.key \in log[m].obs
      BY <3>1, <3>2 DEF Anchors
    <3> QED BY <1>1, <3>3, <3>4, <3>5, <3>6 DEF Anchors
  <2> QED BY <2>1 DEF Anchored
<1>8. AsideAnchored'
  <2>1. ASSUME NEW m \in Live, NEW k \in log[m].twice
        PROVE  \E a \in Tracks :
                 /\ a \in log[m].tracks /\ Shows(a, k)'
                 /\ \A n \in Live : n < m => (a \in log[n].tracks <=> k \in log[n].obs)
    BY <1>6 DEF ObsInv, AsideAnchored
  <2>2. ASSUME NEW k \in Keys(twice)
        PROVE  \E a \in Tracks :
                 /\ a \in Owned(db, s) /\ Shows(a, k)'
                 /\ \A n \in Live : a \in log[n].tracks <=> k \in log[n].obs
    <3>1. PICK x \in twice : k = x.key
      BY DEF Keys
    <3>2. x \in db.obs /\ x.of = s
      BY <1>4 DEF ObsOf
    <3>3. PICK a \in Tracks : Anchors(a, x)
      BY <3>2 DEF ObsInv, Anchored
    <3> QED BY <1>5, <1>6, <3>1, <3>2, <3>3 DEF Anchors
  <2>3. \A m \in Live : m \in Nat /\ ~ (i < m)
    BY <1>1, ObsShapes
  <2>4. ASSUME NEW m \in Live', NEW k \in log'[m].twice
        PROVE  \E a \in Tracks :
                 /\ a \in log'[m].tracks /\ Shows(a, k)'
                 /\ \A n \in Live' : n < m => (a \in log'[n].tracks <=> k \in log'[n].obs)
    <3>1. CASE m = i
      BY <1>1, <1>2, <2>2, <2>4, <3>1
    <3>2. CASE m \in Live
      BY <1>1, <2>1, <2>3, <2>4, <3>2
    <3> QED BY <1>1, <3>1, <3>2
  <2> QED BY <2>4 DEF AsideAnchored
<1> QED BY <1>2, <1>7, <1>8, MovedKeys DEF ObsInv

\* The observations that the merge n moved or deleted come back.
ObsReturns(n) ==
  /\ n \in Live /\ Live' = Live \ {n} /\ Tokens' = Tokens /\ SameLog
  /\ Len(log') \in Nat /\ Len(log) < Len(log')
  /\ db'.obs = Given(db.obs, log[n].obs, log[n].source)
                 \cup Again(log[n].twice, log[n].source)
  /\ Sound(db')

\* Whose they are then.
LEMMA ReturnedObs ==
  ASSUME TypeInv, ObsInv, NEW n, ObsReturns(n), NEW q \in db'.obs
  PROVE  /\ q = [key |-> q.key, of |-> q.of]
         /\ \/ q.key \in log[n].twice /\ q.of = log[n].source
            \/ \E x \in db.obs :
                 /\ q.key = x.key
                 /\ q.of = IF x.key \in log[n].obs THEN log[n].source ELSE x.of
<1>1. /\ n \in Live /\ q \in Given(db.obs, log[n].obs, log[n].source)
                               \cup Again(log[n].twice, log[n].source)
  BY DEF ObsReturns
<1>2. log[n].source \in People /\ db.obs \in SUBSET [key : ObsKeys, of : People]
  BY <1>1, Shapes, RowsAre DEF TypeInv
<1>3. CASE q \in Again(log[n].twice, log[n].source)
  BY <1>3 DEF Again
<1>4. CASE q \in Given(db.obs, log[n].obs, log[n].source)
  <2>1. q \in [key : ObsKeys, of : People]
    BY <1>2, <1>4, GivenTyped
  <2>2. \E x \in db.obs : /\ q.key = x.key
                          /\ IF x.key \in log[n].obs THEN q.of = log[n].source
                                                     ELSE q.of = x.of
    BY <1>2, <1>4, GivenObs
  <2> QED BY <2>1, <2>2
<1> QED BY <1>1, <1>3, <1>4

\* Keys stay unique, and dated, when a merge of people is undone.
LEMMA ReturnedKeys ==
  ASSUME TypeInv, ObsInv, NEW n, ObsReturns(n)
  PROVE  Dated' /\ KeysUnique' /\ Gone' /\ MergeOnce'
<1>1. /\ n \in Live /\ Live' = Live \ {n} /\ \A m \in Live : log'[m] = log[m]
      /\ Len(log') \in Nat /\ Len(log) < Len(log')
  BY DEF ObsReturns, SameLog
<1>2. \A q \in db'.obs :
        /\ q = [key |-> q.key, of |-> q.of]
        /\ \/ q.key \in log[n].twice /\ q.of = log[n].source
           \/ \E x \in db.obs :
                /\ q.key = x.key
                /\ q.of = IF x.key \in log[n].obs THEN log[n].source ELSE x.of
  BY ReturnedObs
<1>3. /\ Len(log) \in Nat /\ \A o \in db.obs : o.key[3] \in Nat /\ o.key[3] <= Len(log)
      /\ \A m \in Live : m \in Nat /\ m <= Len(log)
      /\ \A m \in Live : \A k \in log[m].twice : k[3] \in Nat /\ k[3] < m
  BY ObsShapes DEF ObsInv, Dated, Live, Done
<1>4. \A k \in log[n].twice, x \in db.obs : x.key # k
  BY <1>1 DEF ObsInv, Gone
<1>5. Dated'
  <2>1. ASSUME NEW q \in db'.obs PROVE q.key[3] <= Len(log') /\ q.key[3] # Len(log')
    <3>1. CASE q.key \in log[n].twice
      BY <1>1, <1>3, <3>1
    <3>2. CASE \E x \in db.obs : q.key = x.key
      BY <1>1, <1>3, <3>2
    <3> QED BY <1>2, <3>1, <3>2
  <2>2. \A m \in Live : \A k \in log[m].obs \cup log[m].twice : k[3] < m
    BY DEF ObsInv, Dated
  <2> QED BY <1>1, <2>1, <2>2 DEF Dated
<1>6. KeysUnique'
  <2>1. ASSUME NEW q1 \in db'.obs, NEW q2 \in db'.obs, q1.key = q2.key PROVE q1 = q2
    <3>1. CASE q1.key \in log[n].twice
      BY <1>2, <1>4, <2>1, <3>1
    <3>2. CASE q1.key \notin log[n].twice
      <4>1. PICK x1 \in db.obs :
              /\ q1.key = x1.key
              /\ q1.of = IF x1.key \in log[n].obs THEN log[n].source ELSE x1.of
        BY <1>2, <3>2
      <4>2. PICK x2 \in db.obs :
              /\ q2.key = x2.key
              /\ q2.of = IF x2.key \in log[n].obs THEN log[n].source ELSE x2.of
        BY <1>2, <2>1, <3>2
      <4>3. x1 = x2
        BY <2>1, <4>1, <4>2 DEF ObsInv, KeysUnique
      <4>4. q1 = [key |-> q1.key, of |-> q1.of] /\ q2 = [key |-> q2.key, of |-> q2.of]
        BY <1>2
      <4> QED BY <2>1, <4>1, <4>2, <4>3, <4>4
    <3> QED BY <3>1, <3>2
  <2> QED BY <2>1 DEF KeysUnique
<1>7. Gone'
  <2>1. ASSUME NEW m \in Live, m # n, NEW k \in log[m].twice, NEW q \in db'.obs
        PROVE  q.key # k
    <3>1. \A o \in db.obs : o.key # k
      BY DEF ObsInv, Gone
    <3>2. k \notin log[n].twice
      <4>1. CASE m < n
        BY <1>1, <4>1 DEF ObsInv, Gone
      <4>2. CASE n < m
        BY <1>1, <4>2 DEF ObsInv, Gone
      <4> QED BY <1>1, <1>3, <2>1, <4>1, <4>2
    <3> QED BY <1>2, <3>1, <3>2
  <2>2. \A m \in Live : \A k \in log[m].twice :
          \A l \in Live : m < l => k \notin log[l].obs /\ k \notin log[l].twice
    BY DEF ObsInv, Gone
  <2> QED BY <1>1, <2>1, <2>2 DEF Gone
<1>8. MergeOnce'
  BY <1>1 DEF ObsInv, MergeOnce
<1> QED BY <1>5, <1>6, <1>7, <1>8

\* The tracks that come back bring their observations.
LEMMA ObsReturned ==
  ASSUME TypeInv, OwnInv, ObsInv, NEW n, Returns(n), ObsReturns(n)
  PROVE  ObsInv'
<1> DEFINE s == log[n].source
           T == log[n].tracks
<1>1. /\ n \in Live /\ Live' = Live \ {n} /\ \A m \in Live : log'[m] = log[m]
      /\ Tokens' = Tokens /\ \A i \in Tokens : log'[i] = log[i]
      /\ Sound(db')
  BY DEF ObsReturns, SameLog
<1>2. \A a \in Tracks : db'.owner[a] = IF a \in T THEN s ELSE db.owner[a]
  BY DEF Returns, Moved
<1>3. \A m \in Live : n < m => T \cap log[m].tracks = {}
  BY Returning DEF OwnInv
<1>4. n \in Nat /\ \A m \in Live : m \in Nat
  BY <1>1, ObsShapes
<1> HIDE DEF s, T
<1>5. \A a, k : Shows(a, k) => Shows(a, k)'
  BY <1>1 DEF Shows
<1>6. Anchored'
  <2>1. ASSUME NEW q \in db'.obs, NEW x \in db.obs, q.key = x.key,
               q.of = IF x.key \in log[n].obs THEN s ELSE x.of
        PROVE  \E a \in Tracks : Anchors(a, q)'
    <3>1. PICK a \in Tracks : Anchors(a, x)
      BY DEF ObsInv, Anchored
    <3>2. a \in T <=> x.key \in log[n].obs
      BY <1>1, <3>1 DEF Anchors, T
    <3>3. db'.owner[a] = q.of
      BY <1>2, <2>1, <3>1, <3>2 DEF Anchors
    <3> QED BY <1>1, <1>5, <2>1, <3>1, <3>3 DEF Anchors
  <2>2. ASSUME NEW q \in db'.obs, q.key \in log[n].twice, q.of = s
        PROVE  \E a \in Tracks : Anchors(a, q)'
    <3>1. PICK a \in Tracks :
            /\ a \in T /\ Shows(a, q.key)
            /\ \A m \in Live : m < n => (a \in log[m].tracks <=> q.key \in log[m].obs)
      BY <1>1, <2>2 DEF ObsInv, AsideAnchored, T
    <3>2. \A m \in Live : n < m => q.key \notin log[m].obs
      BY <1>1, <2>2 DEF ObsInv, Gone
    <3>3. \A m \in Live' : a \in log'[m].tracks <=> q.key \in log'[m].obs
      BY <1>1, <1>3, <1>4, <3>1, <3>2
    <3> QED BY <1>2, <1>5, <2>2, <3>1, <3>3 DEF Anchors
  <2>3. ASSUME NEW q \in db'.obs
        PROVE  \/ q.key \in log[n].twice /\ q.of = s
               \/ \E x \in db.obs :
                    /\ q.key = x.key
                    /\ q.of = IF x.key \in log[n].obs THEN s ELSE x.of
    BY ReturnedObs DEF s
  <2> QED BY <2>1, <2>2, <2>3 DEF Anchored
<1>7. AsideAnchored'
  <2>1. ASSUME NEW m \in Live, NEW k \in log[m].twice
        PROVE  \E a \in Tracks :
                 /\ a \in log[m].tracks /\ Shows(a, k)'
                 /\ \A l \in Live : l < m => (a \in log[l].tracks <=> k \in log[l].obs)
    BY <1>5 DEF ObsInv, AsideAnchored
  <2> QED BY <1>1, <2>1 DEF AsideAnchored
<1> QED BY <1>1, <1>6, <1>7, ReturnedKeys DEF ObsInv

-----------------------------------------------------------------------------
(* The constraints of the schema, one by one.                              *)

OwnersExist(d) == \A t \in Tracks : d.owner[t] # Nobody => d.people[d.owner[t]].status # "none"

HomesExist(d) == \A t \in Tracks : d.home[t] # NoCluster => Exists(d, d.home[t])

RowExists(d, row) ==
  /\ row.label # Nobody => d.people[row.label].status # "none"
  /\ row.into # NoCluster => Exists(d, row.into)

LabelsExist(d) == \A c \in Clusters : Exists(d, c) => RowExists(d, d.clusters[c])

IntosExist(d) ==
  \A p \in People : d.people[p].into # Nobody => d.people[d.people[p].into].status # "none"

ObsOnce(d) == \A o1, o2 \in d.obs : o1.of = o2.of /\ o1.key[2] = o2.key[2] => o1 = o2

ProtosOnce(d) == \A q1, q2 \in d.protos : q1.of = q2.of /\ q1.key[2] = q2.key[2] => q1 = q2

\* What soundness is, in the terms of these proofs.
LEMMA SoundIs ==
  ASSUME NEW d
  PROVE  Sound(d) <=> /\ OwnersExist(d) /\ HomesExist(d) /\ LabelsExist(d) /\ IntosExist(d)
                      /\ ObsOnce(d) /\ ProtosOnce(d)
  BY DEF Sound, OwnersExist, HomesExist, LabelsExist, RowExists, IntosExist, ObsOnce,
         ProtosOnce

\* Somebody is seen once more, at events where they were not.
LEMMA NewObsOnce ==
  ASSUME Sound(db), NEW p, NEW T, NEW d, d.obs = db.obs \cup NewObs(db, p, T)
  PROVE  ObsOnce(d)
<1> DEFINE N == NewObs(db, p, T)
<1>1. \A q \in N : /\ q.of = p /\ \A o \in db.obs : o.of = p => o.key[2] # q.key[2]
                   /\ \A r \in N : r.key[2] = q.key[2] => r = q
  BY NewObsOf
<1> HIDE DEF N
<1>2. d.obs = db.obs \cup N
  BY DEF N
<1>3. \A o1, o2 \in db.obs : o1.of = o2.of /\ o1.key[2] = o2.key[2] => o1 = o2
  BY SoundIs DEF ObsOnce
<1>4. ASSUME NEW o1 \in d.obs, NEW o2 \in d.obs, o1.of = o2.of, o1.key[2] = o2.key[2]
      PROVE  o1 = o2
  <2>1. CASE o1 \in N /\ o2 \in N
    BY <1>1, <1>4, <2>1
  <2>2. CASE o1 \in N /\ o2 \in db.obs
    BY <1>1, <1>4, <2>2
  <2>3. CASE o1 \in db.obs /\ o2 \in N
    BY <1>1, <1>4, <2>3
  <2>4. CASE o1 \in db.obs /\ o2 \in db.obs
    BY <1>3, <1>4, <2>4
  <2> QED BY <1>2, <1>4, <2>1, <2>2, <2>3, <2>4
<1> QED BY <1>4 DEF ObsOnce

\* Samples are taken of tracks of which there was none.
LEMMA NewProtosOnce ==
  ASSUME Sound(db), NEW p, NEW A, NEW d, d.protos = db.protos \cup NewProtos(db, p, A)
  PROVE  ProtosOnce(d)
<1> DEFINE N == NewProtos(db, p, A)
           sources == {q.key[2] : q \in ProtosOf(db, p)}
<1>1. ASSUME NEW q \in N
      PROVE  /\ q.of = p /\ \A o \in db.protos : o.of = p => o.key[2] # q.key[2]
             /\ \A r \in N : r.key[2] = q.key[2] => r = q
  <2>1. N = {[key |-> <<p, t, Len(log)>>, of |-> p] : t \in A \ sources}
    BY DEF NewProtos, Now
  <2>2. PICK t \in A \ sources : q = [key |-> <<p, t, Len(log)>>, of |-> p]
    BY <1>1, <2>1
  <2>3. q.of = p /\ q.key = <<p, t, Len(log)>>
    BY <2>2
  <2>4. \A o \in db.protos : o.of = p => o.key[2] # t
    BY <2>2 DEF ProtosOf
  <2>5. ASSUME NEW r \in N, r.key[2] = q.key[2] PROVE r = q
    <3>1. PICK u \in A \ sources : r = [key |-> <<p, u, Len(log)>>, of |-> p]
      BY <2>1
    <3> HIDE DEF sources
    <3> QED BY <2>2, <2>3, <2>5, <3>1
  <2> HIDE DEF sources, N
  <2> QED BY <2>3, <2>4, <2>5
<1> HIDE DEF N
<1>2. d.protos = db.protos \cup N
  BY DEF N
<1>3. \A o1, o2 \in db.protos : o1.of = o2.of /\ o1.key[2] = o2.key[2] => o1 = o2
  BY SoundIs DEF ProtosOnce
<1>4. ASSUME NEW o1 \in d.protos, NEW o2 \in d.protos, o1.of = o2.of, o1.key[2] = o2.key[2]
      PROVE  o1 = o2
  <2>1. CASE o1 \in N /\ o2 \in N
    BY <1>1, <1>4, <2>1
  <2>2. CASE o1 \in N /\ o2 \in db.protos
    BY <1>1, <1>4, <2>2
  <2>3. CASE o1 \in db.protos /\ o2 \in N
    BY <1>1, <1>4, <2>3
  <2>4. CASE o1 \in db.protos /\ o2 \in db.protos
    BY <1>3, <1>4, <2>4
  <2> QED BY <1>2, <1>4, <2>1, <2>2, <2>3, <2>4
<1> QED BY <1>4 DEF ProtosOnce

\* Rows of clusters and people that stay keep what refers to them.
LEMMA RestSound ==
  ASSUME Sound(db), NEW d, d.home = db.home, d.clusters = db.clusters, d.people = db.people
  PROVE  HomesExist(d) /\ LabelsExist(d) /\ IntosExist(d)
<1>1. HomesExist(db) /\ LabelsExist(db) /\ IntosExist(db)
  BY SoundIs
<1> QED BY <1>1 DEF HomesExist, LabelsExist, IntosExist, RowExists, Exists

-----------------------------------------------------------------------------
(* The pipeline meets no constraint.                                       *)

\* An event arrives.
LEMMA SoundArrive ==
  ASSUME TypeInv, Sound(db), NEW e \in Events, Arrive(e)
  PROVE  Sound(db')
  BY ArriveRows DEF Sound, Exists

\* A track is recognised.
LEMMA SoundRecognise ==
  ASSUME TypeInv, Sound(db), NEW t \in Tracks, NEW p \in People,
         NEW A \in SUBSET ({t} \cap Good), Recognise(t, p, A)
  PROVE  Sound(db')
<1>0. A \in SUBSET Tracks
  OBVIOUS
<1>1. /\ db'.owner = Moved(db.owner, {t}, p) /\ db'.people = db.people
      /\ db'.home = db.home /\ db'.clusters = db.clusters
      /\ db'.obs = db.obs \cup NewObs(db, p, {t})
      /\ db'.protos = db.protos \cup NewProtos(db, p, A)
  BY <1>0, RecogniseRows
<1>2. OwnersExist(db')
  <2>1. IsActive(db, p) /\ OwnersExist(db)
    BY SoundIs DEF Recognise
  <2> QED BY <1>1, <2>1 DEF OwnersExist, IsActive, Moved
<1>3. HomesExist(db') /\ LabelsExist(db') /\ IntosExist(db')
  BY <1>1, RestSound
<1>4. ObsOnce(db') /\ ProtosOnce(db')
  BY <1>1, NewObsOnce, NewProtosOnce
<1> QED BY <1>2, <1>3, <1>4, SoundIs

\* A track joins a cluster.
LEMMA SoundCluster ==
  ASSUME TypeInv, Sound(db), IInv, NEW t \in Tracks, NEW c \in Clusters, Cluster(t, c)
  PROVE  Sound(db')
<1>1. /\ db.clusters \in [Clusters -> ClusterRow]
      /\ db.home \in [Tracks -> Clusters \cup {NoCluster}]
  BY RowsAre DEF TypeInv
<1>2. /\ db'.home = [db.home EXCEPT ![t] = c] /\ SamePeople(db')
      /\ db'.clusters = Refreshed(Created(c, t), c, {t})
  BY ClusterRows
<1>3. db.home[t] = NoCluster /\ ~Exists(db, t)
  BY DEF Cluster, IInv, Fresh, Undecided
<1> DEFINE row == IF c = t THEN [NoRow EXCEPT !.status = "open"] ELSE db.clusters[c]
           row2 == [row EXCEPT !.version = @ + 1]
<1>4. row \in ClusterRow
  BY <1>1 DEF NoRow, ClusterRow, Statuses, Owners
<1>5. db'.clusters = [db.clusters EXCEPT ![c] = row2]
  BY <1>1, <1>2 DEF Refreshed, Created
<1>6. row.status = "open" /\ (c = t => row.label = Nobody /\ row.into = NoCluster)
  BY DEF NoRow, Cluster, IsOpen
<1>7. c # t => row = db.clusters[c]
  OBVIOUS
<1> HIDE DEF row
<1>8. row2.status = row.status /\ row2.label = row.label /\ row2.into = row.into
  BY <1>4 DEF ClusterRow
<1> HIDE DEF row2
<1>9. /\ \A x \in Clusters \ {c} : db'.clusters[x] = db.clusters[x]
      /\ db'.clusters[c] = row2
  BY <1>1, <1>5
<1>10. Exists(db', c) /\ \A x \in Clusters : Exists(db, x) => Exists(db', x)
  BY <1>6, <1>8, <1>9 DEF Exists
<1>11. HomesExist(db')
  <2>1. HomesExist(db)
    BY SoundIs
  <2> QED BY <1>1, <1>2, <1>10, <2>1 DEF HomesExist
<1>12. LabelsExist(db')
  <2>1. LabelsExist(db) /\ db'.people = db.people
    BY <1>2, SoundIs DEF SamePeople
  <2>2. ASSUME NEW x \in Clusters, Exists(db', x) PROVE RowExists(db', db'.clusters[x])
    <3>1. CASE x # c
      <4>1. RowExists(db, db.clusters[x]) /\ db'.clusters[x] = db.clusters[x]
        BY <1>9, <2>1, <2>2, <3>1 DEF LabelsExist, Exists
      <4>2. db.clusters[x].into \in Clusters \cup {NoCluster}
        BY <1>1 DEF ClusterRow
      <4> QED BY <1>10, <2>1, <4>1, <4>2 DEF RowExists
    <3>2. CASE x = c /\ c = t
      BY <1>6, <1>8, <1>9, <3>2 DEF RowExists
    <3>3. CASE x = c /\ c # t
      <4>1. Exists(db, c)
        BY <3>3 DEF Cluster, IsOpen, Exists
      <4>2. RowExists(db, db.clusters[c])
        BY <2>1, <4>1 DEF LabelsExist
      <4>3. db.clusters[c].into \in Clusters \cup {NoCluster}
        BY <1>1 DEF ClusterRow
      <4> QED BY <1>7, <1>8, <1>9, <1>10, <2>1, <3>3, <4>2, <4>3 DEF RowExists
    <3> QED BY <3>1, <3>2, <3>3
  <2> QED BY <2>2 DEF LabelsExist
<1>13. OwnersExist(db') /\ IntosExist(db') /\ ObsOnce(db') /\ ProtosOnce(db')
  <2>1. OwnersExist(db) /\ IntosExist(db) /\ ObsOnce(db) /\ ProtosOnce(db)
    BY SoundIs
  <2> QED BY <1>2, <2>1 DEF SamePeople, OwnersExist, IntosExist, ObsOnce, ProtosOnce
<1> QED BY <1>11, <1>12, <1>13, SoundIs

-----------------------------------------------------------------------------
(* Every step keeps the observations in order.                             *)

\* A step that leaves observations, tracks and labels alone.
LEMMA ObsStill ==
  ASSUME TypeInv, ObsInv, Len(log') \in Nat, Len(log) <= Len(log'), SameLog, Live' = Live,
         Tokens' \subseteq Tokens, db'.obs = db.obs, db'.owner = db.owner, Sound(db')
  PROVE  ObsInv'
<1>1. db'.obs \subseteq db.obs
  OBVIOUS
<1>2. \A o \in db'.obs, a \in Tracks : Anchors(a, o) => db'.owner[a] = db.owner[a]
  OBVIOUS
<1> QED BY <1>1, <1>2, ObsLess

\* The log has as many operations as before.
LEMMA SameLength ==
  ASSUME TypeInv, UNCHANGED <<log, undone>>
  PROVE  /\ SameLog /\ Live' = Live /\ Tokens' \subseteq Tokens
         /\ Len(log') \in Nat /\ Len(log) <= Len(log')
<1>1. Len(log) \in Nat /\ Len(log') = Len(log)
  BY ObsShapes
<1> QED BY <1>1, SameLogThen

\* A request that is rolled back keeps observations in order.
LEMMA ObsRolledBack ==
  ASSUME TypeInv, ObsInv, NEW kind, RolledBack(kind), undone' = undone
  PROVE  ObsInv'
<1>1. UNCHANGED <<log, undone>> /\ db' = db
  BY DEF RolledBack
<1>2. Sound(db') /\ db'.obs = db.obs /\ db'.owner = db.owner
  BY <1>1 DEF ObsInv
<1> QED BY <1>1, <1>2, SameLength, ObsStill

\* The pipeline keeps them in order: a track that is recognised was nobody's.
LEMMA ObsPipeline ==
  ASSUME TypeInv, IInv, OwnInv, ObsInv, Pipeline
  PROVE  ObsInv'
<1>1. Sound(db)
  BY DEF ObsInv
<1>2. UNCHANGED <<log, undone>>
  BY DEF Pipeline, Arrive, Recognise, Cluster
<1>3. /\ SameLog /\ Live' = Live /\ Tokens' \subseteq Tokens
      /\ Len(log') \in Nat /\ Len(log) <= Len(log')
  BY <1>2, SameLength
<1>4. ASSUME NEW e \in Events, Arrive(e) PROVE ObsInv'
  <2>1. Sound(db')
    BY <1>1, <1>4, SoundArrive
  <2>2. db'.obs = db.obs /\ db'.owner = db.owner
    BY <1>4, ArriveRows
  <2> QED BY <1>3, <2>1, <2>2, ObsStill
<1>5. ASSUME NEW t \in Tracks, NEW c \in Clusters, Cluster(t, c) PROVE ObsInv'
  <2>1. Sound(db')
    BY <1>1, <1>5, SoundCluster
  <2>2. db'.obs = db.obs /\ db'.owner = db.owner
    BY <1>5, ClusterRows DEF SamePeople
  <2> QED BY <1>3, <2>1, <2>2, ObsStill
<1>6. ASSUME NEW t \in Tracks, NEW p \in People, NEW A \in SUBSET ({t} \cap Good),
             Recognise(t, p, A)
      PROVE  ObsInv'
  <2>1. A \in SUBSET Tracks /\ Undecided(t)
    BY <1>6 DEF Recognise, Undecided
  <2>2. /\ db'.owner = Moved(db.owner, {t}, p)
        /\ db'.obs = db.obs \cup NewObs(db, p, {t})
    BY <1>6, <2>1, RecogniseRows
  <2>3. Sound(db')
    BY <1>1, <1>6, SoundRecognise
  <2>4. db.owner[t] = Nobody
    BY <2>1 DEF OwnInv, Unowned
  <2>5. \A n \in Tokens' \ Tokens : FALSE
    BY <1>3
  <2>6. Sees({t}, p)
    BY <1>3, <2>2, <2>3, <2>4, <2>5 DEF Sees
  <2> QED BY <2>6, ObsSees
<1> QED BY <1>4, <1>5, <1>6 DEF Pipeline

\* A label or assignment of an open cluster, whose tracks are nobody's.
LEMMA ObsToken ==
  ASSUME TypeInv, MarkInv, OwnInv, ObsInv, NEW c \in Clusters, NEW p \in People, NEW A,
         NEW d, NEW entry, Committing(d, entry), undone' = undone, IsOpen(db, c),
         Learns(d, c, p, A), entry.kind \in {"label", "assign"},
         entry.kind = "assign" =>
           /\ entry.tracks = Members(db, c)
           /\ entry.obs = Keys(NewObs(db, p, Members(db, c)))
  PROVE  ObsInv'
<1> DEFINE T == Members(db, c)
           i == Len(log) + 1
<1>1. log' = Append(log, entry) /\ db' = d /\ Sound(d)
  BY DEF Committing
<1>2. /\ Live' = Live /\ Tokens' = Tokens \cup {i} /\ log'[i] = entry
      /\ \A n \in Done : log'[n] = log[n]
  BY <1>1, LogRequest
<1>3. Len(log) \in Nat /\ Len(log') \in Nat /\ Len(log) <= Len(log')
  BY <1>1, Appended DEF TypeInv
<1> HIDE DEF i
<1>4. SameLog
  BY <1>2, Shapes DEF SameLog
<1>5. /\ db'.owner = Moved(db.owner, T, p)
      /\ db'.obs = db.obs \cup NewObs(db, p, T)
  BY <1>1 DEF Learns
<1>6. \A n \in Tokens : log[n].cluster # c
  BY TokensMark DEF MarkInv, OneMark
<1>7. \A t \in T : t \in Tracks /\ db.owner[t] = Nobody
  <2>1. c # NoCluster
    BY IdentityAssumption DEF Clusters
  <2> QED BY <1>6, <2>1 DEF Members, OwnInv, Unowned
<1>8. \A n \in Tokens' \ Tokens : log'[n].kind = "assign" =>
        log'[n].tracks = T /\ log'[n].obs = Keys(NewObs(db, p, T))
  BY <1>2
<1> HIDE DEF T
<1>9. Sees(T, p)
  BY <1>1, <1>2, <1>3, <1>4, <1>5, <1>7, <1>8 DEF Sees
<1> QED BY <1>9, ObsSees

\* A request that leaves observations and tracks alone, and is no label nor merge.
LEMMA ObsAside ==
  ASSUME TypeInv, ObsInv, NEW d, NEW entry, Committing(d, entry), undone' = undone,
         entry.kind \notin {"label", "assign", "merge_people"}, SamePeople(d)
  PROVE  ObsInv'
<1>1. log' = Append(log, entry) /\ db' = d /\ Sound(d)
  BY DEF Committing
<1>2. Live' = Live /\ Tokens' = Tokens /\ \A n \in Done : log'[n] = log[n]
  BY <1>1, LogRequest
<1>3. Len(log) \in Nat /\ Len(log') \in Nat /\ Len(log) <= Len(log')
  BY <1>1, Appended DEF TypeInv
<1>4. SameLog
  BY <1>2, Shapes DEF SameLog
<1>5. db'.obs = db.obs /\ db'.owner = db.owner /\ Sound(db') /\ Tokens' \subseteq Tokens
  BY <1>1, <1>2 DEF SamePeople
<1> QED BY <1>2, <1>3, <1>4, <1>5, ObsStill

\* A merge of people keeps them in order.
LEMMA ObsMerges ==
  ASSUME TypeInv, ObsInv, NEW s \in People, NEW t \in People, MergePeople(s, t)
  PROVE  ObsInv'
<1>1. PICK d : Mutates("merge_people", d, MergeEntry(s, t)) /\ Merges(d, s, t)
  BY MergePeopleRows
<1>2. undone' = undone /\ s # t /\ IsActive(db, s) /\ IsActive(db, t)
  BY DEF MergePeople
<1>3. CASE RolledBack("merge_people")
  BY <1>2, <1>3, ObsRolledBack
<1>4. CASE Committing(d, MergeEntry(s, t))
  <2> DEFINE i == Len(log) + 1
             entry == MergeEntry(s, t)
  <2>1. log' = Append(log, entry) /\ db' = d /\ Sound(d)
    BY <1>4 DEF Committing
  <2>2. /\ entry.kind = "merge_people" /\ entry.source = s /\ entry.target = t
        /\ entry.tracks = Owned(db, s) /\ entry.protos = Keys(ProtosOf(db, s))
        /\ entry.obs = Keys(ObsOf(db, s) \ Twice(db, s, t))
        /\ entry.twice = Keys(Twice(db, s, t))
    BY DEF MergeEntry
  <2> HIDE DEF entry
  <2>3. /\ Live' = Live \cup {i} /\ Tokens' = Tokens /\ log'[i] = entry
        /\ i \notin Done /\ \A n \in Done : log'[n] = log[n] /\ n < i
        /\ i \in Nat /\ Len(log') = i
    <3>1. /\ Len(log) \in Nat /\ Len(log) + 1 \notin Done
          /\ log'[Len(log) + 1] = entry
          /\ \A n \in Done : log'[n] = log[n] /\ n < Len(log) + 1
          /\ Live' = IF entry.kind = "merge_people" THEN Live \cup {Len(log) + 1} ELSE Live
          /\ Tokens' = IF entry.kind \in {"label", "assign"} THEN Tokens \cup {Len(log) + 1}
                                                            ELSE Tokens
      BY <1>2, <2>1, LogRequest
    <3>2. Len(log') = Len(log) + 1
      BY <2>1, Appended DEF TypeInv
    <3> QED BY <2>2, <3>1, <3>2
  <2>4. i = Len(log) + 1
    OBVIOUS
  <2> HIDE DEF i
  <2>5. Live \subseteq Done /\ Tokens \subseteq Done
    BY Shapes
  <2>6. SameLog /\ i \notin Live /\ \A m \in Live : m < i
    BY <2>3, <2>5 DEF SameLog
  <2>7. /\ db'.people = [db.people EXCEPT ![s] = MergedAway(t)]
        /\ db'.owner = Moved(db.owner, Owned(db, s), t)
        /\ db'.protos = Given(db.protos, Keys(ProtosOf(db, s)), t)
        /\ db'.obs = Given(db.obs \ Twice(db, s, t), Keys(ObsOf(db, s) \ Twice(db, s, t)), t)
    BY <1>1, <2>1 DEF Merges
  <2>8. Moves(i, s, t)
    BY <1>2, <2>2, <2>3, <2>6, <2>7 DEF Moves
  <2>9. ObsMoves(i, s, t)
    BY <2>1, <2>2, <2>3, <2>4, <2>7, <2>8 DEF ObsMoves
  <2> QED BY <2>9, ObsMoved
<1> QED BY <1>1, <1>3, <1>4, Outcome

\* Clusters were merged, once it is recorded.
LEMMA MixedThen ==
  ASSUME TypeInv, NEW s, NEW t, NEW d, Committing(d, MergeClustersEntry(s, t))
  PROVE  Mixed'
<1>1. log' = Append(log, MergeClustersEntry(s, t)) /\ IsLog
  BY DEF Committing, TypeInv
<1>2. Len(log) \in Nat /\ Len(log') = Len(log) + 1 /\ IsLog'
      /\ log'[Len(log) + 1] = MergeClustersEntry(s, t)
  BY <1>1, Appended
<1>3. Len(log) + 1 \in DOMAIN log'
  BY <1>2 DEF IsLog
<1> QED BY <1>2, <1>3 DEF Mixed, MergeClustersEntry

\* The requests keep them in order, unless clusters are merged.
LEMMA ObsRequests ==
  ASSUME TypeInv, IInv, MarkInv, OwnInv, ObsInv, Requests
  PROVE  ObsInv' \/ Mixed'
<1>1. ASSUME NEW c \in Clusters, NEW A, Label(c, A) PROVE ObsInv'
  <2> DEFINE p == Now + 1
             entry == [kind |-> "label", cluster |-> c, person |-> p,
                       tracks |-> Members(db, c)]
  <2>1. PICK d : Mutates("label", d, entry) /\ Learns(d, c, p, A)
    BY <1>1, LabelRows
  <2>2. p \in People /\ IsOpen(db, c) /\ undone' = undone
    BY <1>1, LabelRows DEF Label
  <2>3. entry.kind = "label"
    OBVIOUS
  <2> HIDE DEF entry, p
  <2>4. CASE RolledBack("label")
    BY <2>2, <2>4, ObsRolledBack
  <2>5. CASE Committing(d, entry)
    <3>1. /\ entry.kind \in {"label", "assign"}
          /\ entry.kind = "assign" =>
               /\ entry.tracks = Members(db, c)
               /\ entry.obs = Keys(NewObs(db, p, Members(db, c)))
      BY <2>3
    <3> QED BY <2>1, <2>2, <2>5, <3>1, ObsToken
  <2> QED BY <2>1, <2>4, <2>5, Outcome
<1>2. ASSUME NEW c \in Clusters, NEW p \in People, NEW A, Assign(c, p, A) PROVE ObsInv'
  <2>1. PICK d : Mutates("assign", d, AssignEntry(d, c, p, A)) /\ Learns(d, c, p, A)
    BY <1>2, AssignRows
  <2>2. IsOpen(db, c) /\ undone' = undone
    BY <1>2 DEF Assign
  <2> DEFINE entry == AssignEntry(d, c, p, A)
  <2>3. /\ entry.kind = "assign" /\ entry.tracks = Members(db, c)
        /\ entry.obs = Keys(NewObs(db, p, Members(db, c)))
    BY DEF AssignEntry
  <2> HIDE DEF entry
  <2>4. CASE RolledBack("assign")
    BY <2>2, <2>4, ObsRolledBack
  <2>5. CASE Committing(d, entry)
    BY <2>1, <2>2, <2>3, <2>5, ObsToken
  <2> QED BY <2>1, <2>4, <2>5, Outcome DEF entry
<1>3. ASSUME NEW c \in Clusters, FalsePositive(c) PROVE ObsInv'
  <2> DEFINE entry == [kind |-> "false_positive", cluster |-> c,
                       status |-> db.clusters[c].status]
  <2>1. PICK d : Mutates("false_positive", d, entry) /\ SamePeople(d)
    BY <1>3, FalsePositiveRows
  <2>2. undone' = undone
    BY <1>3 DEF FalsePositive
  <2>3. entry.kind = "false_positive"
    OBVIOUS
  <2> HIDE DEF entry
  <2>4. CASE RolledBack("false_positive")
    BY <2>2, <2>4, ObsRolledBack
  <2>5. CASE Committing(d, entry)
    BY <2>1, <2>2, <2>3, <2>5, ObsAside
  <2> QED BY <2>1, <2>4, <2>5, Outcome
<1>4. ASSUME NEW c \in Clusters, NEW T \in SUBSET Tracks, Split(c, T) PROVE ObsInv'
  BY <1>4, SplitFails, ObsRolledBack
<1>5. ASSUME NEW s \in Clusters, NEW t \in Clusters, MergeClusters(s, t)
      PROVE  ObsInv' \/ Mixed'
  <2>1. PICK d : Mutates("merge_clusters", d, MergeClustersEntry(s, t))
    BY <1>5, MergeClustersRows
  <2>2. undone' = undone
    BY <1>5 DEF MergeClusters
  <2>3. CASE RolledBack("merge_clusters")
    BY <2>2, <2>3, ObsRolledBack
  <2>4. CASE Committing(d, MergeClustersEntry(s, t))
    BY <2>4, MixedThen
  <2> QED BY <2>1, <2>3, <2>4, Outcome
<1> QED BY <1>1, <1>2, <1>3, <1>4, <1>5, ObsMerges DEF Requests

\* What the undo of no merge does to the operations that stand.
LEMMA UndoneAside ==
  ASSUME TypeInv, NEW n \in Done \ Live, NEW d, Committing(d, UndoEntry(n)),
         undone' = undone \cup {n}
  PROVE  /\ db' = d /\ Sound(db') /\ SameLog /\ Live' = Live /\ Tokens' \subseteq Tokens
         /\ Len(log') \in Nat /\ Len(log) <= Len(log')
<1>1. /\ log' = Append(log, UndoEntry(n)) /\ db' = d /\ Sound(d)
      /\ Live' = Live \ {n} /\ Tokens' = Tokens \ {n} /\ SameLog
  BY UndoneLog
<1>2. Len(log) \in Nat /\ Len(log') = Len(log) + 1
  BY <1>1, Appended DEF TypeInv
<1> QED BY <1>1, <1>2

\* The undo of a label deletes all observations of its person, who has its tracks.
LEMMA ObsUndoLabel ==
  ASSUME TypeInv, ObsInv, NEW n, UndoLabel(n)
  PROVE  ObsInv'
<1>1. PICK d : Undoing(n, "undo_label", d) /\ Unlabels(d, log[n])
  BY UndoLabelRows
<1>2. MayUnlabel(log[n])
  BY UndoLabelRows
<1>3. n \in Done \ Live
  BY <1>1, <1>2 DEF Undoing, MayUnlabel, Live, Done
<1>4. CASE RolledBack("undo_label") /\ undone' = undone
  BY <1>4, ObsRolledBack
<1>5. CASE Committing(d, UndoEntry(n)) /\ undone' = undone \cup {n}
  <2> DEFINE p == log[n].person
             T == log[n].tracks
  <2>1. /\ db' = d /\ Sound(db') /\ SameLog /\ Live' = Live /\ Tokens' \subseteq Tokens
        /\ Len(log') \in Nat /\ Len(log) <= Len(log')
    BY <1>3, <1>5, UndoneAside
  <2>2. /\ db'.owner = Moved(db.owner, T, Nobody)
        /\ db'.obs = Without(db.obs, Keys(ObsOf(db, p)))
    BY <1>1, <2>1 DEF Unlabels
  <2>3. \A t \in T : db.owner[t] = p
    BY <1>2 DEF MayUnlabel, Owned
  <2> HIDE DEF p, T
  <2>4. \A o \in db'.obs : o \in db.obs /\ o.of # p
    BY <2>2 DEF Without, Keys, ObsOf
  <2>5. \A o \in db'.obs, a \in Tracks : Anchors(a, o) => db'.owner[a] = db.owner[a]
    BY <2>2, <2>3, <2>4 DEF Anchors, Moved
  <2>6. db'.obs \subseteq db.obs
    BY <2>4
  <2> QED BY <2>1, <2>5, <2>6, ObsLess
<1> QED BY <1>1, <1>4, <1>5, UndoingOutcome

\* The undo of an assignment deletes the observations it made, so the others are of
\* tracks that stay, or of tracks that came with no such assignment.
LEMMA ObsUndoAssign ==
  ASSUME TypeInv, ObsInv, NEW n, UndoAssign(n)
  PROVE  ObsInv'
<1>1. PICK d : Undoing(n, "undo_assign", d) /\ Unassigns(d, log[n])
  BY UndoAssignRows
<1>2. MayUnassign(log[n])
  BY UndoAssignRows
<1>3. n \in Done \ Live /\ n \in Tokens /\ log[n].kind = "assign"
  BY <1>1, <1>2 DEF Undoing, MayUnassign, Tokens, Live, Done
<1>4. CASE RolledBack("undo_assign") /\ undone' = undone
  BY <1>4, ObsRolledBack
<1>5. CASE Committing(d, UndoEntry(n)) /\ undone' = undone \cup {n}
  <2>1. /\ db' = d /\ Sound(db') /\ SameLog /\ Live' = Live /\ Tokens' \subseteq Tokens
        /\ Len(log') \in Nat /\ Len(log) <= Len(log')
    BY <1>3, <1>5, UndoneAside
  <2>2. /\ db'.owner = [t \in Tracks |-> IF t \in log[n].tracks THEN log[n].owners[t]
                                                                ELSE db.owner[t]]
        /\ db'.obs = Without(db.obs, log[n].obs)
    BY <1>1, <2>1 DEF Unassigns
  <2>3. \A o \in db'.obs : o \in db.obs /\ o.key \notin log[n].obs
    BY <2>2 DEF Without
  <2>4. ASSUME NEW o \in db'.obs, NEW a \in Tracks, Anchors(a, o)
        PROVE  db'.owner[a] = db.owner[a]
    <3>1. a \notin log[n].tracks
      BY <1>3, <2>3, <2>4 DEF Anchors, Shows
    <3> QED BY <2>2, <3>1
  <2>5. db'.obs \subseteq db.obs
    BY <2>3
  <2> QED BY <2>1, <2>4, <2>5, ObsLess
<1> QED BY <1>1, <1>4, <1>5, UndoingOutcome

\* The undo of a false positive touches none.
LEMMA ObsUndoFalse ==
  ASSUME TypeInv, ObsInv, NEW n, UndoFalsePositive(n)
  PROVE  ObsInv'
<1>1. PICK d : Undoing(n, "undo_false_positive", d) /\ SamePeople(d)
  BY UndoFalsePositiveRows
<1>2. log[n].kind = "false_positive"
  BY UndoFalsePositiveRows
<1>3. n \in Done \ Live
  BY <1>1, <1>2 DEF Undoing, Live, Done
<1>4. CASE RolledBack("undo_false_positive") /\ undone' = undone
  BY <1>4, ObsRolledBack
<1>5. CASE Committing(d, UndoEntry(n)) /\ undone' = undone \cup {n}
  <2>1. /\ db' = d /\ Sound(db') /\ SameLog /\ Live' = Live /\ Tokens' \subseteq Tokens
        /\ Len(log') \in Nat /\ Len(log) <= Len(log')
    BY <1>3, <1>5, UndoneAside
  <2>2. db'.obs = db.obs /\ db'.owner = db.owner
    BY <1>1, <2>1 DEF SamePeople
  <2> QED BY <2>1, <2>2, ObsStill
<1> QED BY <1>1, <1>4, <1>5, UndoingOutcome

\* The undo of a merge whose target was not merged brings back what it moved.
LEMMA ObsUndoMerge ==
  ASSUME TypeInv, UndosMarked, OwnInv, ObsInv, NEW n, UndoMergePeople(n)
  PROVE  ObsInv' \/ Crossed'
<1>1. PICK d : Undoing(n, "undo_merge_people", d) /\ Unmerges(d, log[n])
  BY UndoMergePeopleRows
<1>2. MayUnmerge(log[n])
  BY UndoMergePeopleRows
<1>3. n \in Done /\ n \in Live /\ n \notin Tokens /\ log[n].kind = "merge_people"
  BY <1>1, <1>2 DEF Undoing, MayUnmerge, Tokens, Live, Done
<1>4. CASE RolledBack("undo_merge_people") /\ undone' = undone
  BY <1>4, ObsRolledBack
<1>5. CASE Committing(d, UndoEntry(n)) /\ undone' = undone \cup {n} /\ ~Crossed'
  <2>1. /\ log' = Append(log, UndoEntry(n)) /\ db' = d /\ Sound(db')
        /\ Live' = Live \ {n} /\ Tokens' = Tokens \ {n} /\ SameLog
    BY <1>3, <1>5, UndoneLog
  <2>2. Tokens' = Tokens
    BY <1>3, <2>1
  <2>3. IsLog' /\ Len(log) \in Nat /\ Len(log') = Len(log) + 1
    BY <2>1, Appended DEF TypeInv
  <2>4. \A m \in Live : log[m].source # log[n].target
    BY <1>3, <1>5, <2>1, <2>3, NotCrossing
  <2>5. /\ db'.owner = Moved(db.owner, log[n].tracks, log[n].source)
        /\ db'.obs = Given(db.obs, log[n].obs, log[n].source)
                       \cup Again(log[n].twice, log[n].source)
        /\ db'.protos = Given(db.protos, log[n].protos, log[n].source)
        /\ db'.people = [db.people EXCEPT ![log[n].source] = Active]
    BY <1>1, <2>1 DEF Unmerges
  <2>6. Returns(n)
    BY <1>3, <2>1, <2>2, <2>4, <2>5 DEF Returns
  <2>7. Len(log') \in Nat /\ Len(log) < Len(log')
    BY <2>3
  <2>8. ObsReturns(n)
    BY <1>3, <2>1, <2>2, <2>5, <2>7 DEF ObsReturns
  <2> QED BY <2>6, <2>8, ObsReturned
<1> QED BY <1>1, <1>4, <1>5, UndoingOutcome

\* At first nobody was seen.
LEMMA ObsInit == Init => ObsInv
<1> SUFFICES ASSUME Init PROVE ObsInv
  OBVIOUS
<1>1. Live = {}
  BY DEF Init, Done, Live
<1>2. db.obs = {} /\ db.protos = {}
  BY DEF Init
<1>3. /\ \A t \in Tracks : db.owner[t] = Nobody /\ db.home[t] = NoCluster
      /\ \A c \in Clusters : ~Exists(db, c)
      /\ \A p \in People : db.people[p].into = Nobody
  BY DEF Init, NoRow, NoPerson, Exists
<1>4. Sound(db)
  BY <1>2, <1>3 DEF Sound
<1> QED BY <1>1, <1>2, <1>4 DEF ObsInv, Anchored, AsideAnchored, Gone, Dated, KeysUnique,
                                MergeOnce

\* Every step keeps observations in order, unless clusters were merged or undos crossed.
LEMMA ObsStep ==
  ASSUME TypeInv, UndosMarked, IInv, MarkInv, OwnInv, ObsInv, [Next]_vars
  PROVE  ObsInv' \/ Mixed' \/ Crossed'
<1>1. CASE UNCHANGED vars
  <2>1. UNCHANGED <<log, undone>> /\ db' = db
    BY <1>1 DEF vars
  <2>2. Sound(db') /\ db'.obs = db.obs /\ db'.owner = db.owner
    BY <2>1 DEF ObsInv
  <2> QED BY <2>1, <2>2, SameLength, ObsStill
<1>2. ASSUME NEW n, UndoMergeClusters(n) PROVE Mixed'
  <2>1. Mixed /\ [Next]_vars
    BY <1>2 DEF UndoMergeClusters, Undoable, Mixed, Next
  <2> QED BY <2>1, BadStays
<1>3. CASE Undoes
  BY <1>2, <1>3, ObsUndoLabel, ObsUndoAssign, ObsUndoFalse, ObsUndoMerge DEF Undoes
<1> QED BY <1>1, <1>3, ObsPipeline, ObsRequests DEF Next

\* What holds, with observations, as long as no clusters were merged and no undos crossed.
Seen == Straight /\ ObsInv

\* Everything is in order until clusters are merged or undos cross.
LEMMA SeenStep ==
  ASSUME TypeInv, UndosMarked, Mixed \/ Crossed \/ Seen, [Next]_vars
  PROVE  (Mixed \/ Crossed \/ Seen)'
<1>1. CASE Mixed \/ Crossed
  BY <1>1, BadStays
<1>2. CASE Seen
  BY <1>2, StraightStep, ObsStep DEF Seen, Straight
<1> QED BY <1>1, <1>2

\* So it is always.
LEMMA Seeing == Spec => [](Mixed \/ Crossed \/ Seen)
<1>1. Init => Mixed \/ Crossed \/ Seen
  BY StraightInit, ObsInit DEF Seen
<1>2. /\ TypeInv /\ UndosMarked /\ (Mixed \/ Crossed \/ Seen) /\ [Next]_vars
      => (Mixed \/ Crossed \/ Seen)'
  BY SeenStep
<1> QED BY <1>1, <1>2, Typed, Marked1, PTL DEF Spec

\* Nobody is counted as seen at an event where none of their tracks was: merges move
\* moved_observation_ids, delete and bring back deleted_observations, and the undo of
\* an assignment deletes created_observation_ids, in any order.
THEOREM SightsAreGrounded == Spec => []ObservationsGrounded
<1>1. Seen => ObservationsGrounded
  <2>1. SUFFICES ASSUME Seen, NEW o \in db.obs
                 PROVE  \E t \in Owned(db, o.of) : EventOf[t] = o.key[2]
    BY DEF ObservationsGrounded, Grounded
  <2>2. PICK a \in Tracks : Anchors(a, o)
    BY <2>1 DEF Seen, ObsInv, Anchored
  <2> QED BY <2>2 DEF Anchors, Shows, Owned
<1>2. Mixed \/ Crossed => ObservationsGrounded
  BY DEF ObservationsGrounded
<1> QED BY <1>1, <1>2, Seeing, PTL

-----------------------------------------------------------------------------
(* Requests meet no constraint of the schema.                              *)

\* Whoever is there stays.
PeopleStay(d) ==
  \A x \in People : db.people[x].status # "none" => d.people[x].status # "none"

\* Tracks get an owner who is there, or none.
LEMMA OwnersStay ==
  ASSUME TypeInv, Sound(db), NEW d, NEW T, NEW p, d.owner = Moved(db.owner, T, p),
         p = Nobody \/ d.people[p].status # "none", PeopleStay(d)
  PROVE  OwnersExist(d)
<1>1. OwnersExist(db) /\ db.owner \in [Tracks -> Owners]
  BY SoundIs, Shapes
<1>2. ASSUME NEW t \in Tracks, d.owner[t] # Nobody PROVE d.people[d.owner[t]].status # "none"
  <2>1. d.owner[t] = IF t \in T THEN p ELSE db.owner[t]
    BY DEF Moved
  <2>2. CASE t \in T
    BY <1>2, <2>1, <2>2
  <2>3. CASE t \notin T
    <3>1. db.owner[t] \in People /\ db.people[db.owner[t]].status # "none"
      BY <1>1, <1>2, <2>1, <2>3 DEF OwnersExist, Owners
    <3> QED BY <2>1, <2>3, <3>1 DEF PeopleStay
  <2> QED BY <2>2, <2>3
<1> QED BY <1>2 DEF OwnersExist

\* Clusters that change refer to what is there.
LEMMA RowsStay ==
  ASSUME TypeInv, Sound(db), NEW d, d.home = db.home, PeopleStay(d),
         \A x \in Clusters : \/ d.clusters[x] = db.clusters[x]
                             \/ d.clusters[x].status # "none" /\ RowExists(d, d.clusters[x])
  PROVE  HomesExist(d) /\ LabelsExist(d)
<1>1. HomesExist(db) /\ LabelsExist(db)
  BY SoundIs
<1>2. /\ db.clusters \in [Clusters -> ClusterRow]
      /\ db.home \in [Tracks -> Clusters \cup {NoCluster}]
  BY RowsAre DEF TypeInv
<1>3. \A x \in Clusters : Exists(db, x) => Exists(d, x)
  BY DEF Exists
<1>4. HomesExist(d)
  BY <1>1, <1>2, <1>3 DEF HomesExist
<1>5. ASSUME NEW x \in Clusters, Exists(d, x) PROVE RowExists(d, d.clusters[x])
  <2>1. CASE d.clusters[x] = db.clusters[x]
    <3>1. RowExists(db, db.clusters[x])
      BY <1>1, <1>5, <2>1 DEF LabelsExist, Exists
    <3>2. /\ db.clusters[x].label \in People \cup {Nobody}
          /\ db.clusters[x].into \in Clusters \cup {NoCluster}
      BY <1>2 DEF ClusterRow, Owners
    <3> QED BY <1>3, <2>1, <3>1, <3>2 DEF RowExists, PeopleStay
  <2> QED BY <2>1
<1> QED BY <1>4, <1>5 DEF LabelsExist

\* People that change are merged into somebody who is there, if into anybody.
LEMMA IntosStay ==
  ASSUME TypeInv, Sound(db), NEW d, PeopleStay(d),
         \A x \in People : \/ d.people[x].into \in {db.people[x].into, Nobody}
                           \/ d.people[d.people[x].into].status # "none"
  PROVE  IntosExist(d)
<1>1. IntosExist(db) /\ db.people \in [People -> PersonRow]
  BY SoundIs, Shapes
<1>2. \A x \in People : db.people[x].into \in People \cup {Nobody}
  BY <1>1 DEF PersonRow, Owners
<1> QED BY <1>1, <1>2 DEF IntosExist, PeopleStay

\* Some rows of the rows that satisfied the constraints.
LEMMA LessOnce ==
  ASSUME Sound(db), NEW d, d.obs \subseteq db.obs, d.protos \subseteq db.protos
  PROVE  ObsOnce(d) /\ ProtosOnce(d)
<1>1. ObsOnce(db) /\ ProtosOnce(db)
  BY SoundIs
<1> QED BY <1>1 DEF ObsOnce, ProtosOnce

\* All prototypes of a track are of its owner, so they move together.
LEMMA GivenProtosOnce ==
  ASSUME TypeInv, OwnInv, Sound(db), NEW K, NEW p \in People, NEW d,
         d.protos = Given(db.protos, K, p)
  PROVE  ProtosOnce(d)
<1>1. db.protos \in SUBSET [key : ProtoKeys, of : People]
  BY RowsAre DEF TypeInv
<1>2. \A x, y \in db.protos : x.key[2] = y.key[2] => x = y
  <2>1. \A x \in db.protos : db.owner[x.key[2]] = x.of
    BY DEF OwnInv, OwnedInv, OwnSamples
  <2>2. ProtosOnce(db)
    BY SoundIs
  <2> QED BY <2>1, <2>2 DEF ProtosOnce
<1>3. \A q \in d.protos : q = [key |-> q.key, of |-> q.of]
  <2>1. d.protos \in SUBSET [key : ProtoKeys, of : People]
    BY <1>1, GivenTyped
  <2> QED BY <2>1
<1>4. ASSUME NEW q1 \in d.protos, NEW q2 \in d.protos, q1.of = q2.of, q1.key[2] = q2.key[2]
      PROVE  q1 = q2
  <2>1. PICK x \in db.protos : q1.key = x.key
    BY <1>1, GivenElement
  <2>2. PICK y \in db.protos : q2.key = y.key
    BY <1>1, GivenElement
  <2>3. q1.key = q2.key
    BY <1>2, <1>4, <2>1, <2>2
  <2> QED BY <1>3, <1>4, <2>3
<1> QED BY <1>4 DEF ProtosOnce

\* A label or assignment satisfies them.
LEMMA SoundLearns ==
  ASSUME TypeInv, MarkInv, ObsInv, NEW c \in Clusters, NEW p \in People, NEW A, NEW d,
         Learns(d, c, p, A),
         \/ d.people = db.people /\ IsActive(db, p)
         \/ d.people = [db.people EXCEPT ![p] = Active]
  PROVE  Sound(d)
<1>1. Sound(db)
  BY DEF ObsInv
<1>2. /\ d.owner = Moved(db.owner, Members(db, c), p) /\ d.home = db.home
      /\ d.clusters = [db.clusters EXCEPT ![c] = Labeled(@, p)]
      /\ d.obs = db.obs \cup NewObs(db, p, Members(db, c))
      /\ d.protos = db.protos \cup NewProtos(db, p, A)
  BY DEF Learns
<1>3. /\ db.people \in [People -> PersonRow] /\ p \in Owners
      /\ db.clusters \in [Clusters -> ClusterRow]
  BY RowsAre, Shapes DEF TypeInv, Owners
<1>4. /\ d.people[p].status = "active"
      /\ \A x \in People : d.people[x] = db.people[x] \/ d.people[x] = Active
  BY <1>3 DEF IsActive, Active
<1>5. PeopleStay(d)
  BY <1>4 DEF PeopleStay, Active
<1>6. OwnersExist(d)
  <2>1. p = Nobody \/ d.people[p].status # "none"
    BY <1>4
  <2> QED BY <1>1, <1>2, <1>5, <2>1, OwnersStay
<1>7. HomesExist(d) /\ LabelsExist(d)
  <2>1. d.clusters[c] = Labeled(db.clusters[c], p)
    BY <1>2, <1>3
  <2>2. /\ d.clusters[c].status = "labeled" /\ d.clusters[c].label = p
        /\ d.clusters[c].into = NoCluster
    <3>1. db.clusters[c] \in ClusterRow /\ db.clusters[c].into = NoCluster
      BY <1>3 DEF MarkInv, Peopled
    <3> QED BY <1>3, <2>1, <3>1, RowFields, IntoFields
  <2>3. RowExists(d, d.clusters[c])
    BY <1>4, <2>2 DEF RowExists
  <2>4. \A x \in Clusters : \/ d.clusters[x] = db.clusters[x]
                            \/ d.clusters[x].status # "none" /\ RowExists(d, d.clusters[x])
    BY <1>2, <1>3, <2>2, <2>3
  <2> QED BY <1>1, <1>2, <1>5, <2>4, RowsStay
<1>8. IntosExist(d)
  <2>1. \A x \in People : \/ d.people[x].into \in {db.people[x].into, Nobody}
                          \/ d.people[d.people[x].into].status # "none"
    BY <1>4 DEF Active
  <2> QED BY <1>1, <1>5, <2>1, IntosStay
<1>9. ObsOnce(d) /\ ProtosOnce(d)
  BY <1>1, <1>2, NewObsOnce, NewProtosOnce
<1> QED BY <1>6, <1>7, <1>8, <1>9, SoundIs

\* So does a request that changes only the status, and maybe label, of a cluster.
LEMMA SoundMark ==
  ASSUME TypeInv, MarkInv, ObsInv, NEW c \in Clusters, NEW row, NEW d, d.home = db.home,
         d.clusters = [db.clusters EXCEPT ![c] = row], d.people = db.people,
         row.status # "none", row.label \in {db.clusters[c].label, Nobody},
         row.into = NoCluster, Exists(db, c)
  PROVE  HomesExist(d) /\ LabelsExist(d) /\ IntosExist(d)
<1>1. Sound(db)
  BY DEF ObsInv
<1>2. db.clusters \in [Clusters -> ClusterRow]
  BY RowsAre DEF TypeInv
<1>3. PeopleStay(d)
  BY DEF PeopleStay
<1>4. RowExists(d, row)
  <2>1. RowExists(db, db.clusters[c])
    BY <1>1, SoundIs DEF LabelsExist
  <2> QED BY <2>1 DEF RowExists
<1>5. \A x \in Clusters : \/ d.clusters[x] = db.clusters[x]
                          \/ d.clusters[x].status # "none" /\ RowExists(d, d.clusters[x])
  BY <1>2, <1>4
<1>6. \A x \in People : \/ d.people[x].into \in {db.people[x].into, Nobody}
                        \/ d.people[d.people[x].into].status # "none"
  OBVIOUS
<1> QED BY <1>1, <1>3, <1>5, <1>6, RowsStay, IntosStay

\* The mark of a false positive, and its undo, satisfy them.
LEMMA SoundFalse ==
  ASSUME TypeInv, MarkInv, ObsInv, NEW c \in Clusters, NEW st \in Statuses, st # "none",
         NEW d, d.home = db.home, SamePeople(d), Exists(db, c),
         d.clusters = [db.clusters EXCEPT ![c] = Marked(@, st)]
  PROVE  Sound(d)
<1> DEFINE row == Marked(db.clusters[c], st)
<1>1. db.clusters[c] \in ClusterRow /\ db.clusters[c].into = NoCluster
  <2>1. db.clusters \in [Clusters -> ClusterRow]
    BY RowsAre DEF TypeInv
  <2> QED BY <2>1 DEF MarkInv, Peopled
<1>2. row.status = st /\ row.label = db.clusters[c].label /\ row.into = NoCluster
  BY <1>1, RowFields, IntoFields
<1>3. d.clusters = [db.clusters EXCEPT ![c] = row]
  OBVIOUS
<1> HIDE DEF row
<1>4. d.people = db.people
  BY DEF SamePeople
<1>5. HomesExist(d) /\ LabelsExist(d) /\ IntosExist(d)
  BY <1>2, <1>3, <1>4, SoundMark
<1>6. Sound(db)
  BY DEF ObsInv
<1>7. OwnersExist(d) /\ ObsOnce(d) /\ ProtosOnce(d)
  BY <1>6, SoundIs DEF SamePeople, OwnersExist, ObsOnce, ProtosOnce
<1> QED BY <1>5, <1>7, SoundIs

\* The undo of an assignment satisfies them.
LEMMA SoundUnassigns ==
  ASSUME TypeInv, MarkInv, OwnInv, ObsInv, NEW n \in Tokens, MayUnassign(log[n]), NEW d,
         Unassigns(d, log[n])
  PROVE  Sound(d)
<1> DEFINE c == log[n].cluster
           row == Reopened(db.clusters[c], log[n].label)
<1>1. log[n].kind = "assign" /\ c \in Clusters /\ Exists(db, c)
  BY DEF MayUnassign
<1>2. log[n].label = Nobody /\ \A t \in log[n].tracks : log[n].owners[t] = Nobody
  BY <1>1 DEF MarkInv, TokenTracks, OwnInv, OwnedInv, Cleared
<1>3. /\ d.owner = [t \in Tracks |-> IF t \in log[n].tracks THEN log[n].owners[t]
                                                            ELSE db.owner[t]]
      /\ d.clusters = [db.clusters EXCEPT ![c] = row] /\ d.home = db.home
      /\ d.obs = Without(db.obs, log[n].obs) /\ d.people = db.people
      /\ d.protos = Without(db.protos, log[n].protos)
  BY DEF Unassigns
<1>4. db.clusters[c] \in ClusterRow /\ db.clusters[c].into = NoCluster
  <2>1. db.clusters \in [Clusters -> ClusterRow]
    BY RowsAre DEF TypeInv
  <2> QED BY <1>1, <2>1 DEF MarkInv, Peopled
<1>5. row.status = "open" /\ row.label = Nobody /\ row.into = NoCluster
  <2>1. log[n].label \in Owners
    BY <1>2 DEF Owners
  <2> QED BY <1>2, <1>4, <2>1, RowFields, IntoFields
<1>6. Sound(db)
  BY DEF ObsInv
<1>7. OwnersExist(d)
  <2>1. d.owner = Moved(db.owner, log[n].tracks, Nobody)
    BY <1>2, <1>3 DEF Moved
  <2>2. PeopleStay(d)
    BY <1>3 DEF PeopleStay
  <2> QED BY <1>6, <2>1, <2>2, OwnersStay
<1> HIDE DEF row, c
<1>8. HomesExist(d) /\ LabelsExist(d) /\ IntosExist(d)
  BY <1>1, <1>3, <1>5, SoundMark
<1>9. ObsOnce(d) /\ ProtosOnce(d)
  <2>1. d.obs \subseteq db.obs /\ d.protos \subseteq db.protos
    BY <1>3 DEF Without
  <2> QED BY <1>6, <2>1, LessOnce
<1> QED BY <1>7, <1>8, <1>9, SoundIs

\* The first merge of clusters satisfies them: its target has members.
LEMMA SoundMergeClusters ==
  ASSUME TypeInv, MarkInv, ObsInv, NEW s \in Clusters, NEW t \in Clusters, s # t,
         Exists(db, s), Exists(db, t), NEW d, SamePeople(d),
         d.home = Rehomed(Members(db, s), t),
         d.clusters = Refreshed([db.clusters EXCEPT ![s] = MergedInto(@, t)],
                                t, Members(db, t))
  PROVE  Sound(d)
<1> DEFINE row == MergedInto(db.clusters[s], t)
           old == db.clusters[t]
           row2 == [old EXCEPT !.version = @ + 1]
<1>1. Sound(db) /\ db.clusters \in [Clusters -> ClusterRow]
  BY RowsAre DEF ObsInv, TypeInv
<1>2. Members(db, t) # {}
  BY DEF MarkInv, Peopled
<1>3. d.clusters = [[db.clusters EXCEPT ![s] = row] EXCEPT ![t] = row2]
  BY <1>1, <1>2 DEF Refreshed
<1>4. row.status = "merged" /\ row.into = t /\ row.label = db.clusters[s].label
  <2>1. db.clusters[s] \in ClusterRow
    BY <1>1
  <2> QED BY <2>1 DEF MergedInto, ClusterRow
<1>5. row2.status = old.status /\ row2.label = old.label /\ row2.into = old.into
  <2>1. old \in ClusterRow
    BY <1>1
  <2> HIDE DEF old
  <2> QED BY <2>1 DEF ClusterRow
<1> HIDE DEF row, row2
<1>6. /\ d.clusters[s] = row /\ d.clusters[t] = row2
      /\ \A x \in Clusters \ {s, t} : d.clusters[x] = db.clusters[x]
  BY <1>1, <1>3
<1>7. \A x \in Clusters : Exists(db, x) <=> Exists(d, x)
  BY <1>4, <1>5, <1>6 DEF Exists
<1>8. HomesExist(db) /\ LabelsExist(db)
  BY <1>1, SoundIs
<1>9. HomesExist(d)
  <2>1. db.home \in [Tracks -> Clusters \cup {NoCluster}]
    BY Shapes
  <2> QED BY <1>7, <1>8, <2>1 DEF HomesExist, Rehomed
<1>10. LabelsExist(d)
  <2>1. ASSUME NEW x \in Clusters, Exists(d, x) PROVE RowExists(d, d.clusters[x])
    <3>1. RowExists(db, db.clusters[x]) /\ d.people = db.people
      BY <1>7, <1>8, <2>1 DEF LabelsExist, SamePeople
    <3>2. d.clusters[x].label = db.clusters[x].label
      BY <1>4, <1>5, <1>6
    <3>3. d.clusters[x].into = db.clusters[x].into \/ d.clusters[x].into = t
      BY <1>4, <1>5, <1>6
    <3>4. db.clusters[x].into = NoCluster
      BY DEF MarkInv, Peopled
    <3> QED BY <1>7, <3>1, <3>2, <3>3, <3>4 DEF RowExists
  <2> QED BY <2>1 DEF LabelsExist
<1>11. OwnersExist(d) /\ IntosExist(d) /\ ObsOnce(d) /\ ProtosOnce(d)
  BY <1>1, SoundIs DEF SamePeople, OwnersExist, IntosExist, ObsOnce, ProtosOnce
<1> QED BY <1>9, <1>10, <1>11, SoundIs

\* A merge of people satisfies them: what both have been seen at is deleted.
LEMMA SoundMerges ==
  ASSUME TypeInv, OwnInv, ObsInv, NEW s \in People, NEW t \in People, s # t,
         IsActive(db, t), NEW d, Merges(d, s, t)
  PROVE  Sound(d)
<1>1. Sound(db)
  BY DEF ObsInv
<1>2. /\ d.owner = Moved(db.owner, Owned(db, s), t)
      /\ d.home = db.home /\ d.clusters = db.clusters
      /\ d.people = [db.people EXCEPT ![s] = MergedAway(t)]
      /\ d.obs = Given(db.obs \ Twice(db, s, t), Keys(ObsOf(db, s) \ Twice(db, s, t)), t)
      /\ d.protos = Given(db.protos, Keys(ProtosOf(db, s)), t)
  BY DEF Merges
<1>3. /\ d.people[s] = MergedAway(t)
      /\ \A x \in People \ {s} : d.people[x] = db.people[x]
  <2>1. db.people \in [People -> PersonRow]
    BY Shapes
  <2> QED BY <1>2, <2>1
<1>4. PeopleStay(d) /\ d.people[t].status # "none"
  BY <1>3 DEF PeopleStay, MergedAway, IsActive
<1>5. OwnersExist(d)
  BY <1>1, <1>2, <1>4, OwnersStay
<1>6. HomesExist(d) /\ LabelsExist(d)
  BY <1>1, <1>2, <1>4, RowsStay
<1>7. IntosExist(d)
  <2>1. \A x \in People : \/ d.people[x].into \in {db.people[x].into, Nobody}
                          \/ d.people[d.people[x].into].status # "none"
    BY <1>3, <1>4 DEF MergedAway
  <2> QED BY <1>1, <1>4, <2>1, IntosStay
<1>8. ProtosOnce(d)
  BY <1>1, <1>2, GivenProtosOnce
<1>9. ObsOnce(d)
  <2> DEFINE twice == Twice(db, s, t)
             own == ObsOf(db, s) \ twice
  <2>1. d.obs = Given(db.obs \ twice, Keys(own), t)
    BY <1>2
  <2>2. \A q \in d.obs : \E x \in db.obs : /\ x \notin twice /\ q.key = x.key
                                           /\ q.of = IF x.of = s THEN t ELSE x.of
    BY <2>1, MovedObs
  <2>3. \A q \in d.obs : q = [key |-> q.key, of |-> q.of]
    <3>1. d.obs \in SUBSET [key : ObsKeys, of : People]
      BY RowsAre DEF Merges
    <3> QED BY <3>1
  <2>4. \A x, y \in db.obs : x.of = s /\ y.of = t /\ x.key[2] = y.key[2] => x \in twice
    BY DEF Twice, ObsOf
  <2>5. \A x, y \in db.obs : x.of = y.of /\ x.key[2] = y.key[2] => x = y
    BY <1>1, SoundIs DEF ObsOnce
  <2> HIDE DEF own, twice
  <2>6. ASSUME NEW q1 \in d.obs, NEW q2 \in d.obs, q1.of = q2.of, q1.key[2] = q2.key[2]
        PROVE  q1 = q2
    <3>1. PICK x \in db.obs : /\ x \notin twice /\ q1.key = x.key
                              /\ q1.of = IF x.of = s THEN t ELSE x.of
      BY <2>2
    <3>2. PICK y \in db.obs : /\ y \notin twice /\ q2.key = y.key
                              /\ q2.of = IF y.of = s THEN t ELSE y.of
      BY <2>2
    <3>3. x.of = y.of
      BY <2>4, <2>6, <3>1, <3>2
    <3>4. x = y
      BY <2>5, <2>6, <3>1, <3>2, <3>3
    <3> QED BY <2>3, <2>6, <3>1, <3>2, <3>4
  <2> QED BY <2>6 DEF ObsOnce
<1> QED BY <1>5, <1>6, <1>7, <1>8, <1>9, SoundIs

\* So does its undo, even one that crosses: nothing is seen of whoever is merged.
LEMMA SoundUnmerges ==
  ASSUME TypeInv, OwnInv, ObsInv, NEW n \in Live, NEW d, Unmerges(d, log[n])
  PROVE  Sound(d)
<1> DEFINE s == log[n].source
           K == log[n].obs
           L == log[n].twice
<1>1. Sound(db)
  BY DEF ObsInv
<1>2. /\ d.owner = Moved(db.owner, log[n].tracks, s)
      /\ d.home = db.home /\ d.clusters = db.clusters
      /\ d.people = [db.people EXCEPT ![s] = Active]
      /\ d.obs = Given(db.obs, K, s) \cup Again(L, s)
      /\ d.protos = Given(db.protos, log[n].protos, s)
  BY DEF Unmerges
<1>3. s \in People /\ ~IsActive(db, s)
  BY Shapes, TreeFacts DEF OwnInv
<1>4. \A o \in db.obs : o.of # s
  <2>1. ASSUME NEW o \in db.obs, o.of = s PROVE FALSE
    <3>1. PICK a \in Tracks : db.owner[a] = o.of
      BY DEF ObsInv, Anchored, Anchors
    <3>2. s # Nobody
      BY <1>3, Shapes
    <3> QED BY <1>3, <2>1, <3>1, <3>2 DEF OwnInv, OwnedInv, OwnersActive
  <2> QED BY <2>1
<1>5. /\ \A k \in L : \A o \in db.obs : o.key # k
      /\ \A k1, k2 \in K \cup L : k1[2] = k2[2] => k1 = k2
  BY DEF ObsInv, Gone, MergeOnce
<1> HIDE DEF s, K, L
<1>6. d.people[s] = Active /\ \A x \in People \ {s} : d.people[x] = db.people[x]
  <2>1. db.people \in [People -> PersonRow]
    BY Shapes
  <2> QED BY <1>2, <1>3, <2>1
<1>7. PeopleStay(d) /\ d.people[s].status # "none"
  BY <1>6 DEF PeopleStay, Active
<1>8. OwnersExist(d)
  BY <1>1, <1>2, <1>7, OwnersStay
<1>9. HomesExist(d) /\ LabelsExist(d)
  BY <1>1, <1>2, <1>7, RowsStay
<1>10. IntosExist(d)
  <2>1. \A x \in People : \/ d.people[x].into \in {db.people[x].into, Nobody}
                          \/ d.people[d.people[x].into].status # "none"
    BY <1>6 DEF Active
  <2> QED BY <1>1, <1>7, <2>1, IntosStay
<1>11. ProtosOnce(d)
  BY <1>1, <1>2, <1>3, GivenProtosOnce
<1>12. \A q \in d.obs : \/ q.of = s /\ q.key \in L
                        \/ \E x \in db.obs : /\ q.key = x.key
                                             /\ IF x.key \in K THEN q.of = s ELSE q.of = x.of
  <2>1. db.obs \in SUBSET [key : ObsKeys, of : People]
    BY RowsAre DEF TypeInv
  <2>2. \A q \in Again(L, s) : q.of = s /\ q.key \in L
    BY DEF Again
  <2>3. \A q \in Given(db.obs, K, s) :
          \E x \in db.obs : /\ q.key = x.key
                            /\ IF x.key \in K THEN q.of = s ELSE q.of = x.of
    BY <1>3, <2>1, GivenObs
  <2> QED BY <1>2, <2>2, <2>3
<1>13. \A q \in d.obs : q = [key |-> q.key, of |-> q.of]
  <2>1. d.obs \in SUBSET [key : ObsKeys, of : People]
    BY RowsAre DEF Unmerges
  <2> QED BY <2>1
<1>14. \A q \in d.obs : q.of = s <=> q.key \in K \cup L
  <2>1. \A q \in d.obs : q.key \in L => q.of = s
    BY <1>5, <1>12
  <2> QED BY <1>4, <1>12, <2>1
<1>15. ASSUME NEW q1 \in d.obs, NEW q2 \in d.obs, q1.of = q2.of, q1.key[2] = q2.key[2]
       PROVE  q1 = q2
  <2>1. CASE q1.of = s
    <3>1. q1.key = q2.key
      BY <1>5, <1>14, <1>15, <2>1
    <3> QED BY <1>13, <1>15, <3>1
  <2>2. CASE q1.of # s
    <3>1. PICK x \in db.obs : q1.key = x.key /\ q1.of = x.of
      BY <1>12, <2>2
    <3>2. PICK y \in db.obs : q2.key = y.key /\ q2.of = y.of
      BY <1>12, <1>15, <2>2
    <3>3. ObsOnce(db)
      BY <1>1, SoundIs
    <3>4. x = y
      BY <1>15, <3>1, <3>2, <3>3 DEF ObsOnce
    <3> QED BY <1>13, <1>15, <3>1, <3>2, <3>4
  <2> QED BY <2>1, <2>2
<1>16. ObsOnce(d)
  BY <1>15 DEF ObsOnce
<1> QED BY <1>8, <1>9, <1>10, <1>11, <1>16, SoundIs

-----------------------------------------------------------------------------
(* So none fails, but for splits and the undo of a label.                  *)

MayFail == {"split", "undo_label"}

\* A request whose rows are sound does not fail.
LEMMA SoundCommits ==
  ASSUME TypeInv, NEW kind, NEW d, NEW entry, Mutates(kind, d, entry), Sound(d)
  PROVE  failed' = failed
  BY DEF Mutates

\* A request may fail of its own kind only.
LEMMA FailsAsKind ==
  ASSUME TypeInv, NEW kind \in MayFail, NEW d, NEW entry, Mutates(kind, d, entry),
         failed \subseteq MayFail
  PROVE  failed' \subseteq MayFail
  BY DEF Mutates

\* The requests fail in splits alone.
LEMMA FailRequests ==
  ASSUME TypeInv, Seen, failed \subseteq MayFail, Requests
  PROVE  failed' \subseteq MayFail
<1>0. IInv /\ MarkInv /\ OwnInv /\ ObsInv
  BY DEF Seen, Straight
<1>1. ASSUME NEW c \in Clusters, NEW A, Label(c, A) PROVE failed' = failed
  <2> DEFINE p == Now + 1
             entry == [kind |-> "label", cluster |-> c, person |-> p,
                       tracks |-> Members(db, c)]
  <2>1. PICK d : /\ Mutates("label", d, entry) /\ Learns(d, c, p, A)
                 /\ d.people = [db.people EXCEPT ![p] = Active]
    BY <1>1, LabelRows
  <2>2. p \in People
    BY <1>1, LabelRows
  <2> HIDE DEF entry, p
  <2>3. Sound(d)
    BY <1>0, <2>1, <2>2, SoundLearns
  <2> QED BY <2>1, <2>3, SoundCommits
<1>2. ASSUME NEW c \in Clusters, NEW p \in People, NEW A, Assign(c, p, A)
      PROVE  failed' = failed
  <2>1. PICK d : /\ Mutates("assign", d, AssignEntry(d, c, p, A)) /\ Learns(d, c, p, A)
                 /\ d.people = db.people
    BY <1>2, AssignRows
  <2>2. IsActive(db, p)
    BY <1>2 DEF Assign
  <2>3. Sound(d)
    BY <1>0, <2>1, <2>2, SoundLearns
  <2> QED BY <2>1, <2>3, SoundCommits
<1>3. ASSUME NEW c \in Clusters, FalsePositive(c) PROVE failed' = failed
  <2> DEFINE entry == [kind |-> "false_positive", cluster |-> c,
                       status |-> db.clusters[c].status]
  <2>1. PICK d : /\ Mutates("false_positive", d, entry) /\ SamePeople(d)
                 /\ d.home = db.home
                 /\ d.clusters = [db.clusters EXCEPT ![c] = Marked(@, "false_positive")]
    BY <1>3, FalsePositiveRows
  <2>2. Exists(db, c)
    BY <1>3 DEF FalsePositive
  <2> HIDE DEF entry
  <2>3. "false_positive" \in Statuses /\ "false_positive" # "none"
    BY DEF Statuses
  <2>4. Sound(d)
    BY <1>0, <2>1, <2>2, <2>3, SoundFalse
  <2> QED BY <2>1, <2>4, SoundCommits
<1>4. ASSUME NEW c \in Clusters, NEW T \in SUBSET Tracks, Split(c, T)
      PROVE  failed' \subseteq MayFail
  BY <1>4, FailsAsKind DEF Split, MayFail
<1>5. ASSUME NEW s \in Clusters, NEW t \in Clusters, MergeClusters(s, t)
      PROVE  failed' = failed
  <2>1. PICK d : /\ Mutates("merge_clusters", d, MergeClustersEntry(s, t))
                 /\ SamePeople(d) /\ d.home = Rehomed(Members(db, s), t)
                 /\ d.clusters = Refreshed([db.clusters EXCEPT ![s] = MergedInto(@, t)],
                                           t, Members(db, t))
    BY <1>5, MergeClustersRows
  <2>2. s # t /\ Exists(db, s) /\ Exists(db, t)
    BY <1>5 DEF MergeClusters
  <2>3. Sound(d)
    BY <1>0, <2>1, <2>2, SoundMergeClusters
  <2> QED BY <2>1, <2>3, SoundCommits
<1>6. ASSUME NEW s \in People, NEW t \in People, MergePeople(s, t) PROVE failed' = failed
  <2>1. PICK d : Mutates("merge_people", d, MergeEntry(s, t)) /\ Merges(d, s, t)
    BY <1>6, MergePeopleRows
  <2>2. s # t /\ IsActive(db, t)
    BY <1>6 DEF MergePeople
  <2>3. Sound(d)
    BY <1>0, <2>1, <2>2, SoundMerges
  <2> QED BY <2>1, <2>3, SoundCommits
<1> QED BY <1>1, <1>2, <1>3, <1>4, <1>5, <1>6 DEF Requests

\* The undos fail in those of labels alone.
LEMMA FailUndoes ==
  ASSUME TypeInv, Seen, ~Mixed, failed \subseteq MayFail, Undoes
  PROVE  failed' \subseteq MayFail
<1>0. IInv /\ MarkInv /\ OwnInv /\ ObsInv
  BY DEF Seen, Straight
<1>1. ASSUME NEW n, UndoLabel(n) PROVE failed' \subseteq MayFail
  <2>1. PICK d : Undoing(n, "undo_label", d)
    BY <1>1, UndoLabelRows
  <2>2. Mutates("undo_label", d, UndoEntry(n)) /\ "undo_label" \in MayFail
    BY <2>1 DEF Undoing, MayFail
  <2> QED BY <2>2, FailsAsKind
<1>2. ASSUME NEW n, UndoAssign(n) PROVE failed' = failed
  <2>1. PICK d : Undoing(n, "undo_assign", d) /\ Unassigns(d, log[n])
    BY <1>2, UndoAssignRows
  <2>2. MayUnassign(log[n])
    BY <1>2, UndoAssignRows
  <2>3. n \in Tokens /\ Mutates("undo_assign", d, UndoEntry(n))
    BY <2>1, <2>2 DEF Undoing, MayUnassign, Tokens, Done
  <2>4. Sound(d)
    BY <1>0, <2>1, <2>2, <2>3, SoundUnassigns
  <2> QED BY <2>3, <2>4, SoundCommits
<1>3. ASSUME NEW n, UndoFalsePositive(n) PROVE failed' = failed
  <2> DEFINE c == log[n].cluster
             st == log[n].status
  <2>1. PICK d : /\ Undoing(n, "undo_false_positive", d) /\ d.home = db.home
                 /\ SamePeople(d) /\ d.clusters = [db.clusters EXCEPT ![c] = Marked(@, st)]
    BY <1>3, UndoFalsePositiveRows
  <2>2. /\ log[n].kind = "false_positive" /\ EntryOK(log[n]) /\ c \in Clusters
        /\ db.clusters[c].status = "false_positive"
    BY <1>3, UndoFalsePositiveRows
  <2>3. Mutates("undo_false_positive", d, UndoEntry(n)) /\ n \in Done
    BY <2>1 DEF Undoing, Done
  <2>4. st \in Statuses /\ st # "none"
    BY <1>0, <2>2, <2>3 DEF EntryOK, MarkInv, FalseExisted
  <2>5. Exists(db, c)
    BY <2>2 DEF Exists
  <2> HIDE DEF c, st
  <2>6. Sound(d)
    BY <1>0, <2>1, <2>2, <2>4, <2>5, SoundFalse
  <2> QED BY <2>3, <2>6, SoundCommits
<1>4. ASSUME NEW n, UndoMergePeople(n) PROVE failed' = failed
  <2>1. PICK d : Undoing(n, "undo_merge_people", d) /\ Unmerges(d, log[n])
    BY <1>4, UndoMergePeopleRows
  <2>2. MayUnmerge(log[n])
    BY <1>4, UndoMergePeopleRows
  <2>3. n \in Live /\ Mutates("undo_merge_people", d, UndoEntry(n))
    BY <2>1, <2>2 DEF Undoing, MayUnmerge, Live, Done
  <2>4. Sound(d)
    BY <1>0, <2>1, <2>3, SoundUnmerges
  <2> QED BY <2>3, <2>4, SoundCommits
<1>5. ASSUME NEW n, UndoMergeClusters(n) PROVE FALSE
  BY <1>5 DEF UndoMergeClusters, Undoable, Mixed
<1> QED BY <1>1, <1>2, <1>3, <1>4, <1>5 DEF Undoes

\* What failed failed as it may, until clusters were merged or undos crossed.
LEMMA FailStep ==
  ASSUME TypeInv, UndosMarked, Mixed \/ Crossed \/ Seen,
         Mixed \/ Crossed \/ failed \subseteq MayFail, [Next]_vars
  PROVE  (Mixed \/ Crossed \/ failed \subseteq MayFail)'
<1>1. CASE Mixed \/ Crossed
  BY <1>1, BadStays
<1>2. CASE ~Mixed /\ Seen /\ failed \subseteq MayFail
  <2>1. CASE Pipeline \/ UNCHANGED vars
    <3>1. failed' = failed
      BY <2>1 DEF Pipeline, Arrive, Recognise, Cluster, vars
    <3> QED BY <1>2, <3>1
  <2> QED BY <1>2, <2>1, FailRequests, FailUndoes DEF Next
<1> QED BY <1>1, <1>2

\* No request of the owner ends in an IntegrityError, until clusters are merged or
\* undos cross, but for splits, which always do, and the undo of a label.
THEOREM OnlyTwoFail == Spec => []OnlyUndoLabelFails
<1>1. Init => Mixed \/ Crossed \/ failed \subseteq MayFail
  BY DEF Init
<1>2. /\ TypeInv /\ UndosMarked /\ (Mixed \/ Crossed \/ Seen)
      /\ (Mixed \/ Crossed \/ failed \subseteq MayFail) /\ [Next]_vars
      => (Mixed \/ Crossed \/ failed \subseteq MayFail)'
  BY FailStep
<1>3. Mixed \/ Crossed \/ failed \subseteq MayFail => OnlyUndoLabelFails
  BY DEF OnlyUndoLabelFails, MayFail
<1> QED BY <1>1, <1>2, <1>3, Typed, Marked1, Seeing, PTL DEF Spec

-----------------------------------------------------------------------------
(* What the latest operation changed, and its undo changes back.           *)

\* The rows N were added to the rows S, with new keys.
Added(S, new, N) == new = S \cup N /\ \A x \in S, y \in N : x.key # y.key

\* Taking them away restores the rows.
LEMMA AddedBack ==
  ASSUME NEW S, NEW new, NEW N, Added(S, new, N)
  PROVE  Without(new, Keys(N)) = S
<1>1. \A x \in new : x \in S <=> x.key \notin Keys(N)
  BY DEF Added, Keys
<1>2. S \subseteq new
  BY DEF Added
<1> QED BY <1>1, <1>2 DEF Without

\* Giving to t what s has, and back, restores the rows.
LEMMA GivenBack ==
  ASSUME NEW S, NEW K, NEW s, NEW t,
         \A x \in S : x = [key |-> x.key, of |-> x.of] /\ (x.key \in K => x.of = s)
  PROVE  Given(Given(S, K, t), K, s) = S
<1> DEFINE f(x) == IF x.key \in K THEN [x EXCEPT !.of = t] ELSE x
           g(x) == IF x.key \in K THEN [x EXCEPT !.of = s] ELSE x
<1>1. ASSUME NEW x \in S PROVE g(f(x)) = x
  <2>1. x = [key |-> x.key, of |-> x.of]
    OBVIOUS
  <2>2. CASE x.key \in K
    <3>1. f(x) = [key |-> x.key, of |-> t]
      BY <2>1, <2>2
    <3>2. g(f(x)) = [key |-> x.key, of |-> s]
      BY <2>2, <3>1
    <3>3. x.of = s
      BY <2>2
    <3>4. [key |-> x.key, of |-> s] = x
      BY <2>1, <3>3
    <3> QED BY <3>2, <3>4
  <2>3. CASE x.key \notin K
    BY <2>3
  <2> QED BY <2>2, <2>3
<1>2. Given(S, K, t) = {f(x) : x \in S}
  BY DEF Given
<1>3. Given(Given(S, K, t), K, s) = {g(y) : y \in Given(S, K, t)}
  BY DEF Given
<1> HIDE DEF f, g
<1>4. {g(y) : y \in {f(x) : x \in S}} = {g(f(x)) : x \in S}
  OBVIOUS
<1>5. Given(Given(S, K, t), K, s) = {g(f(x)) : x \in S}
  BY <1>2, <1>3, <1>4
<1>6. {g(f(x)) : x \in S} = S
  BY <1>1
<1> QED BY <1>5, <1>6

\* The cluster of the operation op was open, its tracks nobody's, and op named it.
TokenSince(old, new, op) ==
  /\ op.cluster \in Clusters /\ op.person \in People /\ op.tracks \subseteq Tracks
  /\ \A t \in op.tracks : old.owner[t] = Nobody
  /\ new.owner = Moved(old.owner, op.tracks, op.person) /\ new.home = old.home
  /\ new.clusters = [old.clusters EXCEPT ![op.cluster] = Labeled(@, op.person)]
  /\ old.clusters[op.cluster].status = "open" /\ old.clusters[op.cluster].label = Nobody

\* It created its person, too.
LabelSince(old, new, op) ==
  /\ TokenSince(old, new, op) /\ new.links = old.links
  /\ old.people[op.person] = NoPerson /\ new.people = [old.people EXCEPT ![op.person] = Active]
  /\ Added(old.obs, new.obs, ObsOf(new, op.person))
  /\ Added(old.protos, new.protos, ProtosOf(new, op.person))

\* It recorded what it deleted, and the keys of what it made.
AssignSince(old, new, op) ==
  /\ TokenSince(old, new, op) /\ new.people = old.people /\ op.label = Nobody
  /\ op.links \subseteq old.links /\ new.links = old.links \ op.links
  /\ \A t \in op.tracks : op.owners[t] = Nobody
  /\ \E N : Added(old.obs, new.obs, N) /\ op.obs = Keys(N)
  /\ \E N : Added(old.protos, new.protos, N) /\ op.protos = Keys(N)

\* It marked a cluster, and recorded the status before.
FalseSince(old, new, op) ==
  /\ op.cluster \in Clusters /\ op.status = old.clusters[op.cluster].status
  /\ new.clusters = [old.clusters EXCEPT ![op.cluster] = Marked(@, "false_positive")]
  /\ new.owner = old.owner /\ new.home = old.home /\ new.links = old.links
  /\ new.people = old.people /\ new.obs = old.obs /\ new.protos = old.protos

\* It moved what its source had, and recorded what that was.
MergeSince(old, new, op) ==
  /\ op.source \in People /\ op.target \in People
  /\ new.home = old.home /\ new.links = old.links /\ new.clusters = old.clusters
  /\ op.tracks = Owned(old, op.source)
  /\ new.owner = Moved(old.owner, op.tracks, op.target)
  /\ old.people[op.source] = Active
  /\ new.people = [old.people EXCEPT ![op.source] = MergedAway(op.target)]
  /\ \A q \in old.protos : q.key \in op.protos => q.of = op.source
  /\ new.protos = Given(old.protos, op.protos, op.target)
  /\ \E D \in SUBSET old.obs :
       /\ op.twice = Keys(D) /\ \A o \in D : o.of = op.source
       /\ \A o \in old.obs : o.key \in op.obs => o.of = op.source
       /\ new.obs = Given(old.obs \ D, op.obs, op.target)

Since(old, new, op) ==
  /\ op.kind = "label" => LabelSince(old, new, op)
  /\ op.kind = "assign" => AssignSince(old, new, op)
  /\ op.kind = "false_positive" => FalseSince(old, new, op)
  /\ op.kind = "merge_people" => MergeSince(old, new, op)

\* The rows are those of `last`, changed by the operation that was recorded.
LastInv == last # <<>> => todo = {} /\ Since(last[1], db, log[Len(log)])

-----------------------------------------------------------------------------
(* The operations change that much.                                        *)

\* New observations and prototypes of tracks that were nobody's have new keys.
LEMMA NewAdded ==
  ASSUME TypeInv, OwnInv, ObsInv, NEW T \in SUBSET Tracks, NEW p \in People,
         NEW A \in SUBSET T,
         \A t \in T : db.owner[t] = Nobody
  PROVE  /\ Added(db.obs, db.obs \cup NewObs(db, p, T), NewObs(db, p, T))
         /\ Added(db.protos, db.protos \cup NewProtos(db, p, A), NewProtos(db, p, A))
<1> DEFINE N == NewObs(db, p, T)
           M == NewProtos(db, p, A)
<1>1. ASSUME NEW x \in db.obs, NEW y \in N, x.key = y.key PROVE FALSE
  <2>1. /\ y.key[1] = p /\ y.key[3] = Len(log)
        /\ \A o \in db.obs : o.of = p => o.key[2] # y.key[2]
    BY NewObsOf
  <2>2. x.of = p
    BY <1>1, <2>1 DEF ObsInv, Dated
  <2> QED BY <1>1, <2>1, <2>2
<1>2. ASSUME NEW x \in db.protos, NEW y \in M, x.key = y.key PROVE FALSE
  <2>1. y.key[2] \in A
    BY NewProtosOf
  <2>2. db.owner[y.key[2]] = Nobody /\ y.key[2] \in Tracks
    BY <2>1
  <2> QED BY <1>2, <2>2, Untouched DEF OwnInv
<1> HIDE DEF N, M
<1>3. Added(db.obs, db.obs \cup N, N) /\ Added(db.protos, db.protos \cup M, M)
  BY <1>1, <1>2 DEF Added
<1> QED BY <1>3 DEF N, M

\* An open cluster names nobody, and its tracks are nobody's.
LEMMA OpenIs ==
  ASSUME TypeInv, MarkInv, OwnInv, NEW c \in Clusters, IsOpen(db, c)
  PROVE  /\ db.clusters[c].label = Nobody
         /\ \A t \in Members(db, c) : t \in Tracks /\ db.owner[t] = Nobody
<1>1. \A n \in Tokens : log[n].cluster # c
  BY TokensMark DEF MarkInv, OneMark
<1>2. c # NoCluster
  BY IdentityAssumption DEF Clusters
<1> QED BY <1>1, <1>2 DEF MarkInv, Named, Members, OwnInv, Unowned

\* What a label or assignment changes.
LEMMA TokenIsSince ==
  ASSUME TypeInv, MarkInv, OwnInv, NEW c \in Clusters, NEW p \in People, NEW A, NEW d,
         Learns(d, c, p, A), IsOpen(db, c), NEW op, op.cluster = c, op.person = p,
         op.tracks = Members(db, c)
  PROVE  TokenSince(db, d, op)
<1>1. /\ db.clusters[c].label = Nobody
      /\ \A t \in Members(db, c) : t \in Tracks /\ db.owner[t] = Nobody
  BY OpenIs
<1> QED BY <1>1 DEF TokenSince, Learns, IsOpen

\* What a label changes.
LEMMA LabelIsSince ==
  ASSUME TypeInv, MarkInv, OwnInv, ObsInv, NEW c \in Clusters, NEW p \in People,
         NEW A \in SUBSET Members(db, c), NEW d, Learns(d, c, p, A), IsOpen(db, c),
         d.links = db.links, db.people[p] = NoPerson,
         d.people = [db.people EXCEPT ![p] = Active],
         NEW op, op.cluster = c, op.person = p, op.tracks = Members(db, c)
  PROVE  LabelSince(db, d, op)
<1> DEFINE T == Members(db, c)
           N == NewObs(db, p, T)
           M == NewProtos(db, p, A)
<1>1. TokenSince(db, d, op)
  BY TokenIsSince
<1>2. T \in SUBSET Tracks /\ \A t \in T : db.owner[t] = Nobody
  BY OpenIs
<1>3. d.obs = db.obs \cup N /\ d.protos = db.protos \cup M
  BY DEF Learns
<1>4. Added(db.obs, d.obs, N) /\ Added(db.protos, d.protos, M)
  BY <1>2, <1>3, NewAdded
<1>5. \A t \in Tracks : db.owner[t] # p
  <2>1. ~IsActive(db, p) /\ p # Nobody
    BY Shapes DEF IsActive, NoPerson
  <2> QED BY <2>1 DEF OwnInv, OwnedInv, OwnersActive
<1>6. /\ \A o \in db.obs : o.of # p
      /\ \A q \in db.protos : q.of # p
  BY <1>5, Shapes DEF ObsInv, Anchored, Anchors, OwnInv, OwnedInv, OwnSamples
<1>7. (\A o \in N : o.of = p) /\ (\A q \in M : q.of = p)
  BY NewObsOf, NewProtosOf
<1> HIDE DEF N, M, T
<1>8. ObsOf(d, p) = N /\ ProtosOf(d, p) = M
  BY <1>3, <1>6, <1>7 DEF ObsOf, ProtosOf
<1> QED BY <1>1, <1>4, <1>8 DEF LabelSince

\* What an assignment changes.
LEMMA AssignIsSince ==
  ASSUME TypeInv, MarkInv, OwnInv, ObsInv, NEW c \in Clusters, NEW p \in People,
         NEW A \in SUBSET Members(db, c), NEW d, Learns(d, c, p, A), IsOpen(db, c),
         d.links = db.links \ Conflicts(db, Members(db, c), Owned(db, p)),
         d.people = db.people
  PROVE  AssignSince(db, d, AssignEntry(d, c, p, A))
<1> DEFINE T == Members(db, c)
           op == AssignEntry(d, c, p, A)
<1>1. /\ op.cluster = c /\ op.person = p /\ op.tracks = T
      /\ op.owners = [t \in T |-> db.owner[t]] /\ op.label = db.clusters[c].label
      /\ op.obs = Keys(NewObs(db, p, T)) /\ op.protos = Keys(NewProtos(db, p, A))
      /\ op.links = Conflicts(db, T, Owned(db, p))
  BY DEF AssignEntry
<1> HIDE DEF op
<1>2. TokenSince(db, d, op)
  BY <1>1, TokenIsSince
<1>3. /\ db.clusters[c].label = Nobody
      /\ T \in SUBSET Tracks /\ \A t \in T : db.owner[t] = Nobody
  BY OpenIs
<1>4. /\ d.obs = db.obs \cup NewObs(db, p, T)
      /\ d.protos = db.protos \cup NewProtos(db, p, A)
  BY DEF Learns
<1>5. /\ Added(db.obs, d.obs, NewObs(db, p, T))
      /\ Added(db.protos, d.protos, NewProtos(db, p, A))
  BY <1>3, <1>4, NewAdded
<1>6. op.links \subseteq db.links
  BY <1>1 DEF Conflicts
<1>7. /\ op.label = Nobody /\ \A t \in op.tracks : op.owners[t] = Nobody
      /\ d.links = db.links \ op.links
  BY <1>1, <1>3
<1>8. /\ \E N : Added(db.obs, d.obs, N) /\ op.obs = Keys(N)
      /\ \E N : Added(db.protos, d.protos, N) /\ op.protos = Keys(N)
  BY <1>1, <1>5
<1>9. AssignSince(db, d, op)
  BY <1>2, <1>6, <1>7, <1>8 DEF AssignSince
<1> QED BY <1>9 DEF op

\* What a merge of people changes.
LEMMA MergeIsSince ==
  ASSUME TypeInv, OwnInv, ObsInv, NEW s \in People, NEW t \in People, IsActive(db, s), NEW d,
         Merges(d, s, t)
  PROVE  MergeSince(db, d, MergeEntry(s, t))
<1> DEFINE op == MergeEntry(s, t)
           D == Twice(db, s, t)
<1>1. /\ op.source = s /\ op.target = t /\ op.tracks = Owned(db, s)
      /\ op.protos = Keys(ProtosOf(db, s))
      /\ op.obs = Keys(ObsOf(db, s) \ D) /\ op.twice = Keys(D)
  BY DEF MergeEntry
<1> HIDE DEF op
<1>2. /\ d.home = db.home /\ d.links = db.links /\ d.clusters = db.clusters
      /\ d.owner = Moved(db.owner, Owned(db, s), t)
      /\ d.people = [db.people EXCEPT ![s] = MergedAway(t)]
      /\ d.obs = Given(db.obs \ D, Keys(ObsOf(db, s) \ D), t)
      /\ d.protos = Given(db.protos, Keys(ProtosOf(db, s)), t)
  BY DEF Merges
<1>3. db.people[s] = Active
  BY TreeFacts DEF OwnInv
<1>4. ASSUME NEW q \in db.protos, q.key \in Keys(ProtosOf(db, s)) PROVE q.of = s
  <2>1. PICK x \in ProtosOf(db, s) : q.key = x.key
    BY <1>4 DEF Keys
  <2>2. x \in db.protos /\ x.of = s
    BY <2>1 DEF ProtosOf
  <2> QED BY <2>1, <2>2 DEF OwnInv, OwnedInv, OwnSamples
<1>5. /\ \A x \in db.obs : x.key \in Keys(ObsOf(db, s) \ D) => x.of = s
      /\ D \subseteq ObsOf(db, s)
  BY MovedObs
<1>6. D \in SUBSET db.obs /\ \A o \in D : o.of = s
  BY <1>5 DEF ObsOf
<1> HIDE DEF D
<1>7. \E E \in SUBSET db.obs :
       /\ op.twice = Keys(E) /\ \A o \in E : o.of = op.source
       /\ \A o \in db.obs : o.key \in op.obs => o.of = op.source
       /\ d.obs = Given(db.obs \ E, op.obs, op.target)
  BY <1>1, <1>2, <1>5, <1>6
<1>8. MergeSince(db, d, op)
  BY <1>1, <1>2, <1>3, <1>4, <1>7 DEF MergeSince
<1> QED BY <1>8 DEF op

\* A request that is recorded changed that much, and nothing else has happened since.
LEMMA LastSet ==
  ASSUME TypeInv, NEW kind, NEW d, NEW entry, Mutates(kind, d, entry), Since(db, d, entry),
         LastInv
  PROVE  LastInv'
<1>1. CASE Committing(d, entry)
  <2>1. /\ last' = <<db>> /\ db' = d /\ log' = Append(log, entry) /\ todo' = todo /\ todo = {}
    BY <1>1, Outcome DEF Committing
  <2>2. Len(log') = Len(log) + 1 /\ log'[Len(log) + 1] = entry
    BY <2>1, Appended DEF TypeInv
  <2>3. last'[1] = db
    BY <2>1
  <2> QED BY <2>1, <2>2, <2>3 DEF LastInv
<1>2. CASE RolledBack(kind)
  BY <1>2 DEF RolledBack, LastInv
<1> QED BY <1>1, <1>2, Outcome

\* Operations that nothing is said of.
LEMMA LastOther ==
  ASSUME TypeInv, NEW kind, NEW d, NEW entry, Mutates(kind, d, entry), LastInv,
         entry.kind \notin {"label", "assign", "false_positive", "merge_people"}
  PROVE  LastInv'
<1>1. Since(db, d, entry)
  BY DEF Since
<1> QED BY <1>1, LastSet

\* What the requests changed is known.
LEMMA LastRequests ==
  ASSUME TypeInv, Seen, LastInv, Requests
  PROVE  LastInv'
<1>0. IInv /\ MarkInv /\ OwnInv /\ ObsInv
  BY DEF Seen, Straight
<1>1. ASSUME NEW c \in Clusters, NEW A, Label(c, A) PROVE LastInv'
  <2> DEFINE p == Now + 1
             entry == [kind |-> "label", cluster |-> c, person |-> p,
                       tracks |-> Members(db, c)]
  <2>1. PICK d : /\ Mutates("label", d, entry) /\ Learns(d, c, p, A) /\ d.links = db.links
                 /\ d.people = [db.people EXCEPT ![p] = Active]
    BY <1>1, LabelRows
  <2>2. p \in People /\ IsOpen(db, c) /\ A \in SUBSET Members(db, c)
    BY <1>1, LabelRows DEF Label
  <2>3. db.people[p] = NoPerson
    <3>1. Now = Len(log) /\ Now \in Nat
      BY <2>1, TypedRequest
    <3> QED BY <2>2, <3>1 DEF TypeInv, Unborn
  <2>4. /\ entry.kind = "label" /\ entry.cluster = c /\ entry.person = p
        /\ entry.tracks = Members(db, c)
    OBVIOUS
  <2> HIDE DEF entry, p
  <2>5. LabelSince(db, d, entry)
    BY <1>0, <2>1, <2>2, <2>3, <2>4, LabelIsSince
  <2>6. Since(db, d, entry)
    BY <2>4, <2>5 DEF Since
  <2> QED BY <2>1, <2>6, LastSet
<1>2. ASSUME NEW c \in Clusters, NEW p \in People, NEW A, Assign(c, p, A) PROVE LastInv'
  <2>1. PICK d : /\ Mutates("assign", d, AssignEntry(d, c, p, A)) /\ Learns(d, c, p, A)
                 /\ d.links = db.links \ Conflicts(db, Members(db, c), Owned(db, p))
                 /\ d.people = db.people
    BY <1>2, AssignRows
  <2>2. IsOpen(db, c) /\ A \in SUBSET Members(db, c)
    BY <1>2 DEF Assign
  <2>3. AssignSince(db, d, AssignEntry(d, c, p, A))
    BY <1>0, <2>1, <2>2, AssignIsSince
  <2>4. AssignEntry(d, c, p, A).kind = "assign"
    BY DEF AssignEntry
  <2>5. Since(db, d, AssignEntry(d, c, p, A))
    BY <2>3, <2>4 DEF Since
  <2> QED BY <2>1, <2>5, LastSet
<1>3. ASSUME NEW c \in Clusters, FalsePositive(c) PROVE LastInv'
  <2> DEFINE entry == [kind |-> "false_positive", cluster |-> c,
                       status |-> db.clusters[c].status]
  <2>1. PICK d : /\ Mutates("false_positive", d, entry) /\ SamePeople(d)
                 /\ d.home = db.home
                 /\ d.clusters = [db.clusters EXCEPT ![c] = Marked(@, "false_positive")]
    BY <1>3, FalsePositiveRows
  <2>2. /\ entry.kind = "false_positive" /\ entry.cluster = c
        /\ entry.status = db.clusters[c].status
    OBVIOUS
  <2> HIDE DEF entry
  <2>3. FalseSince(db, d, entry)
    BY <2>1, <2>2 DEF FalseSince, SamePeople
  <2>4. Since(db, d, entry)
    BY <2>2, <2>3 DEF Since
  <2> QED BY <2>1, <2>4, LastSet
<1>4. ASSUME NEW c \in Clusters, NEW T \in SUBSET Tracks, Split(c, T) PROVE LastInv'
  <2> DEFINE entry == [kind |-> "split", cluster |-> c, tracks |-> T]
  <2>1. PICK d : Mutates("split", d, entry)
    BY <1>4, SplitRows
  <2>2. entry.kind = "split"
    OBVIOUS
  <2> HIDE DEF entry
  <2> QED BY <2>1, <2>2, LastOther
<1>5. ASSUME NEW s \in Clusters, NEW t \in Clusters, MergeClusters(s, t) PROVE LastInv'
  <2>1. PICK d : Mutates("merge_clusters", d, MergeClustersEntry(s, t))
    BY <1>5, MergeClustersRows
  <2>2. MergeClustersEntry(s, t).kind = "merge_clusters"
    BY DEF MergeClustersEntry
  <2> QED BY <2>1, <2>2, LastOther
<1>6. ASSUME NEW s \in People, NEW t \in People, MergePeople(s, t) PROVE LastInv'
  <2>1. PICK d : Mutates("merge_people", d, MergeEntry(s, t)) /\ Merges(d, s, t)
    BY <1>6, MergePeopleRows
  <2>2. IsActive(db, s)
    BY <1>6 DEF MergePeople
  <2>3. MergeSince(db, d, MergeEntry(s, t))
    BY <1>0, <2>1, <2>2, MergeIsSince
  <2>4. MergeEntry(s, t).kind = "merge_people"
    BY DEF MergeEntry
  <2>5. Since(db, d, MergeEntry(s, t))
    BY <2>3, <2>4 DEF Since
  <2> QED BY <2>1, <2>5, LastSet
<1> QED BY <1>1, <1>2, <1>3, <1>4, <1>5, <1>6 DEF Requests

\* What the latest operation changed is known, until clusters were merged or undos crossed.
LEMMA LastStep ==
  ASSUME TypeInv, UndosMarked, Mixed \/ Crossed \/ Seen, Mixed \/ Crossed \/ LastInv,
         [Next]_vars
  PROVE  (Mixed \/ Crossed \/ LastInv)'
<1>1. CASE Mixed \/ Crossed
  BY <1>1, BadStays
<1>2. CASE Seen /\ LastInv
  <2>1. CASE UNCHANGED vars
    BY <1>2, <2>1 DEF vars, LastInv
  <2>2. CASE Pipeline
    <3>1. ASSUME NEW e \in Events, Arrive(e) PROVE LastInv'
      BY <3>1 DEF Arrive, LastInv
    <3>2. ASSUME NEW t \in Tracks, \/ \E p, A : Recognise(t, p, A)
                                   \/ \E c : Cluster(t, c)
          PROVE  LastInv'
      <4>1. todo # {} /\ last' = last
        BY <3>2 DEF Recognise, Cluster
      <4> QED BY <1>2, <4>1 DEF LastInv
    <3> QED BY <2>2, <3>1, <3>2 DEF Pipeline
  <2>3. CASE Undoes
    <3>1. PICK n : \/ UndoLabel(n) \/ UndoAssign(n) \/ UndoFalsePositive(n)
                   \/ UndoMergeClusters(n) \/ UndoMergePeople(n)
      BY <2>3 DEF Undoes
    <3>2. PICK kind, d : Undoing(n, kind, d)
      BY <3>1, UndoLabelRows, UndoAssignRows, UndoFalsePositiveRows, UndoMergeClustersRows,
         UndoMergePeopleRows
    <3>3. Mutates(kind, d, UndoEntry(n)) /\ UndoEntry(n).kind = "undo"
      BY <3>2, UndoEntryIs DEF Undoing
    <3> QED BY <1>2, <3>3, LastOther
  <2> QED BY <1>2, <2>1, <2>2, <2>3, LastRequests DEF Next
<1> QED BY <1>1, <1>2

\* So it is always.
LEMMA Lasting == Spec => [](Mixed \/ Crossed \/ LastInv)
<1>1. Init => Mixed \/ Crossed \/ LastInv
  BY DEF Init, LastInv
<1>2. /\ TypeInv /\ UndosMarked /\ (Mixed \/ Crossed \/ Seen)
      /\ (Mixed \/ Crossed \/ LastInv) /\ [Next]_vars
      => (Mixed \/ Crossed \/ LastInv)'
  BY LastStep
<1> QED BY <1>1, <1>2, Typed, Marked1, Seeing, PTL DEF Spec

-----------------------------------------------------------------------------
(* The undos change it back.                                               *)

\* A row of a cluster, whatever its version.
Versionless(row) == [row EXCEPT !.version = 0]

SameClusters(d, e) ==
  \A c \in Clusters : Versionless(d.clusters[c]) = Versionless(e.clusters[c])

\* Rows of a cluster with one status, label and target differ in their version only.
LEMMA VersionOnly ==
  ASSUME NEW r1 \in ClusterRow, NEW r2 \in ClusterRow, r1.status = r2.status,
         r1.label = r2.label, r1.into = r2.into
  PROVE  Versionless(r1) = Versionless(r2)
  BY DEF ClusterRow, Versionless

\* A cluster row that was changed, and changed back.
LEMMA ClustersBack ==
  ASSUME NEW old \in [Clusters -> ClusterRow], NEW c \in Clusters, NEW r1 \in ClusterRow,
         NEW r2 \in ClusterRow, r2.status = old[c].status, r2.label = old[c].label,
         r2.into = old[c].into, NEW d,
         d.clusters = [[old EXCEPT ![c] = r1] EXCEPT ![c] = r2]
  PROVE  \A x \in Clusters : Versionless(d.clusters[x]) = Versionless(old[x])
<1>1. \A x \in Clusters : d.clusters[x] = IF x = c THEN r2 ELSE old[x]
  OBVIOUS
<1>2. Versionless(r2) = Versionless(old[c])
  BY VersionOnly
<1> QED BY <1>1, <1>2

\* Tracks that were nobody's are so again, and the cluster is open again.
LEMMA TokenBack ==
  ASSUME NEW old \in Rows, NEW new \in Rows, NEW op, TokenSince(old, new, op), NEW d,
         d.owner = Moved(new.owner, op.tracks, Nobody), d.home = new.home,
         d.clusters = [new.clusters EXCEPT ![op.cluster] = Reopened(@, Nobody)]
  PROVE  d.owner = old.owner /\ d.home = old.home /\ SameClusters(d, old)
<1>1. /\ op.cluster \in Clusters /\ op.person \in People /\ op.tracks \subseteq Tracks
      /\ \A t \in op.tracks : old.owner[t] = Nobody
      /\ new.owner = Moved(old.owner, op.tracks, op.person) /\ new.home = old.home
      /\ new.clusters = [old.clusters EXCEPT ![op.cluster] = Labeled(@, op.person)]
      /\ old.clusters[op.cluster].status = "open" /\ old.clusters[op.cluster].label = Nobody
  BY DEF TokenSince
<1>2. old.owner \in [Tracks -> Owners] /\ old.clusters \in [Clusters -> ClusterRow]
  BY RowsAre
<1>3. d.owner = old.owner
  BY <1>1, <1>2 DEF Moved
<1> DEFINE c == op.cluster
           r1 == Labeled(old.clusters[c], op.person)
           r2 == Reopened(r1, Nobody)
<1>4. op.person \in Owners /\ Nobody \in Owners
  BY <1>1 DEF Owners
<1>5. old.clusters[c] \in ClusterRow
  BY <1>1, <1>2
<1>6. r1 \in ClusterRow /\ r1.into = old.clusters[c].into
  BY <1>4, <1>5, TypedRow, IntoFields
<1> HIDE DEF r1
<1>7. r2 \in ClusterRow /\ r2.status = "open" /\ r2.label = Nobody /\ r2.into = r1.into
  BY <1>4, <1>6, TypedRow, RowFields, IntoFields
<1>8. new.clusters[c] = r1
  BY <1>1, <1>2 DEF r1
<1>9. d.clusters = [[old.clusters EXCEPT ![c] = r1] EXCEPT ![c] = r2]
  BY <1>1, <1>8 DEF r1
<1> HIDE DEF r2, c
<1>10. SameClusters(d, old)
  <2>1. /\ c \in Clusters /\ r2.status = old.clusters[c].status
        /\ r2.label = old.clusters[c].label /\ r2.into = old.clusters[c].into
    BY <1>1, <1>6, <1>7 DEF c
  <2>2. old.clusters \in [Clusters -> ClusterRow] /\ r1 \in ClusterRow /\ r2 \in ClusterRow
    BY <1>2, <1>6, <1>7
  <2>3. r2.status = old.clusters[c].status /\ r2.label = old.clusters[c].label
    BY <2>1
  <2>4. \A x \in Clusters : Versionless(d.clusters[x]) = Versionless(old.clusters[x])
    BY <1>9, <2>1, <2>2, <2>3, ClustersBack
  <2> QED BY <2>4 DEF SameClusters
<1> QED BY <1>1, <1>3, <1>10

\* The undo of a label restores the rows.
LEMMA LabelBack ==
  ASSUME TypeInv, NEW old \in Rows, NEW op, LabelSince(old, db, op), NEW d, Unlabels(d, op)
  PROVE  Same(d, old)
<1>1. db \in Rows /\ TokenSince(old, db, op)
  BY DEF TypeInv, LabelSince
<1>2. /\ d.home = db.home /\ d.links = db.links
      /\ d.owner = Moved(db.owner, op.tracks, Nobody)
      /\ d.obs = Without(db.obs, Keys(ObsOf(db, op.person)))
      /\ d.protos = Without(db.protos, Keys(ProtosOf(db, op.person)))
      /\ d.clusters = [db.clusters EXCEPT ![op.cluster] = Reopened(@, Nobody)]
      /\ d.people = [db.people EXCEPT ![op.person] = NoPerson]
  BY DEF Unlabels
<1>3. d.owner = old.owner /\ d.home = old.home /\ SameClusters(d, old)
  BY <1>1, <1>2, TokenBack
<1>4. d.obs = old.obs /\ d.protos = old.protos
  BY <1>2, AddedBack DEF LabelSince
<1>5. d.people = old.people
  <2>1. /\ old.people \in [People -> PersonRow] /\ op.person \in People
        /\ old.people[op.person] = NoPerson
        /\ db.people = [old.people EXCEPT ![op.person] = Active]
    BY RowsAre DEF LabelSince, TokenSince
  <2> QED BY <1>2, <2>1
<1>6. d.links = old.links
  BY <1>2 DEF LabelSince
<1> QED BY <1>3, <1>4, <1>5, <1>6 DEF Same, SameClusters, Versionless

\* So does that of an assignment.
LEMMA AssignBack ==
  ASSUME TypeInv, NEW old \in Rows, NEW op, AssignSince(old, db, op), NEW d, Unassigns(d, op)
  PROVE  Same(d, old)
<1>1. /\ db \in Rows /\ TokenSince(old, db, op) /\ op.label = Nobody
      /\ \A t \in op.tracks : op.owners[t] = Nobody
      /\ op.links \subseteq old.links /\ db.links = old.links \ op.links
      /\ db.people = old.people
  BY DEF TypeInv, AssignSince
<1>2. /\ d.home = db.home /\ d.people = db.people /\ d.links = db.links \cup op.links
      /\ d.owner = [t \in Tracks |-> IF t \in op.tracks THEN op.owners[t] ELSE db.owner[t]]
      /\ d.obs = Without(db.obs, op.obs) /\ d.protos = Without(db.protos, op.protos)
      /\ d.clusters = [db.clusters EXCEPT ![op.cluster] = Reopened(@, op.label)]
  BY DEF Unassigns
<1>3. d.owner = Moved(db.owner, op.tracks, Nobody)
  BY <1>1, <1>2 DEF Moved
<1>4. d.owner = old.owner /\ d.home = old.home /\ SameClusters(d, old)
  BY <1>1, <1>2, <1>3, TokenBack
<1>5. d.obs = old.obs
  <2>1. PICK N : Added(old.obs, db.obs, N) /\ op.obs = Keys(N)
    BY DEF AssignSince
  <2> QED BY <1>2, <2>1, AddedBack
<1>6. d.protos = old.protos
  <2>1. PICK N : Added(old.protos, db.protos, N) /\ op.protos = Keys(N)
    BY DEF AssignSince
  <2> QED BY <1>2, <2>1, AddedBack
<1>7. d.links = old.links /\ d.people = old.people
  BY <1>1, <1>2
<1> QED BY <1>4, <1>5, <1>6, <1>7 DEF Same, SameClusters, Versionless

\* So does that of a false positive.
LEMMA FalseBack ==
  ASSUME TypeInv, NEW old \in Rows, NEW op, FalseSince(old, db, op), NEW d, d.home = db.home,
         SamePeople(d), d.clusters = [db.clusters EXCEPT ![op.cluster] = Marked(@, op.status)]
  PROVE  Same(d, old)
<1> DEFINE c == op.cluster
           r1 == Marked(old.clusters[c], "false_positive")
           r2 == Marked(r1, op.status)
<1>1. /\ c \in Clusters /\ op.status = old.clusters[c].status
      /\ db.clusters = [old.clusters EXCEPT ![c] = r1]
      /\ db.owner = old.owner /\ db.home = old.home /\ db.links = old.links
      /\ db.people = old.people /\ db.obs = old.obs /\ db.protos = old.protos
  BY DEF FalseSince
<1>2. old.clusters \in [Clusters -> ClusterRow]
  BY RowsAre
<1>3. old.clusters[c] \in ClusterRow /\ old.clusters[c].status \in Statuses
  BY <1>1, <1>2 DEF ClusterRow
<1>4. /\ r1 \in ClusterRow /\ r1.label = old.clusters[c].label
      /\ r1.into = old.clusters[c].into
  <2>1. "false_positive" \in Statuses
    BY DEF Statuses
  <2> QED BY <1>3, <2>1, TypedRow, RowFields, IntoFields
<1> HIDE DEF r1
<1>5. /\ r2 \in ClusterRow /\ r2.status = op.status /\ r2.label = r1.label
      /\ r2.into = r1.into
  BY <1>1, <1>3, <1>4, TypedRow, RowFields, IntoFields
<1>6. d.clusters = [[old.clusters EXCEPT ![c] = r1] EXCEPT ![c] = r2]
  <2>1. db.clusters[c] = r1
    BY <1>1, <1>2
  <2> QED BY <1>1, <2>1
<1> HIDE DEF r2, c
<1>7. SameClusters(d, old)
  <2>1. /\ c \in Clusters /\ r2.status = old.clusters[c].status
        /\ r2.label = old.clusters[c].label /\ r2.into = old.clusters[c].into
    BY <1>1, <1>4, <1>5
  <2> QED BY <1>2, <1>4, <1>5, <1>6, <2>1, ClustersBack DEF SameClusters
<1> QED BY <1>1, <1>7 DEF Same, SamePeople, SameClusters, Versionless

\* So does that of a merge of people.
LEMMA MergeBack ==
  ASSUME TypeInv, NEW old \in Rows, NEW op, MergeSince(old, db, op), NEW d, Unmerges(d, op)
  PROVE  Same(d, old)
<1> DEFINE s == op.source
           t == op.target
<1>1. /\ s \in People /\ t \in People
      /\ db.home = old.home /\ db.links = old.links /\ db.clusters = old.clusters
      /\ op.tracks = Owned(old, s) /\ db.owner = Moved(old.owner, op.tracks, t)
      /\ old.people[s] = Active
      /\ db.people = [old.people EXCEPT ![s] = MergedAway(t)]
      /\ \A q \in old.protos : q.key \in op.protos => q.of = s
      /\ db.protos = Given(old.protos, op.protos, t)
  BY DEF MergeSince
<1>2. PICK D \in SUBSET old.obs :
        /\ op.twice = Keys(D) /\ \A o \in D : o.of = s
        /\ \A o \in old.obs : o.key \in op.obs => o.of = s
        /\ db.obs = Given(old.obs \ D, op.obs, t)
  BY DEF MergeSince
<1>3. /\ d.home = db.home /\ d.links = db.links /\ d.clusters = db.clusters
      /\ d.owner = Moved(db.owner, op.tracks, s)
      /\ d.obs = Given(db.obs, op.obs, s) \cup Again(op.twice, s)
      /\ d.protos = Given(db.protos, op.protos, s)
      /\ d.people = [db.people EXCEPT ![s] = Active]
  BY DEF Unmerges
<1> HIDE DEF s, t
<1>4. /\ old.owner \in [Tracks -> Owners] /\ old.people \in [People -> PersonRow]
      /\ old.obs \in SUBSET [key : ObsKeys, of : People]
      /\ old.protos \in SUBSET [key : ProtoKeys, of : People]
  BY RowsAre
<1>5. d.owner = old.owner
  BY <1>1, <1>3, <1>4 DEF Moved, Owned
<1>6. d.people = old.people
  BY <1>1, <1>3, <1>4
<1>7. d.protos = old.protos
  <2>1. \A q \in old.protos : /\ q = [key |-> q.key, of |-> q.of]
                              /\ q.key \in op.protos => q.of = s
    BY <1>1, <1>4
  <2>2. Given(Given(old.protos, op.protos, t), op.protos, s) = old.protos
    BY <2>1, GivenBack
  <2> QED BY <1>1, <1>3, <2>2
<1>8. d.obs = old.obs
  <2>1. \A x \in old.obs \ D : /\ x = [key |-> x.key, of |-> x.of]
                               /\ x.key \in op.obs => x.of = s
    BY <1>2, <1>4
  <2>2. Given(Given(old.obs \ D, op.obs, t), op.obs, s) = old.obs \ D
    BY <2>1, GivenBack
  <2>3. Again(Keys(D), s) = D
    <3>1. \A o \in D : o = [key |-> o.key, of |-> s]
      BY <1>2, <1>4
    <3> QED BY <3>1 DEF Again, Keys
  <2> QED BY <1>2, <1>3, <2>2, <2>3
<1>9. SameClusters(d, old)
  BY <1>1, <1>3 DEF SameClusters
<1> QED BY <1>1, <1>3, <1>5, <1>6, <1>7, <1>8, <1>9 DEF Same, SameClusters, Versionless

\* The undo of the latest operation restores the rows before it.
LEMMA UndoneBack ==
  ASSUME TypeInv, LastInv, ~Mixed, UndoesLatest, [Next]_vars
  PROVE  Same(db', last[1])
<1> DEFINE old == last[1]
           n == Len(log)
           op == log[n]
<1>1. n \in undone' \ undone /\ last # <<>>
  BY DEF UndoesLatest, Now
<1>2. Since(old, db, op) /\ old \in Rows
  BY <1>1 DEF LastInv, TypeInv
<1>3. Undoes
  <2>1. undone' # undone
    BY <1>1
  <2>2. CASE Pipeline \/ UNCHANGED vars
    BY <2>1, <2>2 DEF Pipeline, Arrive, Recognise, Cluster, vars
  <2>3. CASE Requests
    <3>1. \A c, A : Label(c, A) => undone' = undone
      BY DEF Label
    <3>2. \A c, p, A : Assign(c, p, A) => undone' = undone
      BY DEF Assign
    <3>3. \A c, x : FalsePositive(c) \/ Split(c, x) \/ MergeClusters(c, x) =>
                      undone' = undone
      BY DEF FalsePositive, Split, MergeClusters
    <3>4. \A s, t : MergePeople(s, t) => undone' = undone
      BY DEF MergePeople
    <3> QED BY <2>1, <2>3, <3>1, <3>2, <3>3, <3>4 DEF Requests
  <2> QED BY <2>2, <2>3 DEF Next
<1>4. ASSUME NEW m, NEW kind, NEW d, Undoing(m, kind, d) PROVE m = n /\ db' = d
  <2>1. undone' = undone \cup {m} /\ Committing(d, UndoEntry(m))
    BY <1>1, <1>4, UndoingOutcome
  <2> QED BY <1>1, <2>1 DEF Committing
<1> HIDE DEF old, op, n
<1>5. PICK m : \/ UndoLabel(m) \/ UndoAssign(m) \/ UndoFalsePositive(m)
               \/ UndoMergeClusters(m) \/ UndoMergePeople(m)
  BY <1>3 DEF Undoes
<1>6. CASE UndoLabel(m)
  <2>1. PICK d : Undoing(m, "undo_label", d) /\ Unlabels(d, log[m])
    BY <1>6, UndoLabelRows
  <2>2. log[m].kind = "label"
    BY <1>6, UndoLabelRows DEF MayUnlabel
  <2>3. log[m] = op /\ db' = d
    BY <1>4, <2>1 DEF op
  <2>4. LabelSince(old, db, op)
    BY <1>2, <2>2, <2>3 DEF Since
  <2>5. Same(d, old)
    BY <1>2, <2>1, <2>3, <2>4, LabelBack
  <2> QED BY <2>3, <2>5 DEF old
<1>7. CASE UndoAssign(m)
  <2>1. PICK d : Undoing(m, "undo_assign", d) /\ Unassigns(d, log[m])
    BY <1>7, UndoAssignRows
  <2>2. log[m].kind = "assign"
    BY <1>7, UndoAssignRows DEF MayUnassign
  <2>3. log[m] = op /\ db' = d
    BY <1>4, <2>1 DEF op
  <2>4. AssignSince(old, db, op)
    BY <1>2, <2>2, <2>3 DEF Since
  <2>5. Same(d, old)
    BY <1>2, <2>1, <2>3, <2>4, AssignBack
  <2> QED BY <2>3, <2>5 DEF old
<1>8. CASE UndoFalsePositive(m)
  <2>1. PICK d : /\ Undoing(m, "undo_false_positive", d) /\ d.home = db.home /\ SamePeople(d)
                 /\ d.clusters = [db.clusters EXCEPT
                                   ![log[m].cluster] = Marked(@, log[m].status)]
    BY <1>8, UndoFalsePositiveRows
  <2>2. log[m].kind = "false_positive"
    BY <1>8, UndoFalsePositiveRows
  <2>3. log[m] = op /\ db' = d
    BY <1>4, <2>1 DEF op
  <2>4. FalseSince(old, db, op)
    BY <1>2, <2>2, <2>3 DEF Since
  <2>5. Same(d, old)
    BY <1>2, <2>1, <2>3, <2>4, FalseBack
  <2> QED BY <2>3, <2>5 DEF old
<1>9. CASE UndoMergePeople(m)
  <2>1. PICK d : Undoing(m, "undo_merge_people", d) /\ Unmerges(d, log[m])
    BY <1>9, UndoMergePeopleRows
  <2>2. log[m].kind = "merge_people"
    BY <1>9, UndoMergePeopleRows DEF MayUnmerge
  <2>3. log[m] = op /\ db' = d
    BY <1>4, <2>1 DEF op
  <2>4. MergeSince(old, db, op)
    BY <1>2, <2>2, <2>3 DEF Since
  <2>5. Same(d, old)
    BY <1>2, <2>1, <2>3, <2>4, MergeBack
  <2> QED BY <2>3, <2>5 DEF old
<1>10. ~UndoMergeClusters(m)
  BY DEF UndoMergeClusters, Undoable, Mixed
<1> QED BY <1>5, <1>6, <1>7, <1>8, <1>9, <1>10

\* The undo of the latest operation restores every row it changed (undo_operation and
\* what the operations record for it), as long as no clusters were merged and no undos
\* crossed, whatever was corrected and undone before.
THEOREM UndoIsInverse == Spec => UndoRestores
<1>1. /\ TypeInv /\ (Mixed \/ Crossed \/ LastInv) /\ [Next]_vars
      => [UndoesLatest /\ ~Mixed /\ ~Crossed => Same(db', last[1])]_vars
  BY UndoneBack
<1> QED BY <1>1, Typed, Lasting, PTL DEF Spec, UndoRestores
=============================================================================
