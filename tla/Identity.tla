------------------------------ MODULE Identity ------------------------------
(***************************************************************************)
(* Who is who: the face tracks of an event are matched to known people or  *)
(* gathered in unknown clusters (recognition.py, called by pipeline.py),   *)
(* and the owner names, assigns, merges and discards clusters, merges      *)
(* people, and undoes any of it, in any order (people.py).                 *)
(*                                                                         *)
(* Similarity is a number in the code and a choice here: a track may       *)
(* resemble anybody, and a good sample may add to the prototypes or not.   *)
(* candidate and review_ready are one status, "open"; provisional and      *)
(* trusted are one status, "active".  There is one face model.  Renames,     *)
(* replayed requests and the counts of rows (matched_events, member_count) *)
(* are left out, and so is the undo of a split, since no split commits.    *)
(*                                                                         *)
(* Every owner's request runs under BEGIN IMMEDIATE (web_common.py:31) and *)
(* an event is one transaction, so a request is one step.  What makes a    *)
(* step hard is the session: autoflush=False (db.py:26), so a query sees   *)
(* the STORED rows, which are `db`, and not what the request has changed   *)
(* so far.  A request computes the new rows from both, and they are        *)
(* committed if they satisfy the schema's constraints (Sound).             *)
(***************************************************************************)
EXTENDS Naturals, Sequences, FiniteSets

CONSTANTS
  Tracks,     \* face tracks
  Events,     \* events
  EventOf,    \* the event of each track
  Good,       \* the tracks with the quality of a prototype
  Frames,     \* the pairs of tracks that were seen in one frame
  NoCluster,
  Spare,      \* the cluster a split creates
  Kinds,      \* the kinds of request the owner makes in this instance
  MaxOps      \* bound on the recorded operations

ASSUME IdentityAssumption ==
  /\ EventOf \in [Tracks -> Events] /\ Good \subseteq Tracks
  /\ \A pair \in Frames : \E t, u \in Tracks :
       t # u /\ EventOf[t] = EventOf[u] /\ pair = {t, u}
  /\ NoCluster \notin Tracks \cup {Spare} /\ Spare \notin Tracks
  /\ MaxOps \in Nat

VARIABLES
  pending,    \* events whose videos have not been analysed
  todo,       \* tracks of the event in the pipeline, still to be decided
  db,         \* the stored rows
  log,        \* manual_operations, without those refused or rolled back
  undone,     \* the operations with undone_at
  failed,     \* kinds of requests that ended in an IntegrityError (history)
  last        \* the rows before the latest operation, while it is the latest
              \* thing that happened (history)

vars == <<pending, todo, db, log, undone, failed, last>>

-----------------------------------------------------------------------------
(* The rows.  A cluster has the name of the track it was created for; the  *)
(* n-th operation creates person n.  An observation or prototype has the   *)
(* person it was created for, its event or track and the number of         *)
(* operations before it as its key, and `of`, the person it has now.       *)

Clusters == Tracks \cup {Spare}
People   == 1 .. MaxOps
Nobody   == 0

Observation == [key : People \X Events \X (0 .. MaxOps), of : People]
Prototype   == [key : People \X Tracks \X (0 .. MaxOps), of : People]

Rows == [
  owner    : [Tracks -> People \cup {Nobody}],          \* face_tracks.person_id
  home     : [Tracks -> Clusters \cup {NoCluster}],     \* its cluster, and member row
  links    : SUBSET Frames,                             \* cannot_links
  clusters : [Clusters ->
    [status : {"none", "open", "labeled", "merged", "false_positive"},
     label : People \cup {Nobody}, into : Clusters \cup {NoCluster}, version : Nat]],
  people   : [People -> [status : {"none", "active", "merged"},
                         into : People \cup {Nobody}]],
  obs      : SUBSET Observation,                        \* person_observations
  protos   : SUBSET Prototype,                          \* face_prototypes
  index    : [People -> SUBSET (People \X Tracks \X (0 .. MaxOps))]]
             \* person_index: the prototypes in the centroid; {} is no row

Members(d, c)   == {t \in Tracks : d.home[t] = c}
Owned(d, p)     == {t \in Tracks : d.owner[t] = p}
ObsOf(d, p)     == {o \in d.obs : o.of = p}
ProtosOf(d, p)  == {q \in d.protos : q.of = p}
Keys(S)         == {x.key : x \in S}
Exists(d, c)    == d.clusters[c].status # "none"
IsOpen(d, c)    == d.clusters[c].status = "open"

\* Mutant of IsActive: a person who was merged may be asked for.
ExistsPerson(d, p) == d.people[p].status # "none"

IsActive(d, p) == d.people[p].status = "active"

\* Mutant of Given: the rows stay with whom they were.
GivenNothing(S, K, p) == S

\* The rows of S with keys K go to person p.
Given(S, K, p) == {IF x.key \in K THEN [x EXCEPT !.of = p] ELSE x : x \in S}

\* Mutant of Without: nothing is deleted.
WithoutNothing(S, K) == S

Without(S, K) == {x \in S : x.key \notin K}

\* Mutant of Conflicts: only one of the two sides is looked at.
ConflictsWithin(d, S, T) == {pair \in d.links : pair \subseteq S}

\* _has_cannot_link, cluster_person_conflicts
Conflicts(d, S, T) == {pair \in d.links : \E t \in S, u \in T : pair = {t, u}}

\* Foreign keys of track, member, cluster and person rows, and the unique
\* (person, event) and (person, source track) of observations and prototypes.
Sound(d) ==
  /\ \A t \in Tracks : d.owner[t] # Nobody => d.people[d.owner[t]].status # "none"
  /\ \A t \in Tracks : d.home[t] # NoCluster => Exists(d, d.home[t])
  /\ \A c \in Clusters : Exists(d, c) =>
       LET r == d.clusters[c]
       IN  /\ r.label # Nobody => d.people[r.label].status # "none"
           /\ r.into # NoCluster => Exists(d, r.into)
  /\ \A p \in People : d.people[p].into # Nobody =>
       d.people[d.people[p].into].status # "none"
  /\ \A o1, o2 \in d.obs :
       o1.of = o2.of /\ o1.key[2] = o2.key[2] => o1 = o2
  /\ \A q1, q2 \in d.protos :
       q1.of = q2.of /\ q1.key[2] = q2.key[2] => q1 = q2

NoRow == [status |-> "none", label |-> Nobody, into |-> NoCluster, version |-> 0]
NoPerson == [status |-> "none", into |-> Nobody]

Init ==
  /\ pending = Events /\ todo = {}
  /\ db = [owner    |-> [t \in Tracks |-> Nobody],
           home     |-> [t \in Tracks |-> NoCluster],
           links    |-> {},
           clusters |-> [c \in Clusters |-> NoRow],
           people   |-> [p \in People |-> NoPerson],
           obs      |-> {}, protos |-> {},
           index    |-> [p \in People |-> {}]]
  /\ log = <<>> /\ undone = {} /\ failed = {}
  /\ last = <<>>

Now == Len(log)

-----------------------------------------------------------------------------
(* Learning that the tracks T show person p: observe_person makes one      *)
(* observation per event, admit_prototype takes the samples A, at most one *)
(* per track, and rebuilds the index if there is a new one (all flushed).  *)

NewObs(d, p, T) ==
  LET seen == {o.key[2] : o \in ObsOf(d, p)}
  IN  {[key |-> <<p, e, Now>>, of |-> p] : e \in {EventOf[t] : t \in T} \ seen}

NewProtos(d, p, A) ==
  LET sources == {q.key[2] : q \in ProtosOf(d, p)}
  IN  {[key |-> <<p, t, Now>>, of |-> p] : t \in A \ sources}

\* Mutant of Rebuilt: the row stays when the last prototype is gone.
RebuiltUnlessEmpty(index, p, P) ==
  IF \A q \in P : q.of # p THEN index
                           ELSE [index EXCEPT ![p] = Keys({q \in P : q.of = p})]

\* rebuild_person_index, over the prototypes P its query sees
Rebuilt(index, p, P) == [index EXCEPT ![p] = Keys({q \in P : q.of = p})]

Learned(d, p, T, A) ==
  LET protos == d.protos \cup NewProtos(d, p, A)
  IN  [d EXCEPT !.owner  = [t \in Tracks |-> IF t \in T THEN p ELSE @[t]],
                !.obs    = @ \cup NewObs(d, p, T),
                !.protos = protos,
                !.index  = IF NewProtos(d, p, A) = {} THEN @ ELSE Rebuilt(@, p, protos)]

\* UnknownClusterer.refresh: a cluster without stored members is deleted
Refreshed(clusters, c, stored) ==
  IF stored = {} THEN [clusters EXCEPT ![c] = NoRow]
                 ELSE [clusters EXCEPT ![c].version = @ + 1]

-----------------------------------------------------------------------------
(* The pipeline: the tracks of an event and their cannot-links, then one   *)
(* decision per track, all in one transaction.                             *)

Arrive(e) ==
  /\ todo = {} /\ e \in pending
  /\ pending' = pending \ {e}
  /\ todo' = {t \in Tracks : EventOf[t] = e}
  /\ db' = [db EXCEPT !.links = @ \cup {pair \in Frames : pair \subseteq todo'}]
  /\ last' = <<>>
  /\ UNCHANGED <<log, undone, failed>>

\* Mutant of Excluded: a frame may show one person twice.
ExcludesNobody(t) == {}

\* The people the tracks seen beside t were matched to in this event.
Excluded(t) == {db.owner[u] : u \in {v \in Tracks : {t, v} \in db.links}}

\* match returns "known": the person has an index row and a prototype.
Recognise(t, p, A) ==
  /\ t \in todo
  /\ IsActive(db, p) /\ db.index[p] # {} /\ ProtosOf(db, p) # {}
  /\ p \notin Excluded(t)
  /\ db' = Learned(db, p, {t}, A)
  /\ todo' = todo \ {t}
  /\ UNCHANGED <<pending, log, undone, failed, last>>

\* assign: into an open cluster with nobody from a frame of t, or a new one.
Cluster(t, c) ==
  /\ t \in todo
  /\ \/ c = t
     \/ IsOpen(db, c) /\ Conflicts(db, {t}, Members(db, c)) = {}
  /\ LET created == [db.clusters EXCEPT ![c] =
                       IF c = t THEN [NoRow EXCEPT !.status = "open"] ELSE @]
     IN  db' = [db EXCEPT !.home[t] = c,
                          !.clusters = Refreshed(created, c, {t})]
  /\ todo' = todo \ {t}
  /\ UNCHANGED <<pending, log, undone, failed, last>>

-----------------------------------------------------------------------------
(* A request of the owner: committed and recorded, or rolled back.         *)

Mutates(kind, d, entry) ==
  /\ kind \in Kinds /\ todo = {} /\ Now < MaxOps
  /\ IF Sound(d)
     THEN /\ db' = d /\ log' = Append(log, entry) /\ last' = <<db>>
          /\ UNCHANGED failed
     ELSE /\ failed' = failed \cup {kind}
          /\ UNCHANGED <<db, log, last>>
  /\ UNCHANGED <<pending, todo>>

Marked(row, status) == [row EXCEPT !.status = status, !.version = @ + 1]

Labeled(row, p) ==
  [row EXCEPT !.status = "labeled", !.label = p, !.version = @ + 1]

MergedInto(row, c) ==
  [row EXCEPT !.status = "merged", !.into = c, !.version = @ + 1]

Label(c, A) ==
  LET T == Members(db, c)
      p == Now + 1
      d == Learned([db EXCEPT !.people[p].status = "active"], p, T, A)
  IN  /\ IsOpen(db, c) /\ T # {} /\ A \subseteq T
      /\ Mutates("label",
           [d EXCEPT !.clusters[c] = Labeled(@, p)],
           [kind |-> "label", cluster |-> c, person |-> p, tracks |-> T])
      /\ UNCHANGED undone

\* _person_learning_revision, as far as the rows are modelled
Revision(d, p) == <<Owned(d, p), ObsOf(d, p), ProtosOf(d, p)>>

\* Conflicts are refused, or reviewed by the owner and then deleted.
Assign(c, p, A) ==
  LET T         == Members(db, c)
      conflicts == Conflicts(db, T, Owned(db, p))
      learned   == Learned(db, p, T, A)
      d         == [learned EXCEPT
                     !.links = @ \ conflicts,
                     !.clusters[c] = Labeled(@, p)]
  IN  /\ IsOpen(db, c) /\ IsActive(db, p) /\ T # {} /\ A \subseteq T
      /\ conflicts # {} => "correct" \in Kinds
      /\ Mutates("assign", d,
           [kind |-> "assign", cluster |-> c, person |-> p, tracks |-> T,
            owners |-> [t \in T |-> db.owner[t]],
            label |-> db.clusters[c].label,
            version |-> db.clusters[c].version,
            obs |-> Keys(NewObs(db, p, T)), protos |-> Keys(NewProtos(db, p, A)),
            links |-> conflicts,
            revision |-> Revision(d, p)])
      /\ UNCHANGED undone

FalsePositive(c) ==
  /\ Exists(db, c)
  /\ Mutates("false_positive",
       [db EXCEPT !.clusters[c] = Marked(@, "false_positive")],
       [kind |-> "false_positive", cluster |-> c, status |-> db.clusters[c].status])
  /\ UNCHANGED undone

\* merge_clusters looks at no status; refresh sees the target's old members.
MergeClusters(s, t) ==
  LET T    == Members(db, s)
      gone == [db.clusters EXCEPT ![s] = MergedInto(@, t)]
  IN  /\ s # t /\ Exists(db, s) /\ Exists(db, t)
      /\ Conflicts(db, T, Members(db, t)) = {}
      /\ Mutates("merge_clusters",
           [db EXCEPT !.home = [u \in Tracks |-> IF u \in T THEN t ELSE @[u]],
                      !.clusters = Refreshed(gone, t, Members(db, t))],
           [kind |-> "merge_clusters", source |-> s, target |-> t, tracks |-> T,
            status |-> db.clusters[s].status, into |-> db.clusters[s].into])
      /\ UNCHANGED undone

\* The new cluster has no stored members when it is refreshed.
Split(c, T) ==
  LET new  == [db.clusters EXCEPT ![Spare] = [NoRow EXCEPT !.status = "open"]]
      kept == Refreshed(new, c, Members(db, c))
  IN  /\ IsOpen(db, c) /\ ~Exists(db, Spare)
      /\ T # {} /\ T \subseteq Members(db, c) /\ T # Members(db, c)
      /\ Mutates("split",
           [db EXCEPT !.home = [u \in Tracks |-> IF u \in T THEN Spare ELSE @[u]],
                      !.clusters = Refreshed(kept, Spare, Members(db, Spare))],
           [kind |-> "split", cluster |-> c, tracks |-> T])
      /\ UNCHANGED undone

\* Mutant of Twice: every observation moves.
TwiceNever(d, s, t) == {}

\* The observations of s at events where t has one too: they are deleted.
Twice(d, s, t) ==
  {o \in ObsOf(d, s) : \E o2 \in ObsOf(d, t) : o.key[2] = o2.key[2]}

\* The target's index is rebuilt before the moved prototypes are flushed.
MergePeople(s, t) ==
  LET moved == ProtosOf(db, s)
      twice == Twice(db, s, t)
      own   == ObsOf(db, s) \ twice
      index == [db.index EXCEPT ![s] = {}]
  IN  /\ s # t /\ IsActive(db, s) /\ IsActive(db, t)
      /\ Conflicts(db, Owned(db, s), Owned(db, t)) = {}
      /\ Mutates("merge_people",
           [db EXCEPT !.owner  = [u \in Tracks |-> IF @[u] = s THEN t ELSE @[u]],
                      !.obs    = Given(@ \ twice, Keys(own), t),
                      !.protos = Given(@, Keys(moved), t),
                      !.people[s] = [status |-> "merged", into |-> t],
                      !.index  = IF moved = {} THEN index
                                 ELSE Rebuilt(index, t, db.protos)],
           [kind |-> "merge_people", source |-> s, target |-> t,
            tracks |-> Owned(db, s), protos |-> Keys(moved),
            obs |-> Keys(own), twice |-> Keys(twice)])
      /\ UNCHANGED undone

-----------------------------------------------------------------------------
(* undo_operation.  Operations may be undone in any order, once.           *)

Undo(n, kind, d) ==
  /\ IF Sound(d) THEN undone' = undone \cup {n} ELSE UNCHANGED undone
  /\ Mutates(kind, d, [kind |-> "undo", op |-> n])

Undoable(n, kind) == n \in DOMAIN log \ undone /\ log[n].kind = kind

\* Mutant of Reopened: the cluster is still called labeled.
ReopenedLabeled(row, label) == [row EXCEPT !.label = label, !.version = @ + 1]

\* A cluster as it was before it was labelled.
Reopened(row, label) ==
  [row EXCEPT !.status = "open", !.label = label, !.version = @ + 1]

UndoLabel(n) ==
  /\ Undoable(n, "label")
  /\ LET op == log[n]
         p  == op.person
     IN  /\ Exists(db, op.cluster) /\ IsActive(db, p)
         /\ op.tracks \subseteq Owned(db, p)
         /\ Undo(n, "undo_label",
              [db EXCEPT !.owner = [t \in Tracks |-> IF t \in op.tracks THEN Nobody
                                                                       ELSE @[t]],
                         !.obs = Without(@, Keys(ObsOf(db, p))),
                         !.protos = Without(@, Keys(ProtosOf(db, p))),
                         !.index[p] = {},
                         !.clusters[op.cluster] = Reopened(@, Nobody),
                         !.people[p] = NoPerson])

UndoAssign(n) ==
  /\ Undoable(n, "assign")
  /\ LET op     == log[n]
         p      == op.person
         c      == op.cluster
         protos == Without(db.protos, op.protos)
     IN  /\ Exists(db, c) /\ IsActive(db, p) /\ db.clusters[c].label = p
         /\ op.tracks \subseteq Owned(db, p)
         /\ op.links # {} =>
              /\ Revision(db, p) = op.revision
              /\ db.clusters[c].version = op.version + 1
              /\ Members(db, c) = op.tracks
              /\ op.links \cap db.links = {}
         /\ Undo(n, "undo_assign",
              [db EXCEPT !.owner = [t \in Tracks |-> IF t \in op.tracks THEN op.owners[t]
                                                                       ELSE @[t]],
                         !.links = @ \cup op.links,
                         !.obs = Without(@, op.obs),
                         !.protos = protos,
                         !.index = IF op.protos = {} THEN @ ELSE Rebuilt(@, p, protos),
                         !.clusters[c] = Reopened(@, op.label)])

UndoFalsePositive(n) ==
  /\ Undoable(n, "false_positive")
  /\ LET op == log[n]
     IN  /\ db.clusters[op.cluster].status = "false_positive"
         /\ Undo(n, "undo_false_positive",
              [db EXCEPT !.clusters[op.cluster] = Marked(@, op.status)])

NotMerged(row, op) == [row EXCEPT !.status = op.status, !.into = op.into]

\* The source is refreshed while its members are still stored as the target's.
UndoMergeClusters(n) ==
  /\ Undoable(n, "merge_clusters")
  /\ LET op   == log[n]
         s    == op.source
         t    == op.target
         back == [db.clusters EXCEPT ![s] = NotMerged(@, op)]
         kept == Refreshed(back, s, Members(db, s))
     IN  /\ Exists(db, s) /\ Exists(db, t) /\ db.clusters[s].into = t
         /\ Undo(n, "undo_merge_clusters",
              [db EXCEPT !.home = [u \in Tracks |-> IF u \in op.tracks THEN s
                                                                      ELSE @[u]],
                         !.clusters = Refreshed(kept, t, Members(db, t))])

\* Mutant of Unmerged: it still says into whom.
UnmergedInto(row) == [row EXCEPT !.status = "active"]

Unmerged(row) == [row EXCEPT !.status = "active", !.into = Nobody]

\* Mutant of Again: what a merge deleted stays deleted.
AgainNothing(K, p) == {}

\* deleted_observations of a merge, inserted again
Again(K, p) == {[key |-> k, of |-> p] : k \in K}

\* Both indexes are rebuilt before the prototypes that move back are flushed;
\* nobody asks who has the tracks now.
UndoMergePeople(n) ==
  /\ Undoable(n, "merge_people")
  /\ LET op     == log[n]
         s      == op.source
         t      == op.target
         moved  == {q \in db.protos : q.key \in op.protos}
     IN  /\ db.people[s].into = t
         /\ Undo(n, "undo_merge_people",
              [db EXCEPT !.owner  = [u \in Tracks |-> IF u \in op.tracks THEN s
                                                                        ELSE @[u]],
                         !.obs    = Given(@, op.obs, s) \cup Again(op.twice, s),
                         !.protos = Given(@, op.protos, s),
                         !.people[s] = Unmerged(@),
                         !.index  = IF moved = {} THEN @
                                    ELSE Rebuilt(Rebuilt(@, s, db.protos),
                                                 t, db.protos)])

Pipeline ==
  \/ \E e \in Events : Arrive(e)
  \/ \E t \in Tracks :
       \/ \E p \in People : \E A \in SUBSET ({t} \cap Good) : Recognise(t, p, A)
       \/ \E c \in Clusters : Cluster(t, c)

Requests ==
  \/ \E c \in Clusters :
       \/ \E A \in SUBSET Good : Label(c, A)
       \/ \E p \in People, A \in SUBSET Good : Assign(c, p, A)
       \/ FalsePositive(c)
       \/ \E T \in SUBSET Tracks : Split(c, T)
       \/ \E t \in Clusters : MergeClusters(c, t)
  \/ \E s, t \in People : MergePeople(s, t)

Undoes ==
  \E n \in DOMAIN log :
    \/ UndoLabel(n) \/ UndoAssign(n) \/ UndoFalsePositive(n)
    \/ UndoMergeClusters(n) \/ UndoMergePeople(n)

Next == Pipeline \/ Requests \/ Undoes

Spec == Init /\ [][Next]_vars

-----------------------------------------------------------------------------
\* Every variable has its type, and merged people, no others, say into whom.
TypeOK ==
  /\ pending \subseteq Events /\ todo \subseteq Tracks
  /\ db \in Rows
  /\ \A p \in People : db.people[p].status = "merged" <=> db.people[p].into # Nobody
  /\ \A n \in DOMAIN log : log[n].kind \in Kinds \cup {"undo"}
  /\ undone \subseteq DOMAIN log
  /\ failed \subseteq Kinds
  /\ last = <<>> \/ (Len(last) = 1 /\ last[1] \in Rows)

\* Two tracks of one frame are never in one cluster, whatever was merged,
\* reviewed and undone meanwhile (assign in recognition.py, merge_clusters),
\* unless a merge of clusters was undone, which looks at no links.
ClustersApart ==
  (\A n \in undone : log[n].kind # "merge_clusters") =>
    \A pair \in db.links, c \in Clusters : ~ (pair \subseteq Members(db, c))

\* A merge of people was undone while its target was merged itself: the tracks
\* it gave back to its source are among those of the later merge, too.
Crossed ==
  \E i \in DOMAIN log :
    /\ log[i].kind = "undo" /\ log[log[i].op].kind = "merge_people"
    /\ \E m \in 1 .. (i - 1) :
         /\ log[m].kind = "merge_people" /\ log[m].source = log[log[i].op].target
         /\ \A j \in 1 .. (i - 1) : ~ (log[j].kind = "undo" /\ log[j].op = m)

\* Clusters were merged, which looks at no status: a cluster may have got tracks
\* that have a person already, and be labelled or assigned again.
Mixed == \E n \in DOMAIN log : log[n].kind = "merge_clusters"

\* Two tracks of one frame never belong to one person, unless the owner has
\* deleted the link; also when the links of a correction are put back and
\* owners of long ago are restored (excluded_people, merge_people, undo_operation).
PeopleApart ==
  ~Mixed /\ ~Crossed =>
    \A pair \in db.links, p \in People : ~ (pair \subseteq Owned(db, p))

\* The person of a track is there and was not merged into another, although
\* an undo restores the owner recorded by an operation (track_states).
OwnersAreActive ==
  ~Mixed /\ ~Crossed =>
    \A t \in Tracks : db.owner[t] # Nobody => db.people[db.owner[t]].status = "active"

\* A person is recognised by the faces of their own tracks: prototypes move
\* with tracks through merges and undos in any order (prototype_ids).
SamplesAreOwn ==
  ~Mixed /\ ~Crossed =>
    \A q \in db.protos : db.owner[q.key[2]] = q.of

\* The person of every observation has a track of its event.
Grounded(d) == \A o \in d.obs : \E t \in Owned(d, o.of) : EventOf[t] = o.key[2]

\* Nobody is counted as seen at an event where none of its tracks is theirs
\* (moved_observation_ids, deleted_observations, created_observation_ids).
ObservationsGrounded == ~Mixed /\ ~Crossed => Grounded(db)

\* The index row of a person covers their prototypes, all of them, until people
\* are merged (rebuild_person_index, which reads what is flushed).
IndexCovers ==
  (\A n \in DOMAIN log : log[n].kind # "merge_people") =>
    \A p \in People : db.index[p] = Keys(ProtosOf(db, p))

\* A cluster is called labelled only while it names its person, unless the mark
\* of a false positive, or a merge into another cluster, was undone after the
\* label was (undo_operation).
LabeledHasPerson ==
  \A c \in Clusters : db.clusters[c].status = "labeled" =>
    \/ db.clusters[c].label # Nobody
    \/ \E n \in undone :
         \/ log[n].kind = "false_positive" /\ log[n].cluster = c
         \/ log[n].kind = "merge_clusters" /\ log[n].source = c

\* Until clusters are merged or undos of merges of people cross, no request runs
\* into a constraint of the schema, but for splits and for the undo of a label
\* whose person has got other tracks or names another cluster since: it cannot
\* be deleted.
OnlyUndoLabelFails == ~Mixed /\ ~Crossed => failed \subseteq {"split", "undo_label"}

Same(d, e) ==
  /\ d.owner = e.owner /\ d.home = e.home /\ d.links = e.links
  /\ d.obs = e.obs /\ d.protos = e.protos /\ d.people = e.people
  /\ \A c \in Clusters : [d.clusters[c] EXCEPT !.version = 0]
                       = [e.clusters[c] EXCEPT !.version = 0]

UndoesLatest == todo = {} /\ last # <<>> /\ Now \in undone' \ undone

\* Undoing an operation at once restores every row but versions and index, as long
\* as clusters are not merged and no undos have crossed (undo_operation): then an
\* open cluster may hold tracks that have a person, whom no undo of its label restores.
UndoRestores == [][UndoesLatest /\ ~Mixed /\ ~Crossed => Same(db', last[1])]_vars

-----------------------------------------------------------------------------
(* What the documents say, refuted by the runs that expect a violation.    *)

\* Wrongly gathered samples can be split off (natural-learning.md:47).
SplitWorks == "split" \notin failed

\* The system checks that an undo is still safe after what happened since
\* (static/app.js:697): in no order of merges and undos is an observation left
\* with a person none of whose tracks shows it.
UndoIsSafe == Grounded(db)
=============================================================================
