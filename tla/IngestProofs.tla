---------------------------- MODULE IngestProofs ----------------------------
(***************************************************************************)
(* Proofs about Ingest, for any files, paths, digests, schedule, faults:   *)
(* its type invariant, that an event is recorded once, that a death is     *)
(* announced, that a processed row is final but for one race, and that its *)
(* images stay while paths are not reused and requests do not overlap.     *)
(***************************************************************************)
EXTENDS Ingest, FiniteSetTheorems, TLAPS

\* An event is the digest of its row, and is committed; a processed row has
\* one, a row not discovered yet has none.  No row is ever a duplicate.
Recorded ==
  \A f \in Files :
    /\ row[f].event # NoDigest => row[f].event = row[f].sha /\ row[f].event \in events
    /\ row[f].state = "processed" => row[f].event # NoDigest
    /\ row[f].state = "unseen" => row[f].event = NoDigest
    /\ row[f].state # "duplicate"

\* Committed events keep their row, and no two rows have the same.
Held ==
  /\ \A d \in events : \E f \in Files : row[f].event = d
  /\ EventsUnique(row)

\* A row that is dead, or was and is not asked for again, has its message.
Told ==
  \A f \in Files : row[f].state = "dead" \/ row[f].notified => f \in alerts

\* The row at work is not done, and from the commit of its digest on the
\* worker has that digest in its hands.
AtWork ==
  worker.file # NoFile =>
    /\ row[worker.file].state # "processed"
    /\ worker.pc \in {"dedupe", "start", "analyse", "commit"} =>
         worker.digest \in Digests
    /\ worker.pc = "dedupe" => row[worker.file].sha \in {NoDigest, worker.digest}
    /\ worker.pc \in {"start", "analyse", "commit"} =>
         row[worker.file].sha = worker.digest

\* Who asked for a retry saw a row that waits or is dead.
Asked == \A a \in asked : a.snap.state \in {"retry", "dead"}

IInv == TypeOK /\ Recorded /\ Held /\ Told /\ AtWork /\ Asked

-----------------------------------------------------------------------------
(* Types.                                                                  *)

\* The defaults of a row that is not there have the types of a row.
LEMMA NoRowType == NoRow \in Row
  BY DEF NoRow, Row, State, OptDigest

\* A worker without a row is well formed.
LEMMA IdleType ==
  ASSUME NEW pc \in PC
  PROVE  Idle(pc) \in Worker /\ Idle(pc).pc = pc /\ Idle(pc).file = NoFile
  BY NoRowType DEF Idle, Worker, OptDigest

\* A worker that only goes elsewhere is well formed.
LEMMA GotoType ==
  ASSUME NEW pc \in PC, worker \in Worker, Goto(pc)
  PROVE  /\ worker' \in Worker /\ worker'.pc = pc
         /\ worker'.file = worker.file /\ worker'.digest = worker.digest
  BY DEF Goto, Worker

\* The rows that exist can be counted.
LEMMA StoredCount == Cardinality(Stored) \in Nat
  BY IngestAssumption, FS_Subset, FS_CardinalityType DEF Stored

\* The two writes that do not hold the row turn a row into a row.
LEMMA WritesAreRows ==
  ASSUME NEW r \in Row, NEW s \in Row
  PROVE  Claimed(r, s) \in Row /\ Requested(r, s) \in Row
<1>1. Claimed(r, s) \in Row
  <2> DEFINE st == IF s.state = "processing" THEN r.state ELSE "processing"
             rq == IF s.requested THEN FALSE ELSE r.requested
             at == s.attempts + 1
  <2>1. st \in State /\ at \in Nat
    BY DEF Row, State
  <2>2. s.requested \in BOOLEAN /\ r.requested \in BOOLEAN
    BY DEF Row
  <2>3. rq \in BOOLEAN
    BY <2>2, Zenon
  <2>4. Claimed(r, s) = [r EXCEPT !.state = st, !.lease = "running",
                                  !.requested = rq, !.attempts = at]
    BY DEF Claimed
  <2> HIDE DEF st, rq, at
  <2> QED BY <2>1, <2>3, <2>4 DEF Row
<1>2. Requested(r, s) \in Row
  <2> DEFINE st == IF s.state = "retry" THEN r.state ELSE "retry"
             rq == IF s.requested THEN r.requested ELSE TRUE
             nt == IF s.notified THEN FALSE ELSE r.notified
  <2>1. st \in State
    BY DEF Row, State
  <2>2. /\ s.requested \in BOOLEAN /\ r.requested \in BOOLEAN
        /\ s.notified \in BOOLEAN /\ r.notified \in BOOLEAN
    BY DEF Row
  <2>3. rq \in BOOLEAN /\ nt \in BOOLEAN
    BY <2>2, Zenon
  <2>4. Requested(r, s) = [r EXCEPT !.state = st, !.requested = rq,
                                    !.due = TRUE, !.notified = nt]
    BY DEF Requested
  <2> HIDE DEF st, rq, nt
  <2> QED BY <2>1, <2>3, <2>4 DEF Row
<1> QED BY <1>1, <1>2

-----------------------------------------------------------------------------
(* What the writes keep.                                                   *)

\* A row that keeps its digest and event, and if its state changes is not done,
\* dead or gone, and is not marked as announced.
Milder(r, s) ==
  /\ r.sha = s.sha /\ r.event = s.event
  /\ r.state = s.state \/ r.state \in {"discovered", "processing", "retry"}
  /\ r.notified => s.notified

\* Such rows keep what the rows say of events and messages.
LEMMA MilderKeeps ==
  ASSUME IInv, row' \in [Files -> Row], \A f \in Files : Milder(row'[f], row[f]),
         events' = events, alerts' = alerts
  PROVE  Recorded' /\ Held' /\ Told'
<1>1. Recorded'
  BY DEF IInv, Recorded, Milder
<1>2. Held'
  BY DEF IInv, Held, EventsUnique, Milder
<1>3. Told'
  BY DEF IInv, Told, Milder
<1> QED BY <1>1, <1>2, <1>3

\* And the worker's row, when the worker stays.
LEMMA MilderAtWork ==
  ASSUME IInv, row' \in [Files -> Row], \A f \in Files : Milder(row'[f], row[f]),
         worker' = worker
  PROVE  AtWork'
<1> SUFFICES ASSUME worker.file # NoFile PROVE AtWork'
  BY DEF AtWork
<1>1. worker.file \in Files
  BY DEF IInv, TypeOK, Worker
<1> QED BY <1>1 DEF IInv, AtWork, Milder

\* No row becomes the duplicate of another: its event would be taken.
LEMMA TwinsClash ==
  ASSUME IInv, worker.file \in Files, worker.digest \in Digests, MarkDuplicate
  PROVE  Goto("fail") /\ UNCHANGED row
<1>1. PICK g \in Twins :
        LET new == [row EXCEPT ![worker.file] =
                      [@ EXCEPT !.sha = worker.digest, !.state = "duplicate",
                                !.event = row[g].event, !.lease = "none"]]
        IN  IF EventsUnique(new) THEN row' = new /\ worker' = Idle("scan")
            ELSE Goto("fail") /\ UNCHANGED row
  BY DEF MarkDuplicate
<1> DEFINE new == [row EXCEPT ![worker.file] =
                     [@ EXCEPT !.sha = worker.digest, !.state = "duplicate",
                               !.event = row[g].event, !.lease = "none"]]
<1>2. /\ g \in Files /\ g # worker.file /\ row[g].event # NoDigest
  BY DEF Twins, IInv, Recorded
<1>3. new[g].event = row[g].event /\ new[worker.file].event = row[g].event
  BY <1>2 DEF IInv, TypeOK, Row
<1>4. ~EventsUnique(new)
  BY <1>2, <1>3 DEF EventsUnique
<1> QED BY <1>1, <1>4

-----------------------------------------------------------------------------
(* The steps.                                                              *)

Aside == <<asked, ledger, alerts>>

\* A worker that goes on keeps the invariant where it stands; one that lets
\* go of its row always does.
LEMMA MovesOn ==
  ASSUME IInv, UNCHANGED <<row, disk, stable, Aside, used>>,
         images' \in [Names -> OptDigest], worker' \in Worker,
         worker'.pc \in {"down", "recover", "ended", "scan", "look"} <=> worker'.file = NoFile,
         worker'.file # NoFile => AtWork'
  PROVE  IInv'
<1>1. TypeOK'
  BY DEF IInv, TypeOK, Aside, ledger
<1>2. Recorded' /\ Held' /\ Told' /\ Asked'
  BY DEF IInv, Recorded, Held, EventsUnique, Told, Asked, Aside, ledger
<1>3. AtWork'
  BY DEF AtWork
<1> QED BY <1>1, <1>2, <1>3 DEF IInv

\* A failure never disturbs the invariant: the row only must not be done.
LEMMA GoesToFail ==
  ASSUME IInv, worker.file # NoFile, Goto("fail"),
         UNCHANGED <<row, disk, stable, Aside, used>>, images' \in [Names -> OptDigest]
  PROVE  IInv'
<1>1. /\ worker' \in Worker /\ worker'.pc = "fail"
      /\ worker'.file = worker.file /\ worker'.digest = worker.digest
  BY GotoType DEF IInv, TypeOK, PC
<1>2. AtWork'
  BY <1>1 DEF IInv, AtWork
<1> QED BY <1>1, <1>2, MovesOn

\* A step that writes only milder rows, by someone else than the worker.
LEMMA MilderStep ==
  ASSUME IInv, row' \in [Files -> Row], \A f \in Files : Milder(row'[f], row[f]),
         asked' \subseteq asked, UNCHANGED <<inbox, worker, ledger, images, alerts, used>>
  PROVE  IInv'
<1>1. TypeOK'
  BY DEF IInv, TypeOK, inbox, ledger
<1>2. Recorded' /\ Held' /\ Told'
  BY MilderKeeps DEF ledger
<1>3. AtWork'
  BY MilderAtWork
<1>4. Asked'
  BY DEF IInv, Asked
<1> QED BY <1>1, <1>2, <1>3, <1>4 DEF IInv

\* The initial states: nothing is known, nothing at work.
LEMMA IInvInit == Init => IInv
<1> SUFFICES ASSUME Init PROVE IInv
  OBVIOUS
<1>1. row \in [Files -> Row] /\ \A f \in Files : row[f] = NoRow
  BY NoRowType DEF Init
<1>2. worker \in Worker /\ worker.pc = "recover" /\ worker.file = NoFile
  BY IdleType DEF Init, PC
<1>3. TypeOK
  BY <1>1, <1>2 DEF Init, TypeOK, OptDigest
<1>4. Recorded /\ Held /\ Told
  BY <1>1 DEF Init, Recorded, Held, EventsUnique, Told, NoRow
<1> QED BY <1>2, <1>3, <1>4 DEF Init, IInv, AtWork, Asked

\* The inbox, and the files that come and go there.
LEMMA InboxStep == IInv /\ Inbox => IInv'
<1> SUFFICES ASSUME IInv, Inbox PROVE IInv'
  OBVIOUS
<1>1. CASE \E f \in Files : Put(f)
  <2>1. TypeOK'
    BY <1>1, IngestAssumption DEF IInv, TypeOK, Put, ledger
  <2> QED BY <1>1, <2>1 DEF Put, IInv, Recorded, Held, EventsUnique, Told, AtWork,
             Asked, ledger
<1>2. CASE \E n \in Names : Remove(n) \/ Settle(n)
  <2>1. TypeOK'
    BY <1>2 DEF IInv, TypeOK, Remove, Settle, ledger
  <2> QED BY <1>2, <2>1 DEF Remove, Settle, IInv, Recorded, Held, EventsUnique, Told,
             AtWork, Asked, ledger
<1> QED BY <1>1, <1>2 DEF Inbox

\* Leases expire and backoffs elapse.
LEMMA TimeStep == IInv /\ Time => IInv'
<1> SUFFICES ASSUME IInv, NEW f \in Files, LeaseExpires(f) \/ BackoffElapses(f)
             PROVE  IInv'
  BY DEF Time
<1>1. row \in [Files -> Row]
  BY DEF IInv, TypeOK
<1>2. CASE LeaseExpires(f)
  <2>1. row' \in [Files -> Row] /\ \A g \in Files : Milder(row'[g], row[g])
    BY <1>1, <1>2 DEF LeaseExpires, Milder, Row
  <2> QED BY <1>2, <2>1, MilderStep DEF LeaseExpires, Rest, inbox, ledger
<1>3. CASE BackoffElapses(f)
  <2>1. row' \in [Files -> Row] /\ \A g \in Files : Milder(row'[g], row[g])
    BY <1>1, <1>3 DEF BackoffElapses, Milder, Row
  <2> QED BY <1>3, <2>1, MilderStep DEF BackoffElapses, Rest, inbox, ledger
<1> QED BY <1>2, <1>3

\* The owner's requests: a commit writes nothing worse than a row to retry.
LEMMA OwnerStep == IInv /\ Owner => IInv'
<1> SUFFICES ASSUME IInv, Owner PROVE IInv'
  OBVIOUS
<1>1. ASSUME NEW f \in Files, RetryReads(f) PROVE IInv'
  <2>1. [file |-> f, snap |-> row[f], nr |-> used.requests] \in Request
    BY DEF IInv, TypeOK, Request
  <2>2. TypeOK'
    BY <1>1, <2>1 DEF IInv, TypeOK, RetryReads, inbox, ledger
  <2>3. Asked'
    BY <1>1 DEF IInv, Asked, RetryReads
  <2> QED BY <1>1, <2>2, <2>3 DEF RetryReads, IInv, Recorded, Held, EventsUnique,
             Told, AtWork, inbox, ledger
<1>2. ASSUME NEW a \in asked, RetryCommits(a) PROVE IInv'
  <2>1. a.file \in Files /\ a.snap \in Row
    BY DEF IInv, TypeOK, Request
  <2>2. row' \in [Files -> Row]
    BY <1>2, <2>1, WritesAreRows DEF IInv, TypeOK, RetryCommits
  <2>3. \A f \in Files : Milder(row'[f], row[f])
    BY <1>2, <2>1 DEF IInv, TypeOK, RetryCommits, Requested, Milder, Row
  <2> QED BY <1>2, <2>2, <2>3, MilderStep DEF RetryCommits
<1> QED BY <1>1, <1>2 DEF Owner

\* Crashes, restarts, and errors of the database.
LEMMA CrashStep == IInv /\ (Crash \/ Errors \/ Restart) => IInv'
<1> SUFFICES ASSUME IInv, Crash \/ Errors \/ Restart PROVE IInv'
  OBVIOUS
<1>1. /\ used' \in [crashes : Nat, requests : Nat, puts : Nat] /\ asked' \subseteq asked
      /\ UNCHANGED <<inbox, row, ledger, images, alerts>>
  BY DEF IInv, TypeOK, Crash, Errors, RecoverFails, ProcessFails, LoopFails, DatabaseError,
         Restart, Rest
<1>2. /\ worker' \in Worker /\ AtWork'
      /\ worker'.pc \in {"down", "recover", "ended", "scan", "look"} <=> worker'.file = NoFile
  <2>1. CASE ProcessFails
    <3>1. worker.pc \in {"hash", "dedupe", "start"} /\ Goto("fail")
      BY <2>1 DEF ProcessFails
    <3>2. worker' \in Worker /\ worker'.pc = "fail" /\ worker'.file = worker.file
      BY <3>1, GotoType DEF IInv, TypeOK, PC
    <3>3. worker.file # NoFile /\ row[worker.file].state # "processed"
      BY <3>1 DEF IInv, TypeOK, AtWork
    <3> QED BY <1>1, <3>2, <3>3 DEF AtWork
  <2>2. CASE Crash \/ RecoverFails \/ LoopFails \/ Restart
    <3>1. \E pc \in {"down", "ended", "scan", "recover"} : worker' = Idle(pc)
      BY <2>2 DEF Crash, RecoverFails, LoopFails, Restart
    <3>2. /\ worker' \in Worker /\ worker'.file = NoFile
          /\ worker'.pc \in {"down", "ended", "scan", "recover"}
      BY <3>1, IdleType DEF PC
    <3> QED BY <3>2 DEF AtWork
  <2> QED BY <2>1, <2>2 DEF Errors
<1>3. TypeOK'
  BY <1>1, <1>2 DEF IInv, TypeOK, inbox, ledger
<1> QED BY <1>1, <1>2, <1>3 DEF IInv, Recorded, Held, EventsUnique, Told, Asked, ledger

-----------------------------------------------------------------------------
(* The worker.                                                             *)

\* Rows are recovered, discovered and claimed.
LEMMA LoopStep ==
  IInv /\ (RecoverStale \/ Discover \/ ClaimReads \/ ClaimCommits) => IInv'
<1> SUFFICES ASSUME IInv, RecoverStale \/ Discover \/ ClaimReads \/ ClaimCommits
             PROVE  IInv'
  OBVIOUS
<1>1. CASE RecoverStale
  <2>1. ASSUME NEW r \in Row
        PROVE  [r EXCEPT !.state = "retry", !.due = TRUE, !.lease = "none"] \in Row
    BY DEF Row, State
  <2>2. row' \in [Files -> Row]
    BY <1>1, <2>1 DEF IInv, TypeOK, RecoverStale
  <2>3. \A f \in Files : Milder(row'[f], row[f])
    BY <1>1 DEF IInv, TypeOK, RecoverStale, Row, Milder
  <2>4. worker' \in Worker /\ worker'.pc = "scan" /\ worker'.file = NoFile
    BY <1>1, GotoType DEF IInv, TypeOK, RecoverStale, PC
  <2>5. TypeOK' /\ AtWork' /\ Asked'
    BY <1>1, <2>2, <2>4 DEF IInv, TypeOK, AtWork, Asked, RecoverStale, Rest, inbox, ledger
  <2> QED BY <1>1, <2>2, <2>3, <2>5, MilderKeeps DEF IInv, RecoverStale, Rest, ledger
<1>2. CASE Discover
  <2> DEFINE found == {f \in Files : f \notin Stored /\ disk[NameOf[f]] = f
                                      /\ NameOf[f] \in stable}
             fresh == [NoRow EXCEPT !.state = "discovered", !.due = TRUE,
                                    !.born = Cardinality(Stored)]
  <2>1. fresh \in Row
    <3> HIDE DEF NoRow
    <3> QED BY NoRowType, StoredCount DEF Row, State
  <2>2. row' = [f \in Files |-> IF f \in found THEN fresh ELSE row[f]]
    BY <1>2 DEF Discover
  <2>3. \A f \in found : row[f].state = "unseen"
    BY DEF Stored
  <2>4. /\ fresh.event = NoDigest /\ fresh.state = "discovered" /\ fresh.notified = FALSE
    BY DEF NoRow
  <2> HIDE DEF fresh, found
  <2>5. row' \in [Files -> Row]
    BY <2>1, <2>2 DEF IInv, TypeOK
  <2>6. \A f \in Files : row'[f].event = row[f].event
    BY <2>2, <2>3, <2>4 DEF IInv, Recorded
  <2>7. Recorded' /\ Told'
    BY <1>2, <2>2, <2>3, <2>4 DEF IInv, Recorded, Told, Discover, Rest, ledger
  <2>8. Held'
    BY <1>2, <2>6 DEF IInv, Held, EventsUnique, Discover, Rest, ledger
  <2>9. worker' \in Worker /\ worker'.pc = "look" /\ worker'.file = NoFile
    BY <1>2, GotoType DEF IInv, TypeOK, Discover, PC
  <2>10. TypeOK' /\ AtWork' /\ Asked'
    BY <1>2, <2>5, <2>9 DEF IInv, TypeOK, AtWork, Asked, Discover, Rest, inbox, ledger
  <2> QED BY <2>7, <2>8, <2>10 DEF IInv
<1>3. CASE ClaimReads
  <2>1. CASE worker' = Idle("scan")
    BY <1>3, <2>1, IdleType, MovesOn
       DEF ClaimReads, Rest, inbox, ledger, Aside, PC, IInv, TypeOK
  <2>2. ASSUME NEW f \in Files, Claimable(f),
               worker' = [Idle("claim") EXCEPT !.file = f, !.snap = row[f]]
        PROVE  IInv'
    <3>1. worker' \in Worker /\ worker'.pc = "claim" /\ worker'.file = f
      BY <2>2, IdleType DEF Worker, PC, IInv, TypeOK
    <3>2. row[f].state # "processed" /\ f # NoFile
      BY <2>2, IngestAssumption DEF Claimable
    <3>3. AtWork'
      BY <1>3, <3>1, <3>2 DEF AtWork, ClaimReads
    <3> QED BY <1>3, <3>1, <3>2, <3>3, MovesOn
            DEF ClaimReads, Rest, inbox, ledger, Aside, IInv, TypeOK
  <2> QED BY <1>3, <2>1, <2>2 DEF ClaimReads
<1>4. CASE ClaimCommits
  <2> DEFINE w == worker.file
  <2>1. w \in Files /\ w # NoFile /\ worker.snap \in Row
    BY <1>4 DEF IInv, TypeOK, Worker, ClaimCommits
  <2>2. row' \in [Files -> Row]
    BY <1>4, <2>1, WritesAreRows DEF IInv, TypeOK, ClaimCommits
  <2>3. \A f \in Files : Milder(row'[f], row[f])
    BY <1>4, <2>1 DEF IInv, TypeOK, ClaimCommits, Claimed, Milder, Row
  <2>4. worker' \in Worker /\ worker'.pc = "hash" /\ worker'.file = w
    BY <1>4, NoRowType DEF IInv, TypeOK, ClaimCommits, Worker, PC
  <2>5. row[w].state # "processed"
    BY <2>1 DEF IInv, AtWork
  <2>6. AtWork'
    BY <2>1, <2>3, <2>4, <2>5 DEF AtWork, Milder
  <2>7. TypeOK' /\ Asked'
    BY <1>4, <2>1, <2>2, <2>4 DEF IInv, TypeOK, Asked, ClaimCommits, Rest, inbox, ledger
  <2> QED BY <1>4, <2>2, <2>3, <2>6, <2>7, MilderKeeps DEF IInv, ClaimCommits, Rest, ledger
<1> QED BY <1>1, <1>2, <1>3, <1>4

\* The row is hashed and compared with the others, and the analysis begins.
LEMMA HashStep == IInv /\ (Hash \/ Dedupe \/ Start \/ Analyse) => IInv'
<1> SUFFICES ASSUME IInv, Hash \/ Dedupe \/ Start \/ Analyse PROVE IInv'
  OBVIOUS
<1> DEFINE w == worker.file
<1>1. w \in Files /\ w # NoFile
  BY DEF IInv, TypeOK, Worker, Hash, Dedupe, Start, Analyse
<1>2. images \in [Names -> OptDigest]
  BY DEF IInv, TypeOK
<1>3. CASE Hash
  <2>1. CASE Goto("fail")
    BY <1>1, <1>2, <1>3, <2>1, GoesToFail DEF Hash, Rest, inbox, ledger, Aside
  <2>2. CASE Source # NoFile
    <3> DEFINE d == IF row[w].sha # NoDigest THEN row[w].sha ELSE DigestOf[Source]
    <3>1. d \in Digests /\ row[w].sha \in {NoDigest, d}
      BY <1>1, <2>2, IngestAssumption DEF IInv, TypeOK, Source, Row, OptDigest
    <3>2. worker' = [worker EXCEPT !.pc = "dedupe", !.digest = d]
      BY <1>3, <2>2 DEF Hash
    <3> HIDE DEF d
    <3>3. /\ worker' \in Worker /\ worker'.pc = "dedupe"
          /\ worker'.file = w /\ worker'.digest = d
      BY <3>1, <3>2 DEF IInv, TypeOK, Worker, PC, OptDigest
    <3>4. AtWork'
      BY <1>1, <1>3, <3>1, <3>3 DEF IInv, AtWork, Hash
    <3> QED BY <1>1, <1>2, <1>3, <3>3, <3>4, MovesOn DEF Hash, Rest, inbox, ledger, Aside
  <2> QED BY <1>3, <2>1, <2>2 DEF Hash
<1>4. CASE Dedupe
  <2>1. worker.digest \in Digests /\ row[w].sha \in {NoDigest, worker.digest}
    BY <1>1, <1>4 DEF IInv, AtWork, Dedupe
  <2>2. CASE MarkDuplicate
    BY <1>1, <1>2, <1>4, <2>1, <2>2, TwinsClash, GoesToFail
       DEF Dedupe, Rest, inbox, ledger, Aside
  <2>3. CASE row' = [row EXCEPT ![w].sha = worker.digest] /\ Goto("start")
    <3>1. /\ worker' \in Worker /\ worker'.pc = "start"
          /\ worker'.file = w /\ worker'.digest = worker.digest
      BY <2>3, GotoType DEF IInv, TypeOK, PC
    <3>2. row' \in [Files -> Row]
      BY <1>1, <2>1, <2>3 DEF IInv, TypeOK, Row, OptDigest
    <3>3. /\ \A f \in Files : /\ row'[f].event = row[f].event
                              /\ row'[f].state = row[f].state
                              /\ row'[f].notified = row[f].notified
                              /\ row[f].sha # NoDigest => row'[f].sha = row[f].sha
          /\ row'[w].sha = worker.digest
      BY <1>1, <2>1, <2>3 DEF IInv, TypeOK, Row
    <3>4. Recorded' /\ Told'
      BY <1>4, <3>3, IngestAssumption
         DEF IInv, TypeOK, Recorded, Told, Dedupe, Rest, ledger
    <3>5. Held'
      BY <1>4, <3>3 DEF IInv, Held, EventsUnique, Dedupe, Rest, ledger
    <3>6. AtWork'
      BY <1>1, <2>1, <3>1, <3>3 DEF IInv, AtWork
    <3>7. TypeOK' /\ Asked'
      BY <1>1, <1>4, <3>1, <3>2 DEF IInv, TypeOK, Asked, Dedupe, Rest, inbox, ledger
    <3> QED BY <3>4, <3>5, <3>6, <3>7 DEF IInv
  <2> QED BY <1>4, <2>2, <2>3 DEF Dedupe
<1>5. CASE Start
  <2>1. CASE Goto("fail")
    BY <1>1, <1>2, <1>5, <2>1, GoesToFail DEF Start, Rest, inbox, ledger, Aside
  <2>2. CASE Goto("analyse")
    <3>1. /\ worker' \in Worker /\ worker'.pc = "analyse"
          /\ worker'.file = w /\ worker'.digest = worker.digest
      BY <2>2, GotoType DEF IInv, TypeOK, PC
    <3>2. AtWork'
      BY <1>1, <1>5, <3>1 DEF IInv, AtWork, Start
    <3> QED BY <1>1, <1>2, <1>5, <3>1, <3>2, MovesOn DEF Start, Rest, inbox, ledger, Aside
  <2> QED BY <1>5, <2>1, <2>2 DEF Start
<1>6. CASE Analyse
  <2>1. CASE Goto("fail") /\ UNCHANGED images
    BY <1>1, <1>2, <1>6, <2>1, GoesToFail DEF Analyse, inbox, ledger, Aside
  <2>2. ASSUME NEW drew \in BOOLEAN,
               worker' = [worker EXCEPT !.pc = "commit", !.drew = drew],
               images' = IF drew THEN [images EXCEPT ![NameOf[w]] = worker.digest]
                         ELSE images
        PROVE  IInv'
    <3>1. /\ worker' \in Worker /\ worker'.pc = "commit"
          /\ worker'.file = w /\ worker'.digest = worker.digest
      BY <2>2 DEF IInv, TypeOK, Worker, PC
    <3>2. images' \in [Names -> OptDigest]
      BY <1>2, <2>2 DEF IInv, TypeOK, Worker
    <3>3. AtWork'
      BY <1>1, <1>6, <3>1 DEF IInv, AtWork, Analyse
    <3> QED BY <1>1, <1>6, <3>1, <3>2, <3>3, MovesOn DEF Analyse, inbox, ledger, Aside
  <2> QED BY <1>6, <2>1, <2>2 DEF Analyse
<1> QED BY <1>3, <1>4, <1>5, <1>6

\* The event is committed: its row had none before, and no other row has it.
LEMMA CommitStep == IInv /\ Commit => IInv'
<1> SUFFICES ASSUME IInv, Commit PROVE IInv'
  OBVIOUS
<1> DEFINE w == worker.file
           d == worker.digest
<1>1. /\ w \in Files /\ w # NoFile /\ d \in Digests /\ row[w].sha = d
      /\ d \notin events /\ row[w].event = NoDigest
  BY DEF IInv, TypeOK, Worker, AtWork, Recorded, Commit, CanCommit
<1>2. row' \in [Files -> Row]
  <2> DEFINE r == [row[w] EXCEPT !.sha = d, !.event = d, !.state = "processed",
                                 !.lease = "none", !.notified = FALSE,
                                 !.requested = FALSE]
  <2>1. row' = [row EXCEPT ![w] = r]
    BY <1>1 DEF Commit
  <2>2. row[w] \in Row /\ d \in OptDigest /\ "processed" \in State
    BY <1>1 DEF IInv, TypeOK, State, OptDigest
  <2>3. r \in Row
    BY <2>2 DEF Row
  <2> HIDE DEF r
  <2> QED BY <1>1, <2>1, <2>3 DEF IInv, TypeOK
<1>3. /\ row'[w].event = d /\ row'[w].sha = d /\ row'[w].state = "processed"
      /\ row'[w].notified = FALSE
      /\ \A f \in Files \ {w} : row'[f] = row[f]
  BY <1>1 DEF IInv, TypeOK, Commit, Row
<1>4. d # NoDigest /\ events' = events \cup {d} /\ alerts' = alerts /\ asked' = asked
  BY <1>1, IngestAssumption DEF Commit
<1>5. Recorded' /\ Told'
  BY <1>3, <1>4 DEF IInv, Recorded, Told
<1>6. Held'
  <2>1. \A f \in Files \ {w} : row[f].event # d
    BY <1>1, <1>4 DEF IInv, Recorded
  <2>2. \A e \in events' : \E f \in Files : row'[f].event = e
    <3> SUFFICES ASSUME NEW e \in events PROVE \E f \in Files : row'[f].event = e
      BY <1>1, <1>3, <1>4
    <3>1. PICK f \in Files : row[f].event = e
      BY DEF IInv, Held
    <3>2. f # w /\ row'[f].event = e
      BY <1>1, <1>3, <3>1, IngestAssumption DEF IInv, TypeOK
    <3> QED BY <3>2
  <2>3. EventsUnique(row)'
    BY <1>1, <1>3, <1>4, <2>1 DEF IInv, Held, EventsUnique
  <2> QED BY <2>2, <2>3 DEF Held
<1>7. worker' \in Worker /\ worker'.pc = "scan" /\ worker'.file = NoFile
  BY IdleType DEF Commit, PC
<1>8. /\ sources' \in [Names -> OptDigest] /\ events' \subseteq Digests
      /\ pictured' \subseteq events'
  BY <1>1, <1>4 DEF IInv, TypeOK, Commit, OptDigest
<1>9. TypeOK' /\ AtWork' /\ Asked'
  BY <1>2, <1>4, <1>7, <1>8 DEF IInv, TypeOK, AtWork, Asked, Commit, inbox
<1> QED BY <1>5, <1>6, <1>9 DEF IInv

\* The commit fails: the images are removed, and the row waits for fail.
LEMMA CommitFailsStep == IInv /\ CommitFails => IInv'
<1> SUFFICES ASSUME IInv, CommitFails PROVE IInv'
  OBVIOUS
<1>1. worker.file \in Files /\ worker.file # NoFile /\ worker.digest \in Digests
  BY DEF IInv, TypeOK, Worker, AtWork, CommitFails
<1>2. Goto("fail") /\ UNCHANGED row
  BY <1>1, TwinsClash DEF CommitFails
<1>3. images' \in [Names -> OptDigest]
  BY DEF IInv, TypeOK, CommitFails, Unlink, OptDigest
<1> QED BY <1>1, <1>2, <1>3, GoesToFail DEF CommitFails, inbox, ledger, Aside

\* fail: a row that dies unannounced gets its message with its state.
LEMMA FailStep == IInv /\ Fail => IInv'
<1> SUFFICES ASSUME IInv, Fail PROVE IInv'
  OBVIOUS
<1> DEFINE w == worker.file
           again == row[w].attempts <= Schedule
<1>1. w \in Files /\ w # NoFile /\ row[w].state # "processed" /\ row[w] \in Row
  BY DEF IInv, TypeOK, Worker, AtWork, Fail
<1>2. /\ row' = [row EXCEPT ![w].lease = "none",
                            ![w].state = IF again THEN "retry" ELSE "dead",
                            ![w].due = IF again THEN FALSE ELSE @,
                            ![w].notified = IF again THEN @ ELSE TRUE]
      /\ alerts' = IF Announces(w, again) THEN alerts \cup {w} ELSE alerts
  BY DEF Fail
<1>3. again \in BOOLEAN
  BY IngestAssumption, <1>1 DEF Row
<1> HIDE DEF again
<1>4. row' \in [Files -> Row]
  <2> DEFINE du == IF again THEN FALSE ELSE row[w].due
             nt == IF again THEN row[w].notified ELSE TRUE
             st == IF again THEN "retry" ELSE "dead"
  <2>1. row[w].due \in BOOLEAN /\ row[w].notified \in BOOLEAN
    BY <1>1 DEF Row
  <2>2. du \in BOOLEAN /\ nt \in BOOLEAN
    BY <1>3, <2>1, Zenon
  <2>3. st \in State
    BY <1>3 DEF State
  <2>4. row' = [row EXCEPT ![w] = [row[w] EXCEPT !.lease = "none", !.state = st,
                                                  !.due = du, !.notified = nt]]
    BY <1>1, <1>2 DEF IInv, TypeOK
  <2> HIDE DEF du, nt, st
  <2>5. [row[w] EXCEPT !.lease = "none", !.state = st, !.due = du, !.notified = nt] \in Row
    BY <1>1, <2>2, <2>3 DEF Row
  <2> QED BY <1>1, <2>4, <2>5 DEF IInv, TypeOK
<1>5. /\ \A f \in Files \ {w} : row'[f] = row[f]
      /\ row'[w].event = row[w].event /\ row'[w].sha = row[w].sha
      /\ row'[w].state \in {"retry", "dead"}
      /\ again => row'[w].state = "retry" /\ row'[w].notified = row[w].notified
  BY <1>1, <1>2 DEF IInv, TypeOK, Row
<1>6. events' = events
  BY DEF Fail, ledger
<1>7. Recorded'
  BY <1>1, <1>5, <1>6 DEF IInv, Recorded
<1>8. Held'
  BY <1>1, <1>5, <1>6 DEF IInv, Held, EventsUnique
<1>9. alerts' \subseteq Files /\ alerts \subseteq alerts' /\ (again \/ w \in alerts')
  BY <1>1, <1>2 DEF IInv, TypeOK, Told, Announces
<1>10. Told'
  BY <1>1, <1>5, <1>9 DEF IInv, Told
<1>11. worker' \in Worker /\ worker'.pc = "scan" /\ worker'.file = NoFile
  BY IdleType DEF Fail, PC
<1>12. TypeOK' /\ AtWork' /\ Asked'
  BY <1>4, <1>9, <1>11 DEF IInv, TypeOK, AtWork, Asked, Fail, inbox, ledger
<1> QED BY <1>7, <1>8, <1>10, <1>12 DEF IInv

\* Every step keeps the invariant.
LEMMA IInvStep == IInv /\ [Next]_vars => IInv'
<1> SUFFICES ASSUME IInv, [Next]_vars PROVE IInv'
  OBVIOUS
<1>1. CASE UNCHANGED vars
  BY <1>1 DEF vars, inbox, ledger, IInv, TypeOK, Recorded, Held, EventsUnique, Told,
     AtWork, Asked
<1>2. CASE WorkerStep
  BY <1>2, LoopStep, HashStep, CommitStep, CommitFailsStep, FailStep DEF WorkerStep
<1> QED BY <1>1, <1>2, InboxStep, OwnerStep, TimeStep, CrashStep DEF Next

\* The invariant holds in every behaviour.
LEMMA Inductive == Spec => []IInv
  BY IInvInit, IInvStep, PTL DEF Spec

-----------------------------------------------------------------------------
(* What follows.                                                           *)

\* Every reachable state is well typed.
THEOREM TypeCorrect == Spec => []TypeOK
<1>1. IInv => TypeOK
  BY DEF IInv
<1> QED BY <1>1, Inductive, PTL

\* However often a file is discovered, claimed, retried and recovered: an event
\* has exactly one row, which carries its digest, and a processed row has one.
THEOREM EventsOnce == Spec => []OneRowPerEvent
<1>1. IInv => OneRowPerEvent
  BY DEF IInv, Recorded, Held, OneRowPerEvent
<1> QED BY <1>1, Inductive, PTL

\* No row is dead without its message, whatever the owner's requests wrote over
\* what fail had written.
THEOREM DeathsAnnounced == Spec => []DeadIsAnnounced
<1>1. IInv => DeadIsAnnounced
  BY DEF IInv, Told, DeadIsAnnounced
<1> QED BY <1>1, Inductive, PTL

\* Only a request that read the row while it was dead reopens a processed row:
\* no crash, lease or second claim does.
THEOREM DoneStaysDone == Spec => ProcessedIsFinal
<1> DEFINE Reopened(f) == row[f].state = "processed" /\ row'[f].state # "processed"
           Late(f) == \E a \in asked \ asked' : a.file = f /\ a.snap.state = "dead"
<1>1. IInv /\ Next => \A f \in Files : Reopened(f) => Late(f)
  <2> SUFFICES ASSUME IInv, Next, NEW f \in Files, Reopened(f) PROVE Late(f)
    OBVIOUS
  <2>1. row \in [Files -> Row] /\ f # worker.file
    BY IngestAssumption DEF IInv, TypeOK, AtWork
  <2>2. CASE Owner
    <3>1. PICK a \in asked : RetryCommits(a)
      BY <2>2 DEF Owner, RetryReads
    <3> QED BY <2>1, <3>1 DEF RetryCommits, Requested, IInv, Asked
  <2>3. CASE RecoverStale \/ Discover
    BY <2>1, <2>3 DEF RecoverStale, Discover, Stored
  <2>4. CASE Dedupe \/ CommitFails
    <3>1. ~MarkDuplicate \/ UNCHANGED row
      BY <2>4, TwinsClash DEF IInv, TypeOK, Worker, AtWork, Dedupe, CommitFails
    <3> QED BY <2>1, <2>4, <3>1 DEF Dedupe, CommitFails
  <2>5. CASE ClaimReads \/ ClaimCommits \/ Hash \/ Start \/ Analyse \/ Commit \/ Fail
    BY <2>1, <2>5 DEF ClaimReads, ClaimCommits, Hash, Start, Analyse, Commit, Fail, Rest
  <2>6. CASE Time
    BY <2>1, <2>6 DEF Time, LeaseExpires, BackoffElapses, Row
  <2>7. CASE Inbox \/ Crash \/ Errors \/ Restart
    BY <2>7 DEF Inbox, Put, Remove, Settle, Crash, Errors, RecoverFails, ProcessFails,
                LoopFails, DatabaseError, Restart, Rest
  <2> QED BY <2>2, <2>3, <2>4, <2>5, <2>6, <2>7 DEF Next, WorkerStep
<1>2. IInv /\ [Next]_vars => [\A f \in Files : Reopened(f) => Late(f)]_vars
  BY <1>1
<1> QED BY <1>2, Inductive, PTL DEF Spec, ProcessedIsFinal

-----------------------------------------------------------------------------
(* Images.                                                                 *)

\* No two files share a path.
OwnPaths == \A f, g \in Files : NameOf[f] = NameOf[g] => f = g

\* No two requests for one row are open.
NoOverlap == \A a, b \in asked : a.file = b.file => a = b

\* A row that has its event is done.
Finished == \A f \in Files : row[f].event # NoDigest => row[f].state = "processed"

\* A row that was dead when a request read it still is.
StillDead == \A a \in asked : a.snap.state = "dead" => row[a.file].state = "dead"

\* The worker's row waits or is at work, and its images show what it is to commit.
AtHand ==
  worker.file # NoFile =>
    /\ row[worker.file].state \in {"discovered", "retry", "processing"}
    /\ worker.pc = "commit" /\ worker.drew => images[NameOf[worker.file]] = worker.digest

ImagesInv == Finished /\ StillDead /\ AtHand /\ ImagesKept

\* A row that kept its event and its state.
Unchanged(f) == row'[f].event = row[f].event /\ row'[f].state = row[f].state

\* A step that changes no event, nor the state of a row but from waiting to waiting,
\* and no image.
LEMMA ImagesAside ==
  ASSUME IInv, ImagesInv, row' \in [Files -> Row], asked' \subseteq asked,
         pictured' = pictured, images' = images, worker' = worker \/ AtHand',
         \A f \in Files :
           \/ Unchanged(f)
           \/ /\ row'[f].event = row[f].event
              /\ row[f].state \in {"unseen", "discovered", "processing", "retry"}
              /\ row'[f].state \in {"discovered", "processing", "retry"}
  PROVE  ImagesInv'
<1>1. asked \subseteq Request
  BY DEF IInv, TypeOK
<1>2. Finished'
  BY DEF ImagesInv, Finished, Unchanged
<1>3. StillDead'
  BY <1>1 DEF ImagesInv, StillDead, Unchanged, Request
<1>4. AtHand'
  <2>1. CASE worker' = worker
    <3>1. worker.file # NoFile => worker.file \in Files
      BY DEF IInv, TypeOK, Worker
    <3> QED BY <2>1, <3>1 DEF ImagesInv, AtHand, Unchanged
  <2> QED BY <2>1
<1>5. ImagesKept'
  BY DEF ImagesInv, ImagesKept, Unchanged
<1> QED BY <1>2, <1>3, <1>4, <1>5 DEF ImagesInv

\* Nothing is there in the beginning.
LEMMA ImagesInit == Init => ImagesInv
  BY DEF Init, ImagesInv, Finished, StillDead, AtHand, ImagesKept, NoRow, Idle

\* The inbox, time and crashes.
LEMMA ImagesFaults ==
  ASSUME IInv, ImagesInv, Inbox \/ Time \/ Crash \/ Errors \/ Restart
  PROVE  ImagesInv'
<1>1. row \in [Files -> Row]
  BY DEF IInv, TypeOK
<1>2. CASE Inbox
  <2>1. /\ row' = row /\ asked' = asked /\ pictured' = pictured /\ images' = images
        /\ worker' = worker
    <3>1. ASSUME NEW f \in Files, Put(f)
          PROVE  UNCHANGED <<row, worker, asked, pictured, images>>
      BY <3>1 DEF Put, ledger
    <3>2. ASSUME NEW n \in Names, Remove(n) \/ Settle(n)
          PROVE  UNCHANGED <<row, worker, asked, pictured, images>>
      BY <3>2 DEF Remove, Settle, ledger
    <3>3. (\E f \in Files : Put(f)) \/ (\E n \in Names : Remove(n) \/ Settle(n))
      BY <1>2 DEF Inbox
    <3>4. UNCHANGED <<row, worker, asked, pictured, images>>
      BY <3>1, <3>2, <3>3
    <3> QED BY <3>4
  <2> QED BY <1>1, <2>1, ImagesAside DEF Unchanged
<1>3. CASE Time
  <2>1. PICK g \in Files : LeaseExpires(g) \/ BackoffElapses(g)
    BY <1>3 DEF Time
  <2>2. row' \in [Files -> Row] /\ \A f \in Files : Unchanged(f)
    <3>1. [row[g] EXCEPT !.lease = "expired"] \in Row /\ [row[g] EXCEPT !.due = TRUE] \in Row
      BY <1>1 DEF Row
    <3>2. \/ row' = [row EXCEPT ![g] = [row[g] EXCEPT !.lease = "expired"]]
          \/ row' = [row EXCEPT ![g] = [row[g] EXCEPT !.due = TRUE]]
      BY <2>1 DEF LeaseExpires, BackoffElapses
    <3>3. row' \in [Files -> Row] /\ \A f \in Files \ {g} : row'[f] = row[f]
      BY <1>1, <3>1, <3>2
    <3>4. row'[g].event = row[g].event /\ row'[g].state = row[g].state
      BY <1>1, <3>2 DEF Row
    <3> QED BY <3>3, <3>4 DEF Unchanged
  <2>3. asked' = asked /\ pictured' = pictured /\ images' = images /\ worker' = worker
    BY <2>1 DEF LeaseExpires, BackoffElapses, Rest, ledger
  <2> QED BY <2>2, <2>3, ImagesAside
<1>4. CASE Crash \/ Errors \/ Restart
  <2>1. /\ row' = row /\ pictured' = pictured /\ images' = images /\ asked' \subseteq asked
    BY <1>4 DEF Crash, Errors, RecoverFails, ProcessFails, LoopFails, DatabaseError, Restart,
                Rest, ledger
  <2>2. CASE ProcessFails
    <3>1. worker'.pc = "fail" /\ worker'.file = worker.file
      BY <2>2, GotoType DEF ProcessFails, IInv, TypeOK, PC
    <3> QED BY <1>1, <2>1, <3>1, ImagesAside DEF Unchanged, AtHand, ImagesInv
  <2>3. CASE Crash \/ RecoverFails \/ LoopFails \/ Restart
    <3>1. worker'.file = NoFile
      BY <2>3, IdleType DEF Crash, RecoverFails, LoopFails, Restart, PC
    <3> QED BY <1>1, <2>1, <3>1, ImagesAside DEF Unchanged, AtHand
  <2> QED BY <1>4, <2>2, <2>3 DEF Errors
<1> QED BY <1>2, <1>3, <1>4

\* The owner's requests: a late one finds its row as it read it.
LEMMA ImagesOwner ==
  ASSUME IInv, IInv', ImagesInv, NoOverlap, Owner
  PROVE  ImagesInv'
<1>1. CASE \E f \in Files : RetryReads(f)
  <2>1. PICK f \in Files : RetryReads(f)
    BY <1>1
  <2>2. asked' = asked \cup {[file |-> f, snap |-> row[f], nr |-> used.requests]}
        /\ UNCHANGED <<row, worker, ledger, images>>
    BY <2>1 DEF RetryReads
  <2>3. StillDead'
    BY <2>2 DEF ImagesInv, StillDead
  <2> QED BY <2>2, <2>3 DEF ImagesInv, Finished, AtHand, ImagesKept, ledger
<1>2. CASE \E a \in asked : RetryCommits(a)
  <2>1. PICK a \in asked : RetryCommits(a)
    BY <1>2
  <2>2. /\ row' = [row EXCEPT ![a.file] = Requested(@, a.snap)] /\ asked' = asked \ {a}
        /\ pictured' = pictured /\ images' = images /\ worker' = worker
    BY <2>1 DEF RetryCommits, ledger
  <2>3. /\ row \in [Files -> Row] /\ row' \in [Files -> Row]
        /\ a.file \in Files /\ a.snap.state \in {"retry", "dead"}
    BY DEF IInv, TypeOK, Asked, Request
  <2>4. row'[a.file].event = row[a.file].event
    BY <2>2, <2>3 DEF Requested, Row
  <2>5. row'[a.file].state = IF a.snap.state = "retry" THEN row[a.file].state ELSE "retry"
    BY <2>2, <2>3 DEF Requested, Row
  <2>6. \A f \in Files : f # a.file => row'[f] = row[f]
    BY <2>2, <2>3
  <2>7. CASE a.snap.state = "retry"
    BY <2>2, <2>3, <2>4, <2>5, <2>6, <2>7, ImagesAside DEF Unchanged
  <2>8. CASE a.snap.state = "dead"
    <3>1. row[a.file].state = "dead" /\ row'[a.file].state = "retry"
      BY <2>5, <2>8 DEF ImagesInv, StillDead
    <3>2. row[a.file].event = NoDigest
      BY <2>3, <3>1 DEF ImagesInv, Finished
    <3>3. Finished'
      BY <2>4, <2>6, <3>2 DEF ImagesInv, Finished
    <3>4. StillDead'
      <4>1. \A b \in asked' : b \in asked /\ b.file \in Files /\ b.file # a.file
        BY <2>2 DEF NoOverlap, IInv, TypeOK, Request
      <4> QED BY <2>6, <4>1 DEF ImagesInv, StillDead
    <3>5. AtHand'
      <4>1. worker.file # NoFile => worker.file \in Files /\ worker.file # a.file
        BY <3>1 DEF ImagesInv, AtHand, IInv, TypeOK, Worker
      <4> QED BY <2>2, <2>6, <4>1 DEF ImagesInv, AtHand
    <3>6. ImagesKept'
      BY <2>2, <2>4, <2>6 DEF ImagesInv, ImagesKept
    <3> QED BY <3>3, <3>4, <3>5, <3>6 DEF ImagesInv
  <2> QED BY <2>3, <2>7, <2>8
<1> QED BY <1>1, <1>2 DEF Owner

\* The worker's loop up to the claim: only waiting rows are claimed.
LEMMA ImagesLoop ==
  ASSUME IInv, IInv', ImagesInv, RecoverStale \/ Discover \/ ClaimReads \/ ClaimCommits
  PROVE  ImagesInv'
<1>1. row \in [Files -> Row] /\ row' \in [Files -> Row]
  BY DEF IInv, TypeOK
<1>2. CASE RecoverStale
  <2>1. worker'.file = NoFile
    BY <1>2 DEF RecoverStale, Goto, IInv, TypeOK, Worker
  <2>2. asked' = asked /\ pictured' = pictured /\ images' = images /\ AtHand'
    BY <1>2, <2>1 DEF RecoverStale, Rest, ledger, AtHand
  <2>3. ASSUME NEW f \in Files
        PROVE  Unchanged(f) \/ /\ row'[f].event = row[f].event
                               /\ row[f].state = "processing" /\ row'[f].state = "retry"
    <3>1. row'[f] = row[f] \/ /\ row'[f] = [row[f] EXCEPT !.state = "retry", !.due = TRUE,
                                                          !.lease = "none"]
                              /\ row[f].state = "processing"
      BY <1>2 DEF RecoverStale
    <3> QED BY <1>1, <3>1 DEF Unchanged, Row
  <2> QED BY <1>1, <2>2, <2>3, ImagesAside
<1>3. CASE Discover
  <2>1. worker'.file = NoFile
    BY <1>3 DEF Discover, Goto, IInv, TypeOK, Worker
  <2>2. asked' = asked /\ pictured' = pictured /\ images' = images /\ AtHand'
    BY <1>3, <2>1 DEF Discover, Rest, ledger, AtHand
  <2>3. ASSUME NEW f \in Files
        PROVE  Unchanged(f) \/ /\ row'[f].event = row[f].event
                               /\ row[f].state = "unseen" /\ row'[f].state = "discovered"
    <3>1. row'[f] = row[f] \/ /\ row'[f] = [NoRow EXCEPT !.state = "discovered", !.due = TRUE,
                                                         !.born = Cardinality(Stored)]
                              /\ row[f].state = "unseen"
      BY <1>3 DEF Discover, Stored
    <3> QED BY <3>1 DEF Unchanged, NoRow, IInv, Recorded
  <2> QED BY <1>1, <2>2, <2>3, ImagesAside
<1>4. CASE ClaimReads
  <2>1. row' = row /\ asked' = asked /\ pictured' = pictured /\ images' = images
    BY <1>4 DEF ClaimReads, Rest, ledger
  <2>2. AtHand'
    <3>1. CASE worker' = Idle("scan")
      BY <3>1 DEF AtHand, Idle
    <3>2. CASE worker' # Idle("scan")
      <4>1. PICK f \in Files : /\ Claimable(f)
                               /\ worker' = [Idle("claim") EXCEPT !.file = f, !.snap = row[f]]
        BY <1>4, <3>2 DEF ClaimReads
      <4>2. worker'.file = f /\ worker'.pc = "claim"
        BY <4>1 DEF Idle
      <4> QED BY <2>1, <4>1, <4>2 DEF AtHand, Claimable
    <3> QED BY <3>1, <3>2
  <2> QED BY <1>1, <2>1, <2>2, ImagesAside DEF Unchanged
<1>5. CASE ClaimCommits
  <2> DEFINE w == worker.file
  <2>1. w \in Files /\ w # NoFile /\ worker.pc = "claim" /\ worker.snap \in Row
    BY <1>5, IngestAssumption DEF IInv, TypeOK, Worker, ClaimCommits
  <2>2. /\ asked' = asked /\ pictured' = pictured /\ images' = images
        /\ row' = [row EXCEPT ![w] = Claimed(@, worker.snap)]
    BY <1>5 DEF ClaimCommits, Rest, ledger
  <2>3. worker'.file = w /\ worker'.pc = "hash"
    BY <1>5 DEF ClaimCommits, IInv, TypeOK, Worker
  <2>4. row[w].state \in {"discovered", "retry", "processing"}
    BY <2>1 DEF ImagesInv, AtHand
  <2>5. /\ row'[w].event = row[w].event
        /\ row'[w].state \in {"discovered", "retry", "processing"}
    <3>1. row'[w] = Claimed(row[w], worker.snap)
      BY <1>1, <2>1, <2>2
    <3> QED BY <1>1, <2>1, <2>4, <3>1 DEF Claimed, Row
  <2>6. \A f \in Files \ {w} : Unchanged(f)
    BY <1>1, <2>1, <2>2 DEF Unchanged
  <2>7. AtHand'
    BY <2>3, <2>5 DEF AtHand
  <2> HIDE DEF w
  <2> QED BY <1>1, <2>2, <2>4, <2>5, <2>6, <2>7, ImagesAside
<1> QED BY <1>2, <1>3, <1>4, <1>5

\* What the worker draws or removes is of a file without an event.
LEMMA OthersKept ==
  ASSUME IInv, ImagesInv, OwnPaths, worker.file \in Files, row' = row,
         pictured' = pictured,
         \A n \in Names : n # NameOf[worker.file] => images'[n] = images[n]
  PROVE  ImagesKept'
<1>1. worker.file # NoFile
  BY IngestAssumption
<1>2. row[worker.file].event = NoDigest /\ NoDigest \notin pictured
  BY <1>1, IngestAssumption DEF ImagesInv, AtHand, Finished, IInv, TypeOK
<1>3. \A f \in Files : NameOf[f] \in Names
  BY IngestAssumption
<1> QED BY <1>2, <1>3 DEF OwnPaths, ImagesInv, ImagesKept

\* The worker with a row: hashing and looking for twins change no event.
LEMMA ImagesHash ==
  ASSUME IInv, IInv', ImagesInv, Hash \/ Dedupe \/ Start
  PROVE  ImagesInv'
<1> DEFINE w == worker.file
<1>1. row \in [Files -> Row] /\ row' \in [Files -> Row] /\ w \in Files /\ w # NoFile
  BY IngestAssumption DEF IInv, TypeOK, Worker, Hash, Dedupe, Start
<1>2. /\ asked' = asked /\ pictured' = pictured /\ images' = images
  BY DEF Hash, Dedupe, Start, Rest, ledger
<1>3. /\ \A f \in Files : Unchanged(f)
      /\ worker'.file = w /\ worker'.pc # "commit"
  <2>1. CASE Hash \/ Start
    BY <2>1 DEF Hash, Start, Unchanged, Goto, IInv, TypeOK, Worker
  <2>2. CASE Dedupe /\ Twins # {}
    <3>1. worker.digest \in Digests
      BY <1>1, <2>2 DEF Dedupe, IInv, AtWork
    <3>2. Goto("fail") /\ row' = row
      BY <1>1, <2>2, <3>1, TwinsClash DEF Dedupe
    <3> QED BY <3>2 DEF Unchanged, Goto, IInv, TypeOK, Worker
  <2>3. CASE Dedupe /\ Twins = {}
    <3>1. row' = [row EXCEPT ![w].sha = worker.digest] /\ Goto("start")
      BY <2>3 DEF Dedupe
    <3>2. \A f \in Files : Unchanged(f)
      BY <1>1, <3>1 DEF Unchanged, Row
    <3> QED BY <3>1, <3>2 DEF Goto, IInv, TypeOK, Worker
  <2> QED BY <2>1, <2>2, <2>3
<1>4. AtHand'
  BY <1>1, <1>3 DEF AtHand, ImagesInv, Unchanged
<1> HIDE DEF w
<1> QED BY <1>1, <1>2, <1>3, <1>4, ImagesAside

\* The analysis, and a transaction that fails after it.
LEMMA ImagesAnalyse ==
  ASSUME IInv, IInv', ImagesInv, OwnPaths, Analyse \/ CommitFails
  PROVE  ImagesInv'
<1> DEFINE w == worker.file
<1>1. w \in Files /\ w # NoFile /\ worker.digest \in Digests
  BY IngestAssumption DEF IInv, TypeOK, Worker, AtWork, Analyse, CommitFails
<1>2. row' = row /\ asked' = asked /\ pictured' = pictured
  <2>1. CASE Analyse
    BY <2>1 DEF Analyse, ledger
  <2>2. CASE CommitFails
    BY <1>1, <2>2, TwinsClash DEF CommitFails, ledger
  <2> QED BY <2>1, <2>2
<1>3. NameOf[w] \in Names /\ images \in [Names -> OptDigest]
  BY <1>1, IngestAssumption DEF IInv, TypeOK
<1>4. \A n \in Names : n # NameOf[w] => images'[n] = images[n]
  BY <1>3 DEF Analyse, CommitFails, Unlink
<1>5. /\ worker'.file = w
      /\ worker'.pc = "commit" /\ worker'.drew => images'[NameOf[w]] = worker'.digest
  <2>1. CASE CommitFails
    <3>1. Goto("fail")
      BY <1>1, <2>1, TwinsClash DEF CommitFails
    <3> QED BY <3>1 DEF Goto, IInv, TypeOK, Worker
  <2>2. CASE Analyse /\ Goto("fail")
    BY <2>2 DEF Goto, IInv, TypeOK, Worker
  <2>3. CASE Analyse /\ ~Goto("fail")
    <3>1. PICK drew \in BOOLEAN :
            /\ worker' = [worker EXCEPT !.pc = "commit", !.drew = drew]
            /\ images' = IF drew THEN [images EXCEPT ![NameOf[w]] = worker.digest]
                                 ELSE images
      BY <2>3 DEF Analyse
    <3>2. worker'.file = w /\ worker'.digest = worker.digest /\ worker'.drew = drew
      BY <3>1 DEF IInv, TypeOK, Worker
    <3>3. drew => images'[NameOf[w]] = worker.digest
      BY <1>3, <3>1
    <3> QED BY <3>2, <3>3
  <2> QED BY <2>1, <2>2, <2>3
<1>6. AtHand'
  BY <1>1, <1>2, <1>5 DEF AtHand, ImagesInv
<1>7. ImagesKept'
  BY <1>1, <1>2, <1>4, OthersKept
<1>8. Finished' /\ StillDead'
  BY <1>2 DEF ImagesInv, Finished, StillDead
<1> QED BY <1>6, <1>7, <1>8 DEF ImagesInv

\* The commit of an event: its images are those the analysis drew.
LEMMA ImagesCommit ==
  ASSUME IInv, IInv', ImagesInv, Commit
  PROVE  ImagesInv'
<1> DEFINE w == worker.file
           d == worker.digest
<1>1. w \in Files /\ w # NoFile /\ d \in Digests /\ d \notin events /\ worker.pc = "commit"
  BY IngestAssumption DEF IInv, TypeOK, Worker, AtWork, Commit, CanCommit
<1>2. /\ asked' = asked /\ images' = images /\ worker'.file = NoFile
      /\ pictured' = IF worker.drew THEN pictured \cup {d} ELSE pictured
  BY IdleType DEF Commit, PC
<1>3. /\ row'[w].event = d /\ row'[w].state = "processed"
      /\ \A f \in Files \ {w} : row'[f] = row[f]
  <2>1. row' = [row EXCEPT ![w] =
                 [@ EXCEPT !.sha = d, !.event = d, !.state = "processed",
                           !.lease = "none", !.notified = FALSE, !.requested = FALSE]]
    BY DEF Commit
  <2>2. row \in [Files -> Row]
    BY DEF IInv, TypeOK
  <2>3. row'[w] = [row[w] EXCEPT !.sha = d, !.event = d, !.state = "processed",
                           !.lease = "none", !.notified = FALSE, !.requested = FALSE]
    BY <1>1, <2>1, <2>2
  <2>4. row'[w].event = d /\ row'[w].state = "processed"
    BY <1>1, <2>2, <2>3 DEF Row
  <2> QED BY <2>1, <2>2, <2>4
<1>4. pictured \subseteq events
  BY DEF IInv, TypeOK
<1>5. Finished'
  BY <1>3 DEF ImagesInv, Finished
<1>6. StillDead'
  <2>1. \A a \in asked : a.file \in Files
    BY DEF IInv, TypeOK, Request
  <2>2. row[w].state # "dead"
    BY <1>1 DEF ImagesInv, AtHand
  <2> QED BY <1>2, <1>3, <2>1, <2>2 DEF ImagesInv, StillDead
<1>7. ImagesKept'
  <2>1. SUFFICES ASSUME NEW f \in Files, row'[f].event \in pictured'
                 PROVE  images'[NameOf[f]] = row'[f].event
    BY DEF ImagesKept
  <2>2. CASE f = w
    <3>1. worker.drew
      BY <1>1, <1>2, <1>3, <1>4, <2>1, <2>2
    <3>2. images[NameOf[w]] = d
      BY <1>1, <3>1 DEF ImagesInv, AtHand
    <3> QED BY <1>2, <1>3, <2>2, <3>2
  <2>3. CASE f # w
    <3>1. row'[f] = row[f]
      BY <1>3, <2>3
    <3>2. row[f].event # d
      BY <1>1, IngestAssumption DEF IInv, Recorded
    <3>3. row[f].event \in pictured
      BY <1>2, <2>1, <3>1, <3>2
    <3> QED BY <1>2, <3>1, <3>3 DEF ImagesInv, ImagesKept
  <2> QED BY <2>2, <2>3
<1>8. AtHand'
  BY <1>2 DEF AtHand
<1> QED BY <1>5, <1>6, <1>7, <1>8 DEF ImagesInv

\* A failure: the row at work had no event.
LEMMA ImagesFail ==
  ASSUME IInv, IInv', ImagesInv, Fail
  PROVE  ImagesInv'
<1> DEFINE w == worker.file
<1>1. w \in Files /\ w # NoFile /\ row \in [Files -> Row]
  BY IngestAssumption DEF IInv, TypeOK, Worker, Fail
<1>2. asked' = asked /\ images' = images /\ worker'.file = NoFile /\ pictured' = pictured
  BY IdleType DEF Fail, PC, ledger
<1>3. row[w].state \in {"discovered", "retry", "processing"} /\ row[w].event = NoDigest
  BY <1>1 DEF ImagesInv, AtHand, Finished
<1>4. row'[w].event = row[w].event /\ \A f \in Files \ {w} : row'[f] = row[f]
  <2> DEFINE again == row[w].attempts <= Schedule
             st == IF again THEN "retry" ELSE "dead"
             du == IF again THEN FALSE ELSE row[w].due
             nt == IF again THEN row[w].notified ELSE TRUE
             new == [row[w] EXCEPT !.lease = "none", !.state = st, !.due = du,
                                   !.notified = nt]
  <2>1. row' = [row EXCEPT ![w] = new]
    BY <1>1 DEF Fail
  <2> HIDE DEF again, st, du, nt
  <2>2. new.event = row[w].event
    BY <1>1 DEF Row
  <2> HIDE DEF new
  <2> QED BY <1>1, <2>1, <2>2
<1>5. Finished'
  BY <1>3, <1>4 DEF ImagesInv, Finished
<1>6. StillDead'
  <2>1. \A a \in asked : a.file \in Files
    BY DEF IInv, TypeOK, Request
  <2> QED BY <1>2, <1>3, <1>4, <2>1 DEF ImagesInv, StillDead
<1>7. AtHand' /\ ImagesKept'
  BY <1>2, <1>4 DEF AtHand, ImagesInv, ImagesKept
<1> QED BY <1>5, <1>6, <1>7 DEF ImagesInv

\* Every step keeps the images, when requests do not overlap.
LEMMA ImagesStep ==
  OwnPaths /\ IInv /\ IInv' /\ NoOverlap /\ ImagesInv /\ [Next]_vars => ImagesInv'
<1> SUFFICES ASSUME OwnPaths, IInv, IInv', NoOverlap, ImagesInv, [Next]_vars
             PROVE  ImagesInv'
  OBVIOUS
<1>1. CASE UNCHANGED vars
  BY <1>1 DEF vars, ledger, ImagesInv, Finished, StillDead, AtHand, ImagesKept
<1>2. CASE WorkerStep
  BY <1>2, ImagesLoop, ImagesHash, ImagesAnalyse, ImagesCommit, ImagesFail DEF WorkerStep
<1> QED BY <1>1, <1>2, ImagesFaults, ImagesOwner DEF Next

\* The images of a committed event stay, through failures, crashes and retries, when no
\* two files share a path and no two requests for one row overlap: what process draws, or
\* unlinks when its transaction fails, is of a row that has no event yet.
THEOREM ImagesStay == OwnPaths => (Spec /\ []NoOverlap => []ImagesKept)
<1>1. ImagesInv => ImagesKept
  BY DEF ImagesInv
<1> SUFFICES ASSUME OwnPaths PROVE Spec /\ []NoOverlap => []ImagesKept
  OBVIOUS
<1>2. IInv /\ IInv' /\ NoOverlap /\ ImagesInv /\ [Next]_vars => ImagesInv'
  BY ImagesStep
<1> QED BY <1>1, <1>2, ImagesInit, Inductive, PTL DEF Spec
=============================================================================
