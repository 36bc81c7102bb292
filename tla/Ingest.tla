------------------------------- MODULE Ingest -------------------------------
(***************************************************************************)
(* From a file in the inbox to a committed event: the table video_ingest,  *)
(* the single worker of ingest.py that discovers, claims and hashes files, *)
(* the transactions of pipeline.py around the analysis, and the owner's    *)
(* request to analyse a video again (a web thread).                        *)
(*                                                                         *)
(* A row is identified by its fingerprint, which stands for one version of *)
(* one file: path, size and mtime.  The row remembers the path only, so    *)
(* what hashing and analysis read is whatever version is there then.       *)
(* Images are named after the video file (media_names.py), so two versions *)
(* of one path write the same image files.                                 *)
(*                                                                         *)
(* Sessions read first and write at commit, and SQLAlchemy writes only the *)
(* columns that differ from what was read (see Outbox): claim_one and      *)
(* request_retry, which may overlap, are therefore two steps each.  The    *)
(* other transactions work on a row the worker has claimed and are one     *)
(* step.  Lease and backoff times are abstracted as in Outbox.             *)
(***************************************************************************)
EXTENDS Naturals, FiniteSets

CONSTANTS
  Files,        \* file versions (fingerprints)
  Names,        \* paths in the inbox
  NameOf,       \* the path of each version
  Digests,      \* SHA-256 values
  DigestOf,     \* the digest of each version's bytes
  NoFile, NoDigest,
  Schedule,     \* length of the retry schedule (3: 300, 1200, 3600 seconds)
  MaxCrashes,   \* bound on crashes of the process and errors of the database
  MaxRequests,  \* bound on the owner's retry requests
  MaxPuts       \* bound on files put into the inbox

ASSUME IngestAssumption ==
  /\ IsFiniteSet(Files)
  /\ NameOf \in [Files -> Names] /\ DigestOf \in [Files -> Digests]
  /\ NoFile \notin Files /\ NoDigest \notin Digests
  /\ {Schedule, MaxCrashes, MaxRequests, MaxPuts} \subseteq Nat

VARIABLES
  disk,       \* the version at each path
  stable,     \* the paths unchanged for stable_seconds
  row,        \* video_ingest, by fingerprint
  worker,     \* the worker's place and local variables
  asked,      \* retry requests between their read and their commit
  events,     \* primary keys of the committed events (evt_<digest>)
  sources,    \* digest registered for the source artifact of each path
  images,     \* the images on disk for each path: the digest they show
  pictured,   \* the committed events that have images
  alerts,     \* rows whose analysis-dead message exists in the outbox
  used        \* crashes and errors, requests, puts so far, against their bounds

inbox  == <<disk, stable>>
ledger == <<events, sources, pictured>>
vars   == <<inbox, row, worker, asked, ledger, images, alerts, used>>

State == {"unseen", "discovered", "processing", "retry", "dead", "processed",
          "duplicate"}

OptDigest == Digests \cup {NoDigest}

Row == [state : State, lease : {"none", "running", "expired"}, due : BOOLEAN,
        requested : BOOLEAN, attempts : Nat, notified : BOOLEAN,
        sha : OptDigest, event : OptDigest, born : Nat]

NoRow == [state |-> "unseen", lease |-> "none", due |-> FALSE,
          requested |-> FALSE, attempts |-> 0, notified |-> FALSE,
          sha |-> NoDigest, event |-> NoDigest, born |-> 0]

Stored == {f \in Files : row[f].state # "unseen"}

PC == {"down", "recover", "ended", "scan", "look", "claim", "hash", "dedupe",
       "start", "analyse", "commit", "fail"}

Worker == [pc : PC, file : Files \cup {NoFile}, snap : Row,
           digest : OptDigest, drew : BOOLEAN]

Idle(pc) == [pc |-> pc, file |-> NoFile, snap |-> NoRow,
             digest |-> NoDigest, drew |-> FALSE]

Request == [file : Files, snap : Row, nr : Nat]

TypeOK ==
  /\ disk \in [Names -> Files \cup {NoFile}] /\ stable \subseteq Names
  /\ row \in [Files -> Row]
  /\ worker \in Worker
  /\ worker.pc \in {"down", "recover", "ended", "scan", "look"}
       <=> worker.file = NoFile
  /\ asked \subseteq Request
  /\ events \subseteq Digests /\ pictured \subseteq events
  /\ sources \in [Names -> OptDigest] /\ images \in [Names -> OptDigest]
  /\ alerts \subseteq Files
  /\ used \in [crashes : Nat, requests : Nat, puts : Nat]

Init ==
  /\ disk = [n \in Names |-> NoFile] /\ stable = {}
  /\ row = [f \in Files |-> NoRow]
  /\ worker = Idle("recover")
  /\ asked = {}
  /\ events = {} /\ pictured = {}
  /\ sources = [n \in Names |-> NoDigest]
  /\ images = [n \in Names |-> NoDigest]
  /\ alerts = {}
  /\ used = [crashes |-> 0, requests |-> 0, puts |-> 0]

-----------------------------------------------------------------------------
(* The inbox, written by the downloader and by whoever empties the NAS.    *)

Put(f) ==
  /\ used.puts < MaxPuts /\ disk[NameOf[f]] # f
  /\ used' = [used EXCEPT !.puts = @ + 1]
  /\ disk' = [disk EXCEPT ![NameOf[f]] = f]
  /\ stable' = stable \ {NameOf[f]}
  /\ UNCHANGED <<row, worker, asked, ledger, images, alerts>>

Remove(n) ==
  /\ disk[n] # NoFile
  /\ disk' = [disk EXCEPT ![n] = NoFile]
  /\ stable' = stable \ {n}
  /\ UNCHANGED <<row, worker, asked, ledger, images, alerts, used>>

Settle(n) ==
  /\ disk[n] # NoFile /\ n \notin stable
  /\ stable' = stable \cup {n}
  /\ UNCHANGED <<disk, row, worker, asked, ledger, images, alerts, used>>

-----------------------------------------------------------------------------
(* run: recover_stale once, then discover and claim_one for ever.          *)

Goto(pc) == worker' = [worker EXCEPT !.pc = pc]

Rest == <<inbox, asked, ledger, images, alerts, used>>

RecoverStale ==
  /\ worker.pc = "recover"
  /\ row' = [f \in Files |->
       IF row[f].state = "processing" /\ row[f].lease = "expired"
       THEN [row[f] EXCEPT !.state = "retry", !.due = TRUE, !.lease = "none"]
       ELSE row[f]]
  /\ Goto("scan")
  /\ UNCHANGED Rest

Discover ==
  /\ worker.pc = "scan"
  /\ row' = [f \in Files |->
       IF f \notin Stored /\ disk[NameOf[f]] = f /\ NameOf[f] \in stable
       THEN [NoRow EXCEPT !.state = "discovered", !.due = TRUE,
                          !.born = Cardinality(Stored)]
       ELSE row[f]]
  /\ Goto("look")
  /\ UNCHANGED Rest

\* Mutants of Claimable: expired leases wait for recover_stale; or a processed
\* row is claimed again.
ClaimableUnleased(f) ==
  row[f].state \in {"discovered", "retry"} /\ (row[f].due \/ row[f].requested)

ClaimableTwice(f) ==
  row[f].state \in {"discovered", "retry", "processed"} /\ row[f].due

Claimable(f) ==
  /\ \/ row[f].state \in {"discovered", "retry"}
     \/ row[f].state = "processing" /\ row[f].lease = "expired"
  /\ row[f].due \/ row[f].requested

\* g comes before f: requested rows first, then the older ones.
Before(g, f) ==
  \/ row[g].requested /\ ~row[f].requested
  \/ row[g].requested = row[f].requested /\ row[g].born < row[f].born

ClaimReads ==
  /\ worker.pc = "look"
  /\ LET ready == {f \in Files : Claimable(f)}
     IN  IF ready = {} THEN worker' = Idle("scan")
         ELSE \E f \in ready :
                /\ \A g \in ready : ~Before(g, f)
                /\ worker' = [Idle("claim") EXCEPT !.file = f, !.snap = row[f]]
  /\ UNCHANGED <<row, Rest>>

Claimed(r, s) ==
  [r EXCEPT !.state     = IF s.state = "processing" THEN @ ELSE "processing",
            !.lease     = "running",
            !.requested = IF s.requested THEN FALSE ELSE @,
            !.attempts  = s.attempts + 1]

ClaimCommits ==
  /\ worker.pc = "claim"
  /\ row' = [row EXCEPT ![worker.file] = Claimed(@, worker.snap)]
  /\ worker' = [worker EXCEPT !.pc = "hash", !.snap = NoRow]
  /\ UNCHANGED Rest

-----------------------------------------------------------------------------
(* process_one: _prepare_hash, then the pipeline.                          *)

Source == disk[NameOf[worker.file]]

\* The file is looked for and hashed, unless the row already has a digest.
Hash ==
  /\ worker.pc = "hash"
  /\ IF Source = NoFile THEN Goto("fail")
     ELSE worker' = [worker EXCEPT
            !.pc = "dedupe",
            !.digest = IF row[worker.file].sha # NoDigest
                       THEN row[worker.file].sha ELSE DigestOf[Source]]
  /\ UNCHANGED <<row, Rest>>

\* The rows of other files with the worker's digest that are done.
Twins ==
  {g \in Files \ {worker.file} :
     row[g].sha = worker.digest /\ row[g].state \in {"processed", "duplicate"}}

\* Column event_id is UNIQUE.
EventsUnique(rows) ==
  \A f, g \in Files :
    f # g /\ rows[f].event = rows[g].event => rows[f].event = NoDigest

\* Both transactions that find a twin write the row as its duplicate; the
\* commit fails when a UNIQUE constraint does.
MarkDuplicate ==
  \E g \in Twins :
    LET new == [row EXCEPT ![worker.file] =
                  [@ EXCEPT !.sha = worker.digest, !.state = "duplicate",
                            !.event = row[g].event, !.lease = "none"]]
    IN  IF EventsUnique(new) THEN row' = new /\ worker' = Idle("scan")
        ELSE Goto("fail") /\ UNCHANGED row

Dedupe ==
  /\ worker.pc = "dedupe"
  /\ IF Twins # {} THEN MarkDuplicate
     ELSE /\ row' = [row EXCEPT ![worker.file].sha = worker.digest]
          /\ Goto("start")
  /\ UNCHANGED Rest

-----------------------------------------------------------------------------
(* ProcessingPipeline.process.                                             *)

\* The row must still be leased for processing, and the file be there.
Start ==
  /\ worker.pc = "start"
  /\ IF row[worker.file].state # "processing" \/ Source = NoFile
     THEN Goto("fail") ELSE Goto("analyse")
  /\ UNCHANGED <<row, Rest>>

\* The analysis fails, or finds faces and draws their images, or finds none.
Analyse ==
  /\ worker.pc = "analyse"
  /\ \/ Goto("fail") /\ UNCHANGED images
     \/ \E drew \in BOOLEAN :
          /\ Source # NoFile
          /\ worker' = [worker EXCEPT !.pc = "commit", !.drew = drew]
          /\ images' = IF drew
                       THEN [images EXCEPT ![NameOf[worker.file]] = worker.digest]
                       ELSE images
  /\ UNCHANGED <<inbox, row, asked, ledger, alerts, used>>

\* The images written before an uncommitted transaction are removed.
Unlink ==
  images' = IF worker.drew
            THEN [images EXCEPT ![NameOf[worker.file]] = NoDigest] ELSE images

\* Mutant of CanCommit: the event id is not a primary key.
CanCommitTwice ==
  Source # NoFile /\ sources[NameOf[worker.file]] \in {NoDigest, worker.digest}

\* register_artifact accepts the source, and the event id is not taken.
CanCommit ==
  LET n == NameOf[worker.file]
  IN  /\ Source # NoFile
      /\ sources[n] # NoDigest =>
           sources[n] = worker.digest /\ DigestOf[Source] = worker.digest
      /\ worker.digest \notin events

Commit ==
  /\ worker.pc = "commit"
  /\ Twins = {} /\ CanCommit
  /\ row' = [row EXCEPT ![worker.file] =
       [@ EXCEPT !.sha = worker.digest, !.event = worker.digest,
                 !.state = "processed", !.lease = "none",
                 !.notified = FALSE, !.requested = FALSE]]
  /\ events' = events \cup {worker.digest}
  /\ sources' = [sources EXCEPT ![NameOf[worker.file]] = worker.digest]
  /\ pictured' = IF worker.drew THEN pictured \cup {worker.digest} ELSE pictured
  /\ worker' = Idle("scan")
  /\ UNCHANGED <<inbox, asked, images, alerts, used>>

\* A twin appeared since, or the transaction fails: a constraint, a conflict
\* of register_artifact, or any other error before the commit.
CommitFails ==
  /\ worker.pc = "commit"
  /\ IF Twins # {} THEN MarkDuplicate ELSE Goto("fail") /\ UNCHANGED row
  /\ Unlink
  /\ UNCHANGED <<inbox, asked, ledger, alerts, used>>

-----------------------------------------------------------------------------
(* fail: the next retry of the schedule, or dead and an outbox message.    *)

\* Mutant of Announces: the death is recognised by the number of attempts.
AnnouncesAtEnd(f, again) == ~again /\ row[f].attempts = Schedule + 1

Announces(f, again) == ~again /\ ~row[f].notified

Fail ==
  /\ worker.pc = "fail"
  /\ LET f     == worker.file
         again == row[f].attempts <= Schedule
     IN  /\ row' = [row EXCEPT ![f].lease = "none",
                               ![f].state = IF again THEN "retry" ELSE "dead",
                               ![f].due = IF again THEN FALSE ELSE @,
                               ![f].notified = IF again THEN @ ELSE TRUE]
         /\ alerts' = IF Announces(f, again) THEN alerts \cup {f} ELSE alerts
  /\ worker' = Idle("scan")
  /\ UNCHANGED <<inbox, asked, ledger, images, used>>

-----------------------------------------------------------------------------
(* request_retry, called by the owner's web request.                       *)

Web == worker.pc # "down"

\* Mutant of RetryReads: the state of the row is not checked.
RetryReadsAny(f) ==
  /\ Web /\ used.requests < MaxRequests /\ f \in Stored
  /\ used' = [used EXCEPT !.requests = @ + 1]
  /\ asked' = asked \cup {[file |-> f, snap |-> row[f], nr |-> used.requests]}
  /\ UNCHANGED <<inbox, row, worker, ledger, images, alerts>>

RetryReads(f) ==
  /\ Web /\ used.requests < MaxRequests
  /\ row[f].state \in {"retry", "dead"}
  /\ used' = [used EXCEPT !.requests = @ + 1]
  /\ asked' = asked \cup {[file |-> f, snap |-> row[f], nr |-> used.requests]}
  /\ UNCHANGED <<inbox, row, worker, ledger, images, alerts>>

Requested(r, s) ==
  [r EXCEPT !.state     = IF s.state = "retry" THEN @ ELSE "retry",
            !.requested = IF s.requested THEN @ ELSE TRUE,
            !.due       = TRUE,
            !.notified  = IF s.notified THEN FALSE ELSE @]

RetryCommits(a) ==
  /\ Web
  /\ row' = [row EXCEPT ![a.file] = Requested(@, a.snap)]
  /\ asked' = asked \ {a}
  /\ UNCHANGED <<inbox, worker, ledger, images, alerts, used>>

-----------------------------------------------------------------------------
(* Crashes, errors of the database and the passing of time.                *)

\* The process dies, and the web threads with it.
Crash ==
  /\ Web /\ used.crashes < MaxCrashes
  /\ used' = [used EXCEPT !.crashes = @ + 1]
  /\ worker' = Idle("down") /\ asked' = {}
  /\ UNCHANGED <<inbox, row, ledger, images, alerts>>

\* A transaction of the worker fails because the database stays locked.
DatabaseError ==
  /\ used.crashes < MaxCrashes
  /\ used' = [used EXCEPT !.crashes = @ + 1]
  /\ UNCHANGED <<inbox, row, asked, ledger, images, alerts>>

\* recover_stale is awaited outside the loop's try: its error ends the task of
\* run, which nothing starts again while the process and its web threads live.
RecoverFails ==
  /\ worker.pc = "recover" /\ DatabaseError
  /\ worker' = Idle("ended")

\* An error of process_one goes to fail, as every other of its exceptions.
ProcessFails ==
  /\ worker.pc \in {"hash", "dedupe", "start"} /\ DatabaseError
  /\ Goto("fail")

\* Mutant of LoopFails: the loop keeps the row it could not fail.
LoopFailsKept ==
  /\ worker.pc \in {"look", "claim", "fail"} /\ DatabaseError
  /\ Goto("scan")

\* claim_one or fail itself fails: run goes on, nothing is claimed, and a row
\* that was keeps its lease.
LoopFails ==
  /\ worker.pc \in {"look", "claim", "fail"} /\ DatabaseError
  /\ worker' = Idle("scan")

Restart ==
  /\ worker.pc = "down"
  /\ worker' = Idle("recover")
  /\ UNCHANGED <<row, Rest>>

LeaseExpires(f) ==
  /\ row[f].lease = "running"
  /\ row' = [row EXCEPT ![f].lease = "expired"]
  /\ UNCHANGED <<worker, Rest>>

BackoffElapses(f) ==
  /\ f \in Stored /\ ~row[f].due
  /\ row' = [row EXCEPT ![f].due = TRUE]
  /\ UNCHANGED <<worker, Rest>>

-----------------------------------------------------------------------------
Inbox ==
  \/ \E f \in Files : Put(f)
  \/ \E n \in Names : Remove(n) \/ Settle(n)

WorkerStep ==
  \/ RecoverStale \/ Discover \/ ClaimReads \/ ClaimCommits \/ Hash \/ Dedupe
  \/ Start \/ Analyse \/ Commit \/ CommitFails \/ Fail

Owner ==
  \/ \E f \in Files : RetryReads(f)
  \/ \E a \in asked : RetryCommits(a)

Time == \E f \in Files : LeaseExpires(f) \/ BackoffElapses(f)

Errors == RecoverFails \/ ProcessFails \/ LoopFails

Next == Inbox \/ WorkerStep \/ Owner \/ Time \/ Crash \/ Errors \/ Restart

Spec == Init /\ [][Next]_vars

\* The task of run goes on unless it has ended, supervisord restarts the process
\* when it died, and time passes.  A task that ended has no step, so that nothing
\* is assumed of it.  Analyses may fail, and files vanish, every time.
Fairness ==
  /\ WF_vars(WorkerStep) /\ WF_vars(Restart)
  /\ \A f \in Files : WF_vars(LeaseExpires(f)) /\ WF_vars(BackoffElapses(f))
  /\ \A n \in Names : WF_vars(Settle(n))

FairSpec == Spec /\ Fairness

-----------------------------------------------------------------------------
(* Properties.                                                             *)

\* Every committed event belongs to exactly one row, whose digest it carries,
\* and a processed row has its event: no content is ever recorded twice,
\* whatever was discovered again, retried or recovered from a crash.
OneRowPerEvent ==
  /\ \A d \in events : \E f \in Files : row[f].event = d
  /\ \A f \in Files :
       /\ row[f].event # NoDigest => row[f].event \in events
       /\ row[f].state = "processed" => row[f].event = row[f].sha
  /\ EventsUnique(row)

\* A row that is dead has its message in the outbox, also when the owner's
\* requests and the worker's failures interleave.
DeadIsAnnounced == \A f \in Files : row[f].state = "dead" => f \in alerts

\* The images of a committed event stay on disk (holds while no two versions
\* share a path and retry requests do not overlap).
ImagesKept ==
  \A f \in Files :
    row[f].event \in pictured => images[NameOf[f]] = row[f].event

\* A processed row is done: only a retry request that read the row while it
\* was dead, and commits after the row was processed, can reopen it.
ProcessedIsFinal ==
  [][\A f \in Files :
       row[f].state = "processed" /\ row'[f].state # "processed" =>
         \E a \in asked \ asked' : a.file = f /\ a.snap.state = "dead"]_vars

\* A discovered file ends processed or dead, however the process crashes and
\* whichever of its transactions fail, unless it is the first one of all: an
\* error of recover_stale ends the task for as long as the process lives.
Finishes ==
  \A f \in Files :
    row[f].state # "unseen" ~>
      \/ row[f].state \in {"processed", "duplicate", "dead"}
      \/ worker.pc = "ended"

\* README.md: content is deduplicated by SHA-256.  A file whose bytes were
\* already processed is recognised, not reported as a failed analysis.
TwinIsNoFailure ==
  [][\A f, g \in Files :
       f # g /\ row[g].state = "processed" /\ row[g].sha = worker.digest
         => (row'[f].state = "dead" => row[f].state = "dead")]_vars
=============================================================================
