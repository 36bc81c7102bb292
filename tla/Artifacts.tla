----------------------------- MODULE Artifacts ------------------------------
(***************************************************************************)
(* The table artifact_manifest, the backup receipts about its rows and the *)
(* manifest file exported from it: artifacts.py, the handlers of           *)
(* internal_api.py that call it, and the export at the end of the pipeline *)
(* of pipeline.py.                                                         *)
(*                                                                         *)
(* One thread reconciles rows and files for ever; others serve requests:   *)
(* a receipt of the backup task, a new artifact, a promotion to permanent  *)
(* retention, a plain export.  A receipt reads the artifact, then the      *)
(* receipt, and commits the columns that differ from what it read (see     *)
(* Outbox); reconciliation reads all rows, then looks at the files, then   *)
(* commits.  Whoever exports holds _MANIFEST_LOCK from before it reads the *)
(* rows until the file is replaced.                                        *)
(*                                                                         *)
(* The manifest is represented by the number of the last change of the     *)
(* table that it shows.  Of checksum and size the model keeps whether they *)
(* match the artifact's.                                                   *)
(***************************************************************************)
EXTENDS Naturals

CONSTANTS
  Artifacts,
  Worker,        \* the thread of ManifestWorker
  Handlers,      \* the threads that serve requests
  Nobody,
  MaxRequests,   \* bound on requests other than registrations
  MaxFlips,      \* bound on files that vanish or come back
  MaxCrashes     \* bound on crashes of the process and failing exports

ASSUME ArtifactsAssumption ==
  /\ Worker \notin Handlers /\ Nobody \notin Artifacts \cup Handlers \cup {Worker}
  /\ {MaxRequests, MaxFlips, MaxCrashes} \subseteq Nat

VARIABLES
  present,  \* the artifacts whose file is there
  row,      \* artifact_manifest
  receipt,  \* backup_receipts, by artifact
  changes,  \* how often a row of artifact_manifest was changed
  listed,   \* the last of these changes that the manifest file shows
  lock,     \* the holder of _MANIFEST_LOCK
  thread,   \* each thread: its place and local variables
  overlapped, \* artifacts with receipts that were handled at the same time
  used      \* requests, flips and crashes so far, against their bounds

vars == <<present, row, receipt, changes, listed, lock, thread, overlapped, used>>

Threads == Handlers \cup {Worker}

Outcome == {"verified", "failed", "missing"}

Row == [state : {"absent", "receipt_pending", "verified", "missing"},
        backup : Outcome \cup {"pending"}, permanent : BOOLEAN]

\* match: checksum and size are those of the artifact.
Receipt == [state : Outcome \cup {"none"}, match : BOOLEAN]

NoRow     == [state |-> "absent", backup |-> "pending", permanent |-> FALSE]
NoReceipt == [state |-> "none", match |-> FALSE]

PC == {"idle", "receipt", "commit", "look", "reconcile", "lock", "read", "write"}

\* art, body, saw: a receipt's artifact, content and the receipt it read;
\* rows, files: what was read of the table and of the disk; mine: the change
\* the thread committed, or read for its export.
Thread == [pc : PC, art : Artifacts \cup {Nobody}, body : Receipt, saw : Receipt,
           rows : [Artifacts -> Row], files : SUBSET Artifacts,
           mine : Nat, shows : Nat]

NoRows == [a \in Artifacts |-> NoRow]

Idle == [pc |-> "idle", art |-> Nobody, body |-> NoReceipt, saw |-> NoReceipt,
         rows |-> NoRows, files |-> {}, mine |-> 0, shows |-> 0]

TypeOK ==
  /\ present \subseteq Artifacts
  /\ row \in [Artifacts -> Row]
  /\ receipt \in [Artifacts -> Receipt]
  /\ changes \in Nat /\ listed \in 0..changes
  /\ lock \in Threads \cup {Nobody}
  /\ thread \in [Threads -> Thread]
  /\ \A t \in Threads : thread[t].pc \in {"read", "write"} <=> lock = t
  /\ overlapped \subseteq Artifacts
  /\ used \in [requests : 0..MaxRequests, flips : 0..MaxFlips,
               crashes : 0..MaxCrashes]

\* The process starts with an empty table, or with artifacts that have receipts
\* and may have lost their files.
Init ==
  /\ \E had \in [Artifacts -> {NoReceipt, [state |-> "failed", match |-> FALSE],
                               [state |-> "verified", match |-> TRUE]}] :
       /\ receipt = had
       /\ row = [a \in Artifacts |->
            IF had[a] = NoReceipt THEN NoRow
            ELSE [state |-> IF had[a].match THEN "verified" ELSE "receipt_pending",
                  backup |-> had[a].state, permanent |-> FALSE]]
  /\ present \in SUBSET {a \in Artifacts : row[a] # NoRow}
  /\ changes = 0 /\ listed = 0
  /\ lock = Nobody
  /\ thread = [t \in Threads |-> Idle]
  /\ overlapped = {}
  /\ used = [requests |-> 0, flips |-> 0, crashes |-> 0]

-----------------------------------------------------------------------------
Stored(a) == row[a].state # "absent"

Goto(t, pc) == thread' = [thread EXCEPT ![t].pc = pc]

\* A transaction that leaves the table as new; t exports next.
CommitRows(t, new) ==
  LET n == IF new = row THEN changes ELSE changes + 1
  IN  /\ row' = new
      /\ changes' = n
      /\ thread' = [thread EXCEPT ![t] = [Idle EXCEPT !.pc = "lock", !.mine = n]]

Free(t) == t \in Handlers /\ thread[t].pc = "idle"

Asks(t) ==
  /\ Free(t) /\ used.requests < MaxRequests
  /\ used' = [used EXCEPT !.requests = @ + 1]

-----------------------------------------------------------------------------
(* register_artifact at the end of an analysis or of a snapshot: the file  *)
(* was written, the row is inserted.                                       *)

Register(t, a) ==
  /\ Free(t) /\ ~Stored(a)
  /\ present' = present \cup {a}
  /\ CommitRows(t, [row EXCEPT ![a].state = "receipt_pending"])
  /\ UNCHANGED <<receipt, listed, lock, used, overlapped>>

\* promote_artifact, called when a face becomes a prototype: nothing exports.
Promote(t, a) ==
  /\ Asks(t) /\ Stored(a) /\ ~row[a].permanent
  /\ row' = [row EXCEPT ![a].permanent = TRUE]
  /\ changes' = changes + 1
  /\ UNCHANGED <<present, receipt, listed, lock, thread, overlapped>>

-----------------------------------------------------------------------------
(* apply_backup_receipt.                                                   *)

\* Mutant of Acceptable: a verified receipt is not compared.
AcceptableAny(body) == TRUE

\* Checksum and size of a verified receipt must be those of the artifact.
Acceptable(body) == body.state = "verified" => body.match

Posted == {body \in Receipt : body.state # "none" /\
                             (body.match => body.state = "verified")}

ReceiptReadsArtifact(t, a, body) ==
  /\ Asks(t) /\ Stored(a)
  /\ IF Acceptable(body)
     THEN thread' = [thread EXCEPT ![t] =
            [Idle EXCEPT !.pc = "receipt", !.art = a, !.body = body, !.rows = row]]
     ELSE UNCHANGED thread
  /\ overlapped' = IF \E u \in Handlers : thread[u].art = a
                   THEN overlapped \cup {a} ELSE overlapped
  /\ UNCHANGED <<present, row, receipt, changes, listed, lock>>

ReceiptReadsReceipt(t) ==
  /\ thread[t].pc = "receipt"
  /\ thread' = [thread EXCEPT ![t] =
       [@ EXCEPT !.pc = "commit", !.saw = receipt[thread[t].art]]]
  /\ UNCHANGED <<present, row, receipt, changes, listed, lock, used, overlapped>>

\* The new value of a column that was read as saw.
Column(now, saw, new) == IF new = saw THEN now ELSE new

\* A second insert for one artifact fails on its unique column.
ReceiptCommits(t) ==
  LET a    == thread[t].art
      body == thread[t].body
      saw  == thread[t].saw
      old  == thread[t].rows[a]
      ok   == body.state = "verified"
  IN  /\ thread[t].pc = "commit"
      /\ IF saw = NoReceipt /\ receipt[a] # NoReceipt
         THEN /\ thread' = [thread EXCEPT ![t] = Idle]
              /\ UNCHANGED <<row, receipt, changes>>
         ELSE /\ receipt' = [receipt EXCEPT ![a] =
                   [state |-> Column(receipt[a].state, saw.state, body.state),
                    match |-> Column(receipt[a].match, saw.match, body.match)]]
              /\ CommitRows(t, [row EXCEPT ![a] =
                   [state |-> IF ok
                              THEN Column(row[a].state, old.state, "verified")
                              ELSE row[a].state,
                    backup |-> Column(row[a].backup, old.backup, body.state),
                    permanent |-> row[a].permanent]])
      /\ UNCHANGED <<present, listed, lock, used, overlapped>>

-----------------------------------------------------------------------------
(* reconcile.                                                              *)

ReconcileReads ==
  /\ thread[Worker].pc = "idle"
  /\ thread' = [thread EXCEPT ![Worker] = [Idle EXCEPT !.pc = "look", !.rows = row]]
  /\ UNCHANGED <<present, row, receipt, changes, listed, lock, used, overlapped>>

ReconcileLooks ==
  /\ thread[Worker].pc = "look"
  /\ thread' = [thread EXCEPT ![Worker] =
       [@ EXCEPT !.pc = "reconcile", !.files = present]]
  /\ UNCHANGED <<present, row, receipt, changes, listed, lock, used, overlapped>>

\* Mutant of Reconciled: a file that came back is not noticed.
ReconciledOnce(now, old, exists) ==
  IF old.state # "absent" /\ ~exists THEN "missing" ELSE now.state

\* The state column of a row that was read as old.
Reconciled(now, old, exists) ==
  CASE old.state = "absent"                -> now.state
    [] ~exists /\ old.state # "missing"    -> "missing"
    [] exists /\ old.state = "missing"     ->
         IF old.backup = "verified" THEN "verified" ELSE "receipt_pending"
    [] OTHER                               -> now.state

ReconcileCommits ==
  LET w == thread[Worker]
  IN  /\ w.pc = "reconcile"
      /\ CommitRows(Worker, [a \in Artifacts |-> [row[a] EXCEPT !.state =
           Reconciled(row[a], w.rows[a], a \in w.files)]])
      /\ UNCHANGED <<present, receipt, listed, lock, used, overlapped>>

-----------------------------------------------------------------------------
(* export_manifest.                                                        *)

\* GET /internal/artifacts/manifest.
AskExport(t) ==
  /\ Asks(t)
  /\ thread' = [thread EXCEPT ![t] = [Idle EXCEPT !.pc = "lock"]]
  /\ UNCHANGED <<present, row, receipt, changes, listed, lock, overlapped>>

\* Mutants of ExportLocks: there is no lock; or whoever finds it taken leaves
\* the export to its holder.
ExportLocksNot(t) ==
  /\ thread[t].pc = "lock"
  /\ lock' = t
  /\ Goto(t, "read")
  /\ UNCHANGED <<present, row, receipt, changes, listed, used, overlapped>>

ExportLocksOrLeaves(t) ==
  /\ thread[t].pc = "lock"
  /\ IF lock = Nobody
     THEN lock' = t /\ Goto(t, "read")
     ELSE thread' = [thread EXCEPT ![t] = Idle] /\ UNCHANGED lock
  /\ UNCHANGED <<present, row, receipt, changes, listed, used, overlapped>>

ExportLocks(t) ==
  /\ thread[t].pc = "lock" /\ lock = Nobody
  /\ lock' = t
  /\ Goto(t, "read")
  /\ UNCHANGED <<present, row, receipt, changes, listed, used, overlapped>>

ExportReads(t) ==
  /\ thread[t].pc = "read"
  /\ thread' = [thread EXCEPT ![t] = [@ EXCEPT !.pc = "write", !.shows = changes]]
  /\ UNCHANGED <<present, row, receipt, changes, listed, lock, used, overlapped>>

\* The temporary file replaces the manifest; the caller answers.
ExportWrites(t) ==
  /\ thread[t].pc = "write"
  /\ listed' = thread[t].shows
  /\ lock' = Nobody
  /\ thread' = [thread EXCEPT ![t] = Idle]
  /\ UNCHANGED <<present, row, receipt, changes, used, overlapped>>

CountCrash ==
  /\ used.crashes < MaxCrashes
  /\ used' = [used EXCEPT !.crashes = @ + 1]

\* The disk is full, for instance: the error is logged or answered.
ExportFails(t) ==
  /\ thread[t].pc \in {"read", "write"} /\ CountCrash
  /\ lock' = Nobody
  /\ thread' = [thread EXCEPT ![t] = Idle]
  /\ UNCHANGED <<present, row, receipt, changes, listed, overlapped>>

-----------------------------------------------------------------------------
(* Files vanish and come back, and the process is restarted.               *)

Flip(a) ==
  /\ Stored(a) /\ used.flips < MaxFlips
  /\ used' = [used EXCEPT !.flips = @ + 1]
  /\ present' = IF a \in present THEN present \ {a} ELSE present \cup {a}
  /\ UNCHANGED <<row, receipt, changes, listed, lock, thread, overlapped>>

Crash ==
  /\ CountCrash
  /\ thread' = [t \in Threads |-> Idle]
  /\ lock' = Nobody
  /\ UNCHANGED <<present, row, receipt, changes, listed, overlapped>>

-----------------------------------------------------------------------------
Reconcile == ReconcileReads \/ ReconcileLooks \/ ReconcileCommits

Export(t) == ExportLocks(t) \/ ExportReads(t) \/ ExportWrites(t)

Ask(t) ==
  \/ AskExport(t)
  \/ \E a \in Artifacts :
       \/ Register(t, a) \/ Promote(t, a)
       \/ \E body \in Posted : ReceiptReadsArtifact(t, a, body)

Handle(t) == ReceiptReadsReceipt(t) \/ ReceiptCommits(t)

Next ==
  \/ Reconcile \/ Crash
  \/ \E t \in Handlers : Ask(t) \/ Handle(t)
  \/ \E t \in Threads : Export(t) \/ ExportFails(t)
  \/ \E a \in Artifacts : Flip(a)

Spec == Init /\ [][Next]_vars

\* The worker's loop goes on while the process lives, and so does a request
\* that was begun.  A thread that waits for the lock may lose it to others for
\* ever.
Fairness ==
  /\ WF_vars(Reconcile)
  /\ \A t \in Handlers : WF_vars(Handle(t))
  /\ \A t \in Threads : WF_vars(Export(t))

FairSpec == Spec /\ Fairness

-----------------------------------------------------------------------------
(* Properties.                                                             *)

\* A manifest never replaces a newer one, whoever exports at the same time.
ManifestGoesForward == [][listed' >= listed]_vars

\* When a request or a reconciliation ends without an error, the manifest file
\* shows what it committed.
AnsweredIsListed ==
  [][\A t \in Threads :
       thread[t].pc \in {"lock", "write"} /\ thread'[t].pc = "idle" /\ used' = used
         => listed' >= thread[t].mine]_vars

\* Unless receipts of one artifact were handled at the same time, the artifact
\* shows what its receipt says, and a verified receipt matches the artifact,
\* however reconciliation and promotions interleave.  (With the types.)
BackupAgrees ==
  /\ TypeOK
  /\ \A a \in Artifacts \ overlapped :
       receipt[a].state # "none" =>
         /\ row[a].backup = receipt[a].state
         /\ receipt[a].state = "verified" => receipt[a].match

\* Once files and requests rest, the rows marked missing are those without a
\* file, also when receipts overwrote what reconciliation found, and the
\* manifest shows the table.
MissingIsListed ==
  []<>(/\ listed = changes
       /\ \A a \in Artifacts :
            Stored(a) => (row[a].state = "missing" <=> a \notin present))
=============================================================================
