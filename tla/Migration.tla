----------------------------- MODULE Migration ------------------------------
(***************************************************************************)
(* doorlockctl migrate-media-names: the derived images of videos that the  *)
(* downloader has renamed get their new names, by a hard link and an       *)
(* unlink each, and one transaction then updates the rows that hold their  *)
(* paths.  A lock file, created exclusively, keeps two migrations apart;   *)
(* what fails before the commit is rolled back.                            *)
(*                                                                         *)
(* The service is stopped while this runs (docs/operations.md), so nobody  *)
(* else writes the rows.  A process that is killed leaves its lock file,   *)
(* and the operator restores the names by hand before removing it.  An     *)
(* interrupt (Ctrl-C) runs the finally clauses but not except Exception.   *)
(* The plan also verifies videos, receipts and checksums; here it refuses  *)
(* for its checks of names, or for any other reason.                       *)
(***************************************************************************)
EXTENDS Naturals, Sequences

CONSTANTS
  Images,    \* the images to rename; also their contents
  Procs,     \* migrations that may be started at the same time
  Nothing,   \* no file of that name
  Foreign,   \* a file that is not of the project
  MaxRuns,   \* bound on the migrations started
  MaxFaults  \* bound on failing calls, interrupts and kills

ASSUME MigrationAssumption ==
  /\ Nothing \notin Images /\ Foreign \notin Images /\ Nothing # Foreign
  /\ {MaxRuns, MaxFaults} \subseteq Nat

VARIABLES
  old,       \* what the old name of each image refers to
  new,       \* what its new name refers to
  migrated,  \* whether the rows hold the new names
  lock,      \* whether the lock file exists
  proc,      \* each migration: its place and local variables
  broken,    \* whether an interrupt or a failure during rollback has happened
  used       \* runs and faults so far, against their bounds

vars == <<old, new, migrated, lock, proc, broken, used>>

Renaming == {"link", "unlink", "sync"}
Undoing  == {"undo", "undounlink"}

PC == {"idle", "plan", "commit", "committed", "export", "verify", "end"}
        \cup Renaming \cup Undoing

\* todo: still to rename; done: renamed, in order (completed); item: linked but
\* not unlinked.
Proc == [pc : PC, todo : SUBSET Images, done : Seq(Images),
         item : Images \cup {Nothing}]

Idle == [pc |-> "idle", todo |-> {}, done |-> <<>>, item |-> Nothing]

TypeOK ==
  /\ old \in [Images -> Images \cup {Nothing, Foreign}]
  /\ new \in [Images -> Images \cup {Nothing, Foreign}]
  /\ {migrated, lock, broken} \subseteq BOOLEAN
  /\ proc \in [Procs -> Proc]
  /\ \A p \in Procs : proc[p].pc # "idle" => lock
  /\ \A p, q \in Procs : p # q /\ proc[p].pc # "idle" => proc[q].pc = "idle"
  /\ used \in [runs : 0..MaxRuns, faults : 0..MaxFaults]

Init ==
  /\ old = [i \in Images |-> i] /\ new = [i \in Images |-> Nothing]
  /\ migrated = FALSE /\ lock = FALSE /\ broken = FALSE
  /\ proc = [p \in Procs |-> Idle]
  /\ used = [runs |-> 0, faults |-> 0]

-----------------------------------------------------------------------------
Names == <<old, new>>

Goto(p, pc) == proc' = [proc EXCEPT ![p].pc = pc]

CountFault ==
  /\ used.faults < MaxFaults
  /\ used' = [used EXCEPT !.faults = @ + 1]

(* _migration_lock.                                                        *)

TakeLock(p) ==
  /\ proc[p].pc = "idle" /\ used.runs < MaxRuns
  /\ used' = [used EXCEPT !.runs = @ + 1]
  /\ IF lock THEN UNCHANGED <<lock, proc>> ELSE lock' = TRUE /\ Goto(p, "plan")
  /\ UNCHANGED <<Names, migrated, broken>>

End(p) ==
  /\ proc[p].pc = "end"
  /\ lock' = FALSE
  /\ proc' = [proc EXCEPT ![p] = Idle]
  /\ UNCHANGED <<Names, migrated, broken, used>>

-----------------------------------------------------------------------------
(* build_media_migration_plan.  Rows with new names are not in the plan.   *)

Renamable(i) == old[i] = i /\ new[i] = Nothing

Plan(p) ==
  /\ proc[p].pc = "plan"
  /\ \/ Goto(p, "end")
     \/ /\ \A i \in Images : migrated \/ Renamable(i)
        /\ proc' = [proc EXCEPT ![p] =
             [@ EXCEPT !.pc = "link", !.todo = IF migrated THEN {} ELSE Images]]
  /\ UNCHANGED <<Names, migrated, lock, broken, used>>

-----------------------------------------------------------------------------
(* _rename_images.                                                         *)

\* Mutant of Linked: the image is renamed over whatever is there.
LinkedOver(i) == new' = [new EXCEPT ![i] = old[i]]

\* Mutant of Linked: a file of the new name is taken for the link.
LinkedBefore(i) == new' = [new EXCEPT ![i] = IF @ = Nothing THEN old[i] ELSE @]

\* A hard link; there must be no file of the new name.
Linked(i) == new[i] = Nothing /\ new' = [new EXCEPT ![i] = old[i]]

Taken(p, i) ==
  proc' = [proc EXCEPT ![p].pc = "unlink", ![p].item = i, ![p].todo = @ \ {i}]

Link(p) ==
  /\ proc[p].pc = "link" /\ proc[p].todo # {}
  /\ \E i \in proc[p].todo :
       \/ Linked(i) /\ Taken(p, i)
       \/ /\ new[i] # Nothing
          /\ Goto(p, "undo") /\ UNCHANGED new
  /\ UNCHANGED <<old, migrated, lock, broken, used>>

Unlink(p) ==
  /\ proc[p].pc = "unlink"
  /\ LET i == proc[p].item
     IN  /\ old' = [old EXCEPT ![i] = Nothing]
         /\ proc' = [proc EXCEPT ![p].pc = "link", ![p].item = Nothing,
                                 ![p].done = Append(@, i)]
  /\ UNCHANGED <<new, migrated, lock, broken, used>>

AllRenamed(p) ==
  /\ proc[p].pc = "link" /\ proc[p].todo = {}
  /\ Goto(p, "sync")
  /\ UNCHANGED <<Names, migrated, lock, broken, used>>

SyncParents(p) ==
  /\ proc[p].pc = "sync"
  /\ Goto(p, "commit")
  /\ UNCHANGED <<Names, migrated, lock, broken, used>>

-----------------------------------------------------------------------------
(* migrate_media_names, after the renaming.                                *)

\* The transaction, and then the assignment of committed.
Commit(p) ==
  /\ proc[p].pc = "commit"
  /\ migrated' = TRUE
  /\ Goto(p, "committed")
  /\ UNCHANGED <<Names, lock, broken, used>>

Proceed(p, from, to) ==
  /\ proc[p].pc = from
  /\ Goto(p, to)
  /\ UNCHANGED <<Names, migrated, lock, broken, used>>

SetCommitted(p)    == Proceed(p, "committed", "export")
Export(p)          == Proceed(p, "export", "verify")
VerifyCompleted(p) == Proceed(p, "verify", "end")

-----------------------------------------------------------------------------
(* _rollback_images: the renamed images in reverse order.                  *)

Last(seq)  == seq[Len(seq)]
Front(seq) == SubSeq(seq, 1, Len(seq) - 1)

\* Nothing is left to undo.
Undone(p) ==
  /\ proc[p].pc = "undo" /\ proc[p].done = <<>>
  /\ Goto(p, "end")
  /\ UNCHANGED <<Names, migrated, lock, broken, used>>

\* Of an image that has both names, or only the new one, the old name is
\* restored if need be; the new one goes next.
Undo(p) ==
  /\ proc[p].pc = "undo" /\ proc[p].done # <<>>
  /\ LET i == Last(proc[p].done)
     IN  /\ old[i] \in {Nothing, new[i]}
         /\ old' = [old EXCEPT ![i] = new[i]]
  /\ Goto(p, "undounlink")
  /\ UNCHANGED <<new, migrated, lock, broken, used>>

\* Mutant of UndoUnlink: the rollback ends with the first image.
UndoUnlinkOnce(p) ==
  /\ proc[p].pc = "undounlink"
  /\ new' = [new EXCEPT ![Last(proc[p].done)] = Nothing]
  /\ proc' = [proc EXCEPT ![p] = [@ EXCEPT !.pc = "undo", !.done = <<>>]]
  /\ UNCHANGED <<old, migrated, lock, broken, used>>

UndoUnlink(p) ==
  /\ proc[p].pc = "undounlink"
  /\ new' = [new EXCEPT ![Last(proc[p].done)] = Nothing]
  /\ proc' = [proc EXCEPT ![p].pc = "undo", ![p].done = Front(@)]
  /\ UNCHANGED <<old, migrated, lock, broken, used>>

\* The names refer to different files.  (A renamed image has its new name for
\* as long as the migration runs: nobody else removes it, so the cases of a
\* missing new name do not come up.)
UndoConflicts(p) ==
  /\ proc[p].pc = "undo" /\ proc[p].done # <<>>
  /\ old[Last(proc[p].done)] \notin {Nothing, new[Last(proc[p].done)]}
  /\ broken' = TRUE
  /\ Goto(p, "end")
  /\ UNCHANGED <<Names, migrated, lock, used>>

-----------------------------------------------------------------------------
(* Failures, interrupts, kills, intruders and the operator.                *)

\* Mutant of AfterFailure: only the renaming is rolled back.
AfterFailureEarly(pc) ==
  IF pc \in Renaming THEN "undo" ELSE "end"

\* Where an exception leads: except Exception of _rename_images, finally of
\* migrate_media_names, or the end.
AfterFailure(pc) ==
  IF pc \in Renaming \cup {"commit"} THEN "undo" ELSE "end"

Fails(p) ==
  /\ proc[p].pc \in PC \ {"idle", "plan", "committed", "end"} /\ CountFault
  /\ broken' = (broken \/ proc[p].pc \in Undoing)
  /\ Goto(p, AfterFailure(proc[p].pc))
  /\ UNCHANGED <<Names, migrated, lock>>

\* An interrupt passes except Exception: a renaming under way is not undone,
\* and a commit not yet noted is taken for a failure.
Interrupted(p) ==
  /\ proc[p].pc \notin {"idle", "end"} /\ CountFault
  /\ broken' = TRUE
  /\ Goto(p, IF proc[p].pc \in {"commit", "committed"} THEN "undo" ELSE "end")
  /\ UNCHANGED <<Names, migrated, lock>>

\* The lock file stays.
Killed(p) ==
  /\ proc[p].pc # "idle" /\ CountFault
  /\ proc' = [proc EXCEPT ![p] = Idle]
  /\ UNCHANGED <<Names, migrated, lock, broken>>

\* A file of one of the names appears.
Intrude(i) ==
  /\ CountFault
  /\ \/ old[i] = Nothing /\ old' = [old EXCEPT ![i] = Foreign] /\ UNCHANGED new
     \/ new[i] = Nothing /\ new' = [new EXCEPT ![i] = Foreign] /\ UNCHANGED old
  /\ UNCHANGED <<migrated, lock, proc, broken>>

\* The operator compares names and rows, gives every image the name of its row
\* and no other, and removes the lock file.
Repair ==
  /\ \A p \in Procs : proc[p].pc = "idle"
  /\ lock \/ broken
  /\ old' = [i \in Images |-> IF migrated THEN Nothing ELSE i]
  /\ new' = [i \in Images |-> IF migrated THEN i ELSE Nothing]
  /\ lock' = FALSE /\ broken' = FALSE
  /\ UNCHANGED <<migrated, proc, used>>

-----------------------------------------------------------------------------
Rename(p) == Link(p) \/ Unlink(p) \/ AllRenamed(p) \/ SyncParents(p)

Finish(p) ==
  Commit(p) \/ SetCommitted(p) \/ Export(p) \/ VerifyCompleted(p) \/ End(p)

RollBack(p) ==
  Undone(p) \/ Undo(p) \/ UndoUnlink(p) \/ UndoConflicts(p)

Next ==
  \/ \E p \in Procs :
       \/ TakeLock(p) \/ Plan(p) \/ Rename(p) \/ Finish(p) \/ RollBack(p)
       \/ Fails(p) \/ Interrupted(p) \/ Killed(p)
  \/ \E i \in Images : Intrude(i)
  \/ Repair

Spec == Init /\ [][Next]_vars

-----------------------------------------------------------------------------
(* Properties.                                                             *)

\* Every image exists under one of its names at every moment, through kills,
\* interrupts and failing rollbacks.
ImagesExist == \A i \in Images : i \in {old[i], new[i]}

\* When no migration runs or was killed, every row names its image, unless an
\* interrupt or a failing rollback came in between.  (With the types, and that
\* two migrations never run at once.)
RowsNameImages ==
  /\ TypeOK
  /\ (\A p \in Procs : proc[p].pc = "idle") /\ ~lock /\ ~broken =>
       \A i \in Images : (IF migrated THEN new[i] ELSE old[i]) = i

\* A rollback that ends well before the migration is committed leaves every
\* image with its old name, and none with its new one but that whose old name
\* could not be removed.
RollbackRestores ==
  [][\A p \in Procs :
       proc[p].pc = "undo" /\ proc'[p].pc = "end" /\ ~broken' /\ ~migrated =>
         \A i \in Images :
           old'[i] = i /\ (new'[i] = i => i = proc[p].item)]_vars

\* A migration replaces no file that is not its own.
ForeignFilesStay ==
  [][(\E p \in Procs : proc[p].pc # "idle") =>
       \A i \in Images :
         /\ old[i] = Foreign => old'[i] = Foreign
         /\ new[i] = Foreign => new'[i] = Foreign]_vars
=============================================================================
