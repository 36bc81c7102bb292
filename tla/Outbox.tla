------------------------------- MODULE Outbox -------------------------------
(***************************************************************************)
(* The table outbox_messages of the recognition process and the functions  *)
(* of outbox.py that read and write it.                                    *)
(*                                                                         *)
(* A row is identified by its dedupe_key.  Every function of outbox.py     *)
(* runs in a session that reads its rows first and writes them at commit,  *)
(* and SQLite takes its write lock only at the first UPDATE: between the   *)
(* two another session may commit.  SQLAlchemy then writes the columns     *)
(* whose new value differs from the value READ, not from the value stored. *)
(* So every write below takes the stored row r and the row s that was read *)
(* (the snapshot), and leaves a column of r alone when the code assigned   *)
(* to it the value it already had in s.                                    *)
(*                                                                         *)
(* Timestamps are abstracted to what the queries compare: "lease" says     *)
(* whether lease_until is NULL, in the future or in the past, and "due"    *)
(* whether available_at has been reached.  A fresh timestamp differs from  *)
(* every older one, so it is always written.                               *)
(***************************************************************************)
EXTENDS Naturals, FiniteSets

CONSTANTS
  Keys,         \* the dedupe keys of the messages that may be enqueued
  Workers,      \* the worker names a bot may present
  NoWorker,     \* lease_owner IS NULL
  Priority,     \* the priority each key is enqueued with
  BatchLimit,   \* the limit of a claim (10 in api.ts)
  MaxAttempts   \* max_attempts of reject (12)

ASSUME OutboxAssumption ==
  /\ IsFiniteSet(Keys)
  /\ NoWorker \notin Workers
  /\ Priority \in [Keys -> Nat]
  /\ BatchLimit \in Nat \ {0}
  /\ MaxAttempts \in Nat \ {0}

VARIABLE row    \* the table, by dedupe_key

RowState == {"absent", "pending", "leased", "sent", "dead"}

Row == [state : RowState, owner : Workers \cup {NoWorker},
        lease : {"none", "running", "expired"}, due : BOOLEAN,
        attempts : Nat, born : Nat]

NoRow == [state |-> "absent", owner |-> NoWorker, lease |-> "none",
          due |-> FALSE, attempts |-> 0, born |-> 0]

InitRows == row = [m \in Keys |-> NoRow]

Stored(m) == row[m].state # "absent"

-----------------------------------------------------------------------------
(* enqueue: a key that has a row, whatever its state, gets no second one.  *)

\* Mutant of Enqueue: the dedupe_key is not looked up.
EnqueueAlways(m) ==
  row' = [row EXCEPT ![m] = [NoRow EXCEPT !.state = "pending", !.due = TRUE]]

Enqueue(m) ==
  /\ ~Stored(m)
  /\ row' = [row EXCEPT ![m] =
       [NoRow EXCEPT !.state = "pending", !.due = TRUE,
                     !.born = 1 + Cardinality({n \in Keys : Stored(n)})]]

-----------------------------------------------------------------------------
(* claim_messages: the claimable rows, highest priority first and oldest   *)
(* first within a priority, up to the limit.                               *)

\* Mutants of Claimable: expired leases are not taken over; or the lease alone
\* decides.
ClaimablePending(m) == row[m].state = "pending" /\ row[m].due

ClaimableUnleased(m) ==
  row[m].due /\ row[m].state # "dead" /\ row[m].lease # "running"

Claimable(m) ==
  /\ \/ row[m].state = "pending"
     \/ row[m].state = "leased" /\ row[m].lease = "expired"
  /\ row[m].due

Before(m, n) ==
  \/ Priority[m] > Priority[n]
  \/ Priority[m] = Priority[n] /\ row[m].born < row[n].born

ClaimBatch ==
  LET ready == {m \in Keys : Claimable(m)}
  IN  {m \in ready : Cardinality({n \in ready : Before(n, m)}) < BatchLimit}

Claimed(r, s, w) ==
  [r EXCEPT !.state    = IF s.state = "leased" THEN @ ELSE "leased",
            !.owner    = IF s.owner = w THEN @ ELSE w,
            !.lease    = "running",
            !.attempts = s.attempts + 1]

-----------------------------------------------------------------------------
(* acknowledge: TRUE for a row already sent, FALSE for another's lease.    *)

AckAccepted(s, w) == s.state = "sent" \/ s.owner = w

Acked(r, s) ==
  IF s.state = "sent" THEN r
  ELSE [r EXCEPT !.state = "sent",
                 !.owner = NoWorker,
                 !.lease = IF s.lease = "none" THEN @ ELSE "none"]

-----------------------------------------------------------------------------
(* reject: back to pending with a later available_at, or dead once the     *)
(* row has been claimed MaxAttempts times.                                 *)

RejectAccepted(s, w) == s.owner = w

\* Mutants of AfterReject: an attempt too early; or a state the table lacks.
AfterRejectEarly(s) ==
  IF s.attempts + 1 >= MaxAttempts THEN "dead" ELSE "pending"

AfterRejectRetry(s) == IF s.attempts >= MaxAttempts THEN "dead" ELSE "retry"

AfterReject(s) == IF s.attempts >= MaxAttempts THEN "dead" ELSE "pending"

Rejected(r, s) ==
  [r EXCEPT !.state = IF s.state = AfterReject(s) THEN @ ELSE AfterReject(s),
            !.owner = NoWorker,
            !.lease = IF s.lease = "none" THEN @ ELSE "none",
            !.due   = IF AfterReject(s) = "pending" THEN FALSE ELSE @]

-----------------------------------------------------------------------------
(* The passing of time, seen by one row.                                   *)

LeaseExpires(m) ==
  /\ row[m].lease = "running"
  /\ row' = [row EXCEPT ![m].lease = "expired"]

BackoffElapses(m) ==
  /\ Stored(m) /\ ~row[m].due
  /\ row' = [row EXCEPT ![m].due = TRUE]
=============================================================================
