----------------------------- MODULE Downloads ------------------------------
(***************************************************************************)
(* The table download_reports and its two sources: the journal that the    *)
(* downloader appends to and the worker of download_status.py reads, and   *)
(* the handler of POST /internal/download-reports.                         *)
(*                                                                         *)
(* The worker remembers size and mtime of the journal it read last, in     *)
(* memory only, and reads the whole file when they differ: the last line   *)
(* of each download counts.  All reports of one reading are one            *)
(* transaction.  It reads row after row; its first insert, of a row or of  *)
(* a message, takes SQLite's write lock, which it then holds to the end.   *)
(* Commits write the columns that differ from what was read (see Outbox).  *)
(*                                                                         *)
(* The journal only grows, so its number of lines, and whether its last    *)
(* line is still being written, stand for size and mtime.  A line is bad   *)
(* when any check of read_status_journal or _parse_report refuses it.      *)
(* Attempts, times and codes of a report are left out, and of the states   *)
(* discovered and retrying, which are treated alike, the second stands for *)
(* both.                                                                   *)
(***************************************************************************)
EXTENDS Naturals, Sequences

CONSTANTS
  Keys,        \* downloads (report_key, event_digest)
  Posted,      \* those that are also reported by HTTP
  Bad,         \* a line that is refused
  NoSignature,
  MaxLines,    \* bound on the lines of the journal
  MaxReports,  \* bound on reports by HTTP
  MaxFaults    \* bound on crashes and failing transactions

ASSUME DownloadsAssumption ==
  /\ Posted \subseteq Keys
  /\ Bad \notin Keys \X {"retrying", "downloaded", "failed"}
  /\ {MaxLines, MaxReports, MaxFaults} \subseteq Nat

VARIABLES
  journal,    \* the complete lines: <<key, state>> or Bad
  torn,       \* whether a further line is being written
  row,        \* download_reports, by key
  announced,  \* the downloads whose download-failed message exists
  alarms,     \* the signatures whose status-invalid message exists
  last,       \* _last_signature
  worker,     \* the worker's place and local variables
  writing,    \* whether the worker holds SQLite's write lock
  handler,    \* the request being handled
  applied,    \* the number of the journal line last committed for each key
  used        \* reports and faults so far, against their bounds

file  == <<journal, torn>>
table == <<row, announced>>
vars  == <<file, table, alarms, last, worker, writing, handler, applied, used>>

State == {"retrying", "downloaded", "failed"}

Row   == [state : State \cup {"none"}, notified : BOOLEAN]
NoRow == [state |-> "none", notified |-> FALSE]

Line == (Keys \X State) \cup {Bad}

Signature == <<Len(journal), torn>>

Report == [key : Keys, state : State, line : 1..MaxLines, first : 1..MaxLines]

\* todo: reports not yet looked up; now: the one that was, with the row read;
\* done: those before it.
Looked == Report \X Row

Worker == [pc : {"idle", "read", "alarm", "row", "apply", "commit"},
           sig : ((0..MaxLines) \X BOOLEAN) \cup {NoSignature},
           todo : SUBSET Report, now : Looked \cup {<<>>}, done : SUBSET Looked]

Idle == [pc |-> "idle", sig |-> NoSignature, todo |-> {}, now |-> <<>>,
         done |-> {}]

\* read: the row the handler read, when it has.
Handler == [report : (Keys \X State) \cup {<<>>}, read : Row]

NoRequest == [report |-> <<>>, read |-> NoRow]

TypeOK ==
  /\ journal \in Seq(Line) /\ Len(journal) <= MaxLines
  /\ torn \in BOOLEAN
  /\ row \in [Keys -> Row]
  /\ announced \subseteq Keys
  /\ alarms \subseteq (0..MaxLines) \X BOOLEAN
  /\ last \in ((0..MaxLines) \X BOOLEAN) \cup {NoSignature}
  /\ worker \in Worker
  /\ writing \in BOOLEAN
  /\ writing => worker.pc \in {"row", "apply", "commit"} /\ worker.done # {}
  /\ handler \in Handler
  /\ applied \in [Keys -> 0..MaxLines]
  /\ used \in [reports : 0..MaxReports, faults : 0..MaxFaults]

Init ==
  /\ journal = <<>> /\ torn = FALSE
  /\ row = [k \in Keys |-> NoRow]
  /\ announced = {} /\ alarms = {}
  /\ last = NoSignature
  /\ worker = Idle /\ writing = FALSE
  /\ handler = NoRequest
  /\ applied = [k \in Keys |-> 0]
  /\ used = [reports |-> 0, faults |-> 0]

-----------------------------------------------------------------------------
(* The downloader appends a line, in two writes or one.                    *)

BeginLine ==
  /\ ~torn /\ Len(journal) < MaxLines
  /\ torn' = TRUE
  /\ UNCHANGED <<journal, table, alarms, last, worker, writing, handler, applied, used>>

EndLine(line) ==
  /\ torn
  /\ torn' = FALSE /\ journal' = Append(journal, line)
  /\ UNCHANGED <<table, alarms, last, worker, writing, handler, applied, used>>

-----------------------------------------------------------------------------
(* record_status_report.                                                   *)

Announces(state, read) == state = "failed" /\ ~read.notified

\* The row as the report leaves it, of one that was read.
Recorded(state, read) ==
  [state    |-> state,
   notified |-> CASE state = "failed"     -> TRUE
                  [] state = "downloaded" -> FALSE
                  [] OTHER                -> read.notified]

\* The columns that differ from what was read.
Merged(now, read, new) ==
  [state    |-> IF new.state = read.state THEN now.state ELSE new.state,
   notified |-> IF new.notified = read.notified THEN now.notified
                ELSE new.notified]

\* The row is inserted although somebody inserted it since: its key is unique.
Conflicts(key, read) == read = NoRow /\ row[key] # NoRow

-----------------------------------------------------------------------------
(* POST /internal/download-reports.                                        *)

\* Mutant of ReportCommits: the message goes out only with a new row.
ReportCommitsQuietly ==
  LET k     == handler.report[1]
      state == handler.report[2]
      read  == handler.read
  IN  /\ handler # NoRequest /\ ~writing
      /\ IF Conflicts(k, read) THEN UNCHANGED table
         ELSE /\ row' = [row EXCEPT ![k] = Merged(@, read, Recorded(state, read))]
              /\ announced' = IF state = "failed" /\ read = NoRow
                              THEN announced \cup {k} ELSE announced
      /\ handler' = NoRequest
      /\ UNCHANGED <<file, alarms, last, worker, writing, applied, used>>

ReportReads(k, state) ==
  /\ handler = NoRequest /\ used.reports < MaxReports
  /\ used' = [used EXCEPT !.reports = @ + 1]
  /\ handler' = [report |-> <<k, state>>, read |-> row[k]]
  /\ UNCHANGED <<file, table, alarms, last, worker, writing, applied>>

ReportCommits ==
  LET k     == handler.report[1]
      state == handler.report[2]
      read  == handler.read
  IN  /\ handler # NoRequest /\ ~writing
      /\ IF Conflicts(k, read) THEN UNCHANGED table
         ELSE /\ row' = [row EXCEPT ![k] = Merged(@, read, Recorded(state, read))]
              /\ announced' = IF Announces(state, read)
                              THEN announced \cup {k} ELSE announced
      /\ handler' = NoRequest
      /\ UNCHANGED <<file, alarms, last, worker, writing, applied, used>>

-----------------------------------------------------------------------------
(* sync.                                                                   *)

Rest == <<file, table, alarms, last, writing, handler, applied, used>>

\* Mutant of Stat: the size and mtime remembered are those after the reading.
StatLate ==
  /\ worker.pc = "idle"
  /\ journal # <<>> \/ torn
  /\ Signature # last
  /\ last' = Signature
  /\ worker' = [Idle EXCEPT !.pc = "read", !.sig = Signature]
  /\ UNCHANGED <<file, table, alarms, writing, handler, applied, used>>

\* The size and mtime to remember are taken before the file is read.
Stat ==
  /\ worker.pc = "idle"
  /\ journal # <<>> \/ torn
  /\ Signature # last
  /\ worker' = [Idle EXCEPT !.pc = "read", !.sig = Signature]
  /\ UNCHANGED Rest

\* The last line of every key, and where the key appears first.
Reports ==
  LET lines == 1..Len(journal)
      key(i) == journal[i][1]
      Ends(i, j) == /\ key(i) = key(j)
                    /\ \A n \in lines : key(n) = key(i) => j <= n /\ n <= i
  IN  {[key |-> key(p[1]), state |-> journal[p[1]][2], line |-> p[1], first |-> p[2]] :
         p \in {q \in lines \X lines : Ends(q[1], q[2])}}

Unreadable == torn \/ \E i \in 1..Len(journal) : journal[i] = Bad

Read ==
  /\ worker.pc = "read"
  /\ worker' = IF Unreadable THEN [worker EXCEPT !.pc = "alarm"]
               ELSE [worker EXCEPT !.pc = "row", !.todo = Reports]
  /\ UNCHANGED Rest

Alarm ==
  /\ worker.pc = "alarm"
  /\ alarms' = alarms \cup {worker.sig}
  /\ last' = worker.sig
  /\ worker' = Idle
  /\ UNCHANGED <<file, table, writing, handler, applied, used>>

\* The reports are taken in the order in which their keys first appear.
ReadRow ==
  /\ worker.pc = "row"
  /\ \E r \in worker.todo :
       /\ \A q \in worker.todo : r.first <= q.first
       /\ worker' = [worker EXCEPT !.pc = "apply", !.todo = @ \ {r},
                                   !.now = <<r, row[r.key]>>]
  /\ UNCHANGED Rest

\* A row or a message is inserted at once, unless the row has come to exist:
\* then the whole transaction is undone.
Apply ==
  LET r      == worker.now[1]
      read   == worker.now[2]
      insert == read = NoRow \/ Announces(r.state, read)
  IN  /\ worker.pc = "apply"
      /\ IF insert /\ Conflicts(r.key, read)
         THEN worker' = Idle /\ writing' = FALSE
         ELSE /\ worker' = [worker EXCEPT
                   !.pc = IF worker.todo = {} THEN "commit" ELSE "row",
                   !.now = <<>>, !.done = @ \cup {worker.now}]
              /\ writing' = (writing \/ insert)
      /\ UNCHANGED <<file, table, alarms, last, handler, applied, used>>

Commit ==
  LET of(k) == {d \in worker.done : d[1].key = k}
  IN  /\ worker.pc = "commit"
      /\ row' = [k \in Keys |->
           IF of(k) = {} THEN row[k]
           ELSE LET d == CHOOSE d \in of(k) : TRUE
                IN  Merged(row[k], d[2], Recorded(d[1].state, d[2]))]
      /\ announced' = announced \cup
           {d[1].key : d \in {e \in worker.done : Announces(e[1].state, e[2])}}
      /\ applied' = [k \in Keys |->
           IF of(k) = {} THEN applied[k] ELSE (CHOOSE d \in of(k) : TRUE)[1].line]
      /\ last' = worker.sig
      /\ worker' = Idle /\ writing' = FALSE
      /\ UNCHANGED <<file, alarms, handler, used>>

-----------------------------------------------------------------------------
(* Faults.                                                                 *)

CountFault ==
  /\ used.faults < MaxFaults
  /\ used' = [used EXCEPT !.faults = @ + 1]

\* The database is locked too long, for instance: run logs it and goes on.
SyncFails ==
  /\ worker.pc \in {"alarm", "apply", "commit"} /\ CountFault
  /\ worker' = Idle /\ writing' = FALSE
  /\ UNCHANGED <<file, table, alarms, last, handler, applied>>

Crash ==
  /\ CountFault
  /\ worker' = Idle /\ writing' = FALSE
  /\ last' = NoSignature
  /\ handler' = NoRequest
  /\ UNCHANGED <<file, table, alarms, applied>>

-----------------------------------------------------------------------------
Sync == Stat \/ Read \/ Alarm \/ ReadRow \/ Apply \/ Commit

Next ==
  \/ BeginLine \/ \E line \in Line : EndLine(line)
  \/ \E k \in Posted, state \in State : ReportReads(k, state)
  \/ ReportCommits
  \/ Sync \/ SyncFails \/ Crash

Spec == Init /\ [][Next]_vars

\* The worker's loop goes on while the process lives.
FairSpec == Spec /\ WF_vars(Sync)

-----------------------------------------------------------------------------
(* Properties.                                                             *)

\* A download that is recorded as failed has its message in the outbox, also
\* when journal and HTTP report the same download at the same time, or two
\* reports of one transaction fail.  (With the types.)
FailureIsAnnounced ==
  /\ TypeOK
  /\ \A k \in Keys :
       row[k].state = "failed" \/ row[k].notified => k \in announced

\* A journal that stays as it is gets applied to its last line when it is
\* readable and announced when it is not, whatever was appended while it was
\* read and whatever failed or crashed.
JournalIsApplied ==
  []<>(IF Unreadable THEN Signature \in alarms
       ELSE \A r \in Reports : applied[r.key] = r.line)
=============================================================================
