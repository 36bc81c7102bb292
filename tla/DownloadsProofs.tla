-------------------------- MODULE DownloadsProofs ---------------------------
(***************************************************************************)
(* Proofs about Downloads, for any downloads, lines, reports and faults:   *)
(* a download that is recorded as failed has its message.                  *)
(***************************************************************************)
EXTENDS Downloads, SequenceTheorems, TLAPS

\* Who is marked as announced, in a row that a transaction has read, has its
\* message.
Grounded(k, read) == read.notified => k \in announced

Told ==
  \A k \in Keys :
    /\ row[k].state = "failed" => k \in announced
    /\ Grounded(k, row[k])

\* A report with the row that was read for it.
Known(d) == d \in Looked /\ Grounded(d[1].key, d[2])

\* What the worker and the handler work with.
Sure ==
  /\ worker.pc # "idle" => worker.sig \in (0..MaxLines) \X BOOLEAN
  /\ worker.pc = "apply" => Known(worker.now)
  /\ \A d \in worker.done : Known(d)
  /\ handler # NoRequest =>
       handler.report \in Keys \X State /\ Grounded(handler.report[1], handler.read)

\* A line that is being written fits.
Room == torn => Len(journal) < MaxLines

IInv == TypeOK /\ Room /\ Told /\ Sure

-----------------------------------------------------------------------------
(* What a report writes.                                                   *)

\* The defaults of a row that is not there have the types of a row.
LEMMA NoRowType == NoRow \in Row /\ NoRow.notified = FALSE
  BY DEF NoRow, Row

\* A worker that begins, and no request, are well formed.
LEMMA IdleType == Idle \in Worker /\ Idle.pc = "idle" /\ Idle.done = {}
  BY DEF Idle, Worker

\* So is a handler without a request.
LEMMA NoRequestType == NoRequest \in Handler
  BY NoRowType DEF NoRequest, Handler

\* A report turns a row into a row, whatever was read before.
LEMMA MergedType ==
  ASSUME NEW now \in Row, NEW read \in Row, NEW state \in State
  PROVE  Merged(now, read, Recorded(state, read)) \in Row
<1> DEFINE new == Recorded(state, read)
           st == IF new.state = read.state THEN now.state ELSE new.state
           nt == IF new.notified = read.notified THEN now.notified ELSE new.notified
<1>1. now.notified \in BOOLEAN /\ read.notified \in BOOLEAN
  BY DEF Row
<1>2. CASE state = "failed"
  <2>1. new.state = state /\ new.notified = TRUE
    BY <1>2 DEF Recorded
  <2> QED BY <1>1, <2>1 DEF Merged, Row
<1>3. CASE state = "downloaded"
  <2>1. new.state = state /\ new.notified = FALSE
    BY <1>3 DEF Recorded
  <2> QED BY <1>1, <2>1 DEF Merged, Row
<1>4. CASE state = "retrying"
  <2>1. new.state = state /\ new.notified = read.notified
    BY <1>4 DEF Recorded
  <2> QED BY <1>1, <2>1 DEF Merged, Row
<1> QED BY <1>2, <1>3, <1>4 DEF State

\* A failure or mark that it leaves was in the row it writes over, or the row it
\* read was marked, or it announces the failure.
LEMMA MergedTold ==
  ASSUME NEW now \in Row, NEW read \in Row, NEW state \in State,
         LET new == Merged(now, read, Recorded(state, read))
         IN  new.state = "failed" \/ new.notified
  PROVE  now.state = "failed" \/ now.notified \/ read.notified \/ Announces(state, read)
<1>1. CASE state = "failed"
  BY <1>1 DEF Merged, Recorded, Announces, Row
<1>2. CASE state = "downloaded"
  BY <1>2 DEF Merged, Recorded, Announces, Row
<1>3. CASE state = "retrying"
  BY <1>3 DEF Merged, Recorded, Announces, Row
<1> QED BY <1>1, <1>2, <1>3 DEF State

\* The reports of a readable journal are well formed.
LEMMA ReportsType ==
  ASSUME TypeOK, ~Unreadable
  PROVE  Reports \subseteq Report
<1>1. Len(journal) \in Nat /\ Len(journal) <= MaxLines
  BY LenProperties DEF TypeOK
<1>2. \A i \in 1..Len(journal) : journal[i] \in Keys \X State
  BY ElementOfSeq DEF TypeOK, Unreadable, Line
<1>3. \A i \in 1..Len(journal) : journal[i][1] \in Keys /\ journal[i][2] \in State
  BY <1>2
<1>4. \A i \in 1..Len(journal) : i \in 1..MaxLines
  BY <1>1, DownloadsAssumption
<1> SUFFICES ASSUME NEW r \in Reports PROVE r \in Report
  OBVIOUS
<1>5. PICK p \in (1..Len(journal)) \X (1..Len(journal)) :
        r = [key |-> journal[p[1]][1], state |-> journal[p[1]][2],
             line |-> p[1], first |-> p[2]]
  BY DEF Reports
<1> QED BY <1>3, <1>4, <1>5 DEF Report

-----------------------------------------------------------------------------
(* The steps.                                                              *)

\* The initial states: no row, nothing read.
LEMMA IInvInit == Init => IInv
<1> SUFFICES ASSUME Init PROVE IInv
  OBVIOUS
<1>1. <<>> \in Seq(Line) /\ Len(<<>>) = 0
  OBVIOUS
<1>2. /\ row \in [Keys -> Row] /\ worker \in Worker /\ handler \in Handler
      /\ worker.done = {} /\ worker.pc = "idle"
  BY NoRowType, IdleType, NoRequestType DEF Init
<1>3. /\ applied \in [Keys -> 0..MaxLines] /\ MaxLines \in Nat
      /\ used \in [reports : 0..MaxReports, faults : 0..MaxFaults]
  BY DownloadsAssumption DEF Init
<1>4. TypeOK
  <2>1. journal \in Seq(Line) /\ Len(journal) <= MaxLines
    <3>1. journal = <<>>
      BY DEF Init
    <3> QED BY <1>1, <1>3, <3>1
  <2>2. /\ torn = FALSE /\ announced \subseteq Keys /\ alarms = {}
        /\ last = NoSignature /\ writing = FALSE
    BY DEF Init
  <2> QED BY <1>2, <1>3, <2>1, <2>2 DEF TypeOK
<1>5. Told
  BY NoRowType DEF Init, Told, Grounded, NoRow
<1>6. Sure
  BY <1>2 DEF Init, Sure
<1> QED BY <1>4, <1>5, <1>6 DEF IInv, Init, Room

\* The journal grows.
LEMMA FileStep ==
  ASSUME IInv, BeginLine \/ \E line \in Line : EndLine(line)
  PROVE  IInv'
<1>1. CASE BeginLine
  <2>1. TypeOK' /\ Room'
    BY <1>1 DEF IInv, TypeOK, BeginLine, table, Room
  <2> QED BY <1>1, <2>1 DEF IInv, Told, Sure, Known, Grounded, BeginLine, table
<1>2. ASSUME NEW line \in Line, EndLine(line) PROVE IInv'
  <2>1. /\ journal' \in Seq(Line) /\ Len(journal') = Len(journal) + 1
        /\ Len(journal) \in Nat
    BY <1>2 DEF IInv, TypeOK, EndLine
  <2>2. Len(journal') <= MaxLines
    BY <1>2, <2>1, DownloadsAssumption DEF IInv, Room, EndLine
  <2>3. TypeOK' /\ Room'
    BY <1>2, <2>1, <2>2 DEF IInv, TypeOK, EndLine, table, Room
  <2> QED BY <1>2, <2>3 DEF IInv, Told, Sure, Known, Grounded, EndLine, table
<1> QED BY <1>1, <1>2

\* A report by HTTP is read, and later written over whatever is there then.
LEMMA ReportStep ==
  ASSUME IInv, (\E k \in Posted, state \in State : ReportReads(k, state)) \/ ReportCommits
  PROVE  IInv'
<1>1. ASSUME NEW k \in Posted, NEW state \in State, ReportReads(k, state) PROVE IInv'
  <2>1. k \in Keys /\ row[k] \in Row
    BY DownloadsAssumption DEF IInv, TypeOK
  <2>2. /\ handler' \in Handler /\ handler'.report = <<k, state>>
        /\ handler'.read = row[k]
    BY <1>1, <2>1 DEF ReportReads, Handler
  <2>3. used' \in [reports : 0..MaxReports, faults : 0..MaxFaults]
    BY <1>1, DownloadsAssumption DEF IInv, TypeOK, ReportReads
  <2>4. TypeOK' /\ Room' /\ Told'
    BY <1>1, <2>2, <2>3
       DEF IInv, TypeOK, Room, Told, Grounded, ReportReads, file, table
  <2>5. Sure'
    BY <1>1, <2>1, <2>2 DEF IInv, Told, Sure, Known, Grounded, ReportReads, table
  <2> QED BY <2>4, <2>5 DEF IInv
<1>2. CASE ReportCommits
  <2> DEFINE k     == handler.report[1]
             state == handler.report[2]
             read  == handler.read
  <2>1. /\ k \in Keys /\ state \in State /\ read \in Row /\ row \in [Keys -> Row]
        /\ Grounded(k, read)
    BY <1>2 DEF IInv, TypeOK, Sure, Handler, ReportCommits
  <2>2. /\ handler' = NoRequest
        /\ UNCHANGED <<file, alarms, last, worker, writing, applied, used>>
    BY <1>2 DEF ReportCommits
  <2>3. CASE UNCHANGED table
    BY <2>2, <2>3, NoRequestType
       DEF IInv, TypeOK, Room, Told, Sure, Known, Grounded, file, table
  <2>4. CASE /\ row' = [row EXCEPT ![k] = Merged(@, read, Recorded(state, read))]
             /\ announced' = IF Announces(state, read)
                             THEN announced \cup {k} ELSE announced
    <3> DEFINE new == Merged(row[k], read, Recorded(state, read))
    <3>1. row' = [row EXCEPT ![k] = new] /\ new \in Row
      BY <2>1, <2>4, MergedType
    <3>2. announced \subseteq announced' /\ announced' \subseteq Keys
      BY <2>1, <2>4 DEF IInv, TypeOK
    <3>3. (new.state = "failed" => k \in announced') /\ (new.notified => k \in announced')
      BY <2>1, <2>4, <3>2, MergedTold DEF IInv, Told, Grounded
    <3> HIDE DEF new
    <3>4. Told'
      BY <2>1, <3>1, <3>2, <3>3 DEF IInv, Told, Grounded
    <3>5. TypeOK' /\ Room'
      BY <2>1, <2>2, <3>1, <3>2, NoRequestType DEF IInv, TypeOK, Room, file
    <3>6. Sure'
      BY <2>2, <3>2 DEF IInv, Sure, Known, Grounded
    <3> QED BY <3>4, <3>5, <3>6 DEF IInv
  <2> QED BY <1>2, <2>3, <2>4 DEF ReportCommits
<1> QED BY <1>1, <1>2

\* What a worker that begins anew leaves behind does no harm.
LEMMA BeginsAnew ==
  ASSUME IInv, worker' = Idle, writing' = FALSE, UNCHANGED <<file, table, applied>>,
         handler' \in {handler, NoRequest}, alarms' \subseteq (0..MaxLines) \X BOOLEAN,
         last' \in ((0..MaxLines) \X BOOLEAN) \cup {NoSignature},
         used' \in [reports : 0..MaxReports, faults : 0..MaxFaults]
  PROVE  IInv'
<1>1. TypeOK' /\ Room' /\ Told'
  BY IdleType, NoRequestType DEF IInv, TypeOK, Room, Told, Grounded, file, table
<1>2. Sure'
  BY IdleType DEF IInv, Sure, Grounded, table
<1> QED BY <1>1, <1>2 DEF IInv

\* Transactions that fail, and crashes.
LEMMA FaultStep ==
  ASSUME IInv, SyncFails \/ Crash
  PROVE  IInv'
<1>1. used' \in [reports : 0..MaxReports, faults : 0..MaxFaults]
  BY DownloadsAssumption DEF IInv, TypeOK, SyncFails, Crash, CountFault
<1> QED BY <1>1, BeginsAnew DEF IInv, TypeOK, SyncFails, Crash

\* The worker looks at the journal and reads it.
LEMMA JournalStep ==
  ASSUME IInv, Stat \/ Read \/ Alarm
  PROVE  IInv'
<1>1. Signature \in (0..MaxLines) \X BOOLEAN
  <2>1. Len(journal) \in 0..MaxLines
    BY LenProperties, DownloadsAssumption DEF IInv, TypeOK
  <2> QED BY <2>1 DEF IInv, TypeOK, Signature
<1>2. CASE Alarm
  <2>1. worker.sig \in (0..MaxLines) \X BOOLEAN /\ writing = FALSE
    BY <1>2 DEF IInv, TypeOK, Sure, Alarm
  <2> QED BY <1>2, <2>1, BeginsAnew DEF IInv, TypeOK, Alarm
<1>3. CASE Stat
  <2>1. /\ worker' \in Worker /\ worker'.pc = "read" /\ worker'.sig = Signature
        /\ worker'.done = {} /\ writing = FALSE
    BY <1>1, <1>3, IdleType DEF IInv, TypeOK, Worker, Stat
  <2> QED BY <1>1, <1>3, <2>1
          DEF IInv, TypeOK, Room, Told, Sure, Grounded, Stat, Rest, file, table
<1>4. CASE Read
  <2>1. /\ worker' \in Worker /\ worker'.pc \in {"alarm", "row"}
        /\ worker'.sig = worker.sig /\ worker'.done = worker.done /\ writing = FALSE
    BY <1>4, ReportsType DEF IInv, TypeOK, Worker, Read
  <2> QED BY <1>4, <2>1
          DEF IInv, TypeOK, Room, Told, Sure, Known, Grounded, Read, Rest, file, table
<1> QED BY <1>2, <1>3, <1>4

\* It reads a row for each report, and writes none before its commit.
LEMMA ApplyStep ==
  ASSUME IInv, ReadRow \/ Apply
  PROVE  IInv'
<1>1. CASE ReadRow
  <2>1. PICK r \in worker.todo :
          worker' = [worker EXCEPT !.pc = "apply", !.todo = @ \ {r},
                                   !.now = <<r, row[r.key]>>]
    BY <1>1 DEF ReadRow
  <2>2. /\ r \in Report /\ r.key \in Keys /\ row[r.key] \in Row
        /\ worker.todo \subseteq Report
    BY DEF IInv, TypeOK, Worker, Report
  <2> DEFINE d == <<r, row[r.key]>>
  <2>3. d \in Looked /\ d[1] = r /\ d[2] = row[r.key]
    BY <2>2 DEF Looked
  <2> HIDE DEF d
  <2>4. /\ worker' \in Worker /\ worker'.pc = "apply" /\ worker'.now = d
        /\ worker'.sig = worker.sig /\ worker'.done = worker.done
    BY <2>1, <2>2, <2>3 DEF IInv, TypeOK, Worker, d
  <2>5. Known(d)
    BY <2>2, <2>3 DEF IInv, Told, Known, Grounded
  <2>6. TypeOK' /\ Room' /\ Told'
    BY <1>1, <2>4 DEF IInv, TypeOK, Room, Told, Grounded, ReadRow, Rest, file, table
  <2>7. Sure'
    BY <1>1, <2>4, <2>5 DEF IInv, Sure, Known, Grounded, ReadRow, Rest, table
  <2> QED BY <2>6, <2>7 DEF IInv
<1>2. CASE Apply
  <2>1. CASE worker' = Idle /\ writing' = FALSE
    BY <1>2, <2>1, BeginsAnew DEF IInv, TypeOK, Apply
  <2>2. CASE /\ worker' = [worker EXCEPT
                  !.pc = IF worker.todo = {} THEN "commit" ELSE "row",
                  !.now = <<>>, !.done = @ \cup {worker.now}]
             /\ writing' \in BOOLEAN
    <3>1. Known(worker.now) /\ worker.now \in Looked
      BY <1>2 DEF IInv, Sure, Known, Apply
    <3>2. /\ worker' \in Worker /\ worker'.pc \in {"commit", "row"}
          /\ worker'.sig = worker.sig /\ worker'.done = worker.done \cup {worker.now}
      BY <2>2, <3>1 DEF IInv, TypeOK, Worker
    <3>3. TypeOK' /\ Room' /\ Told'
      BY <1>2, <2>2, <3>2 DEF IInv, TypeOK, Room, Told, Grounded, Apply, file, table
    <3>4. Sure'
      BY <1>2, <3>1, <3>2 DEF IInv, Sure, Known, Grounded, Apply, table
    <3> QED BY <3>3, <3>4 DEF IInv
  <2> QED BY <1>2, <2>1, <2>2 DEF Apply
<1> QED BY <1>1, <1>2

\* The commit of all reports: each is written over a row that may have changed.
LEMMA CommitStep ==
  ASSUME IInv, Commit
  PROVE  IInv'
<1> DEFINE Of(k) == {d \in worker.done : d[1].key = k}
           D(k)  == CHOOSE d \in Of(k) : TRUE
<1>1. \A d \in worker.done :
        /\ d[1] \in Report /\ d[2] \in Row /\ d[1].state \in State
        /\ d[1].key \in Keys /\ d[1].line \in 0..MaxLines
        /\ d[2].notified => d[1].key \in announced
  BY DownloadsAssumption DEF IInv, Sure, Known, Grounded, Looked, Report
<1>2. \A k \in Keys : Of(k) # {} => D(k) \in worker.done /\ D(k)[1].key = k
  OBVIOUS
<1> HIDE DEF D
<1>3. /\ row' = [k \in Keys |->
           IF Of(k) = {} THEN row[k]
           ELSE Merged(row[k], D(k)[2], Recorded(D(k)[1].state, D(k)[2]))]
      /\ applied' = [k \in Keys |-> IF Of(k) = {} THEN applied[k] ELSE D(k)[1].line]
      /\ announced' = announced \cup
           {d[1].key : d \in {e \in worker.done : Announces(e[1].state, e[2])}}
      /\ last' = worker.sig /\ worker' = Idle /\ writing' = FALSE
      /\ UNCHANGED <<file, alarms, handler, used>>
  BY DEF Commit, D
<1>4. /\ announced \subseteq announced' /\ announced' \subseteq Keys
      /\ \A d \in worker.done : Announces(d[1].state, d[2]) => d[1].key \in announced'
  BY <1>1, <1>3 DEF IInv, TypeOK
<1>5. row' \in [Keys -> Row] /\ applied' \in [Keys -> 0..MaxLines]
  BY <1>1, <1>2, <1>3, MergedType DEF IInv, TypeOK
<1>6. Told'
  <2> SUFFICES ASSUME NEW k \in Keys, row'[k].state = "failed" \/ row'[k].notified
               PROVE  k \in announced'
    BY DEF Told, Grounded
  <2>1. CASE Of(k) = {}
    BY <1>3, <1>4, <2>1 DEF IInv, Told, Grounded
  <2>2. CASE Of(k) # {}
    <3>1. D(k) \in worker.done /\ D(k)[1].key = k
      BY <1>2, <2>2
    <3>2. row'[k] = Merged(row[k], D(k)[2], Recorded(D(k)[1].state, D(k)[2]))
      BY <1>3, <2>2
    <3>3. \/ row[k].state = "failed" \/ row[k].notified
          \/ D(k)[2].notified \/ Announces(D(k)[1].state, D(k)[2])
      BY <1>1, <3>1, <3>2, MergedTold DEF IInv, TypeOK
    <3> QED BY <1>1, <1>4, <3>1, <3>3 DEF IInv, Told, Grounded
  <2> QED BY <2>1, <2>2
<1>7. TypeOK' /\ Room'
  BY <1>3, <1>4, <1>5, IdleType DEF IInv, TypeOK, Worker, Room, file
<1>8. Sure'
  BY <1>3, <1>4, IdleType DEF IInv, Sure, Grounded
<1> QED BY <1>6, <1>7, <1>8 DEF IInv

\* Every step keeps the invariant.
LEMMA IInvStep == IInv /\ [Next]_vars => IInv'
<1> SUFFICES ASSUME IInv, [Next]_vars PROVE IInv'
  OBVIOUS
<1>1. CASE UNCHANGED vars
  BY <1>1 DEF vars, file, table, IInv, TypeOK, Room, Told, Sure, Known, Grounded
<1> QED BY <1>1, FileStep, ReportStep, JournalStep, ApplyStep, CommitStep, FaultStep
        DEF Next, Sync

\* A download recorded as failed has its message, whatever journal, requests,
\* failing transactions and crashes do in between.
THEOREM FailuresAnnounced == Spec => []FailureIsAnnounced
<1>1. IInv => FailureIsAnnounced
  BY DEF IInv, Told, Grounded, FailureIsAnnounced
<1> QED BY <1>1, IInvInit, IInvStep, PTL DEF Spec
=============================================================================
