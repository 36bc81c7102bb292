-------------------------- MODULE ArtifactsProofs ---------------------------
(***************************************************************************)
(* Proofs about Artifacts, for any artifacts, threads, requests, faults:   *)
(* the manifest never goes back, who is answered finds his change in it,   *)
(* and rows and receipts agree unless two receipts overlap.                *)
(***************************************************************************)
EXTENDS Artifacts, TLAPS

\* What a thread exports is newer than the manifest and than what it committed.
Newer(t) ==
  /\ thread[t].mine <= changes
  /\ thread[t].pc = "write" => thread[t].shows \in listed..changes
                               /\ thread[t].mine <= thread[t].shows

Handling(t) == thread[t].pc \in {"receipt", "commit"}

\* A handler of a receipt that meets no other of its artifact writes over what
\* it read.
Alone(t) ==
  LET a == thread[t].art
  IN  /\ ~Handling(t) => a = Nobody
      /\ Handling(t) =>
           /\ a \in Artifacts /\ Acceptable(thread[t].body)
           /\ thread[t].body.state # "none"
           /\ a \notin overlapped =>
                /\ thread[t].rows[a].backup = row[a].backup
                /\ thread[t].pc = "commit" => thread[t].saw = receipt[a]

\* Who meets another is noted.
Noted ==
  \A t, u \in Handlers :
    thread[t].art = thread[u].art /\ thread[t].art # Nobody =>
      t = u \/ thread[t].art \in overlapped

IInv ==
  /\ BackupAgrees /\ Noted
  /\ \A t \in Threads : Newer(t)
  /\ \A t \in Handlers : Alone(t)

-----------------------------------------------------------------------------
(* Types.                                                                  *)

\* The empty row, the empty receipt and a thread at rest are well formed.
LEMMA Defaults ==
  /\ NoRow \in Row /\ NoReceipt \in Receipt
  /\ Idle \in Thread /\ Idle.pc = "idle" /\ Idle.art = Nobody /\ Idle.mine = 0
<1>1. NoRow \in Row /\ NoReceipt \in Receipt
  BY DEF NoRow, Row, NoReceipt, Receipt, Outcome
<1> QED BY <1>1 DEF Idle, NoRows, Thread, PC

\* A commit leaves a well-formed table, and a thread that exports next.
LEMMA CommitType ==
  ASSUME TypeOK, NEW t \in Threads, thread[t].pc \notin {"read", "write"},
         NEW new \in [Artifacts -> Row], CommitRows(t, new)
  PROVE  /\ row' = new /\ changes' \in Nat /\ changes <= changes'
         /\ thread' \in [Threads -> Thread]
         /\ thread'[t].pc = "lock" /\ thread'[t].mine = changes'
         /\ thread'[t].art = Nobody
         /\ \A u \in Threads \ {t} : thread'[u] = thread[u]
<1> DEFINE n == IF new = row THEN changes ELSE changes + 1
           x == [Idle EXCEPT !.pc = "lock", !.mine = n]
<1>1. n \in Nat /\ changes <= n
  BY DEF TypeOK
<1>2. x \in Thread /\ x.pc = "lock" /\ x.mine = n /\ x.art = Nobody
  BY <1>1, Defaults DEF Thread, PC
<1>3. row' = new /\ changes' = n /\ thread' = [thread EXCEPT ![t] = x]
  BY DEF CommitRows
<1> HIDE DEF n, x
<1> QED BY <1>1, <1>2, <1>3 DEF TypeOK

-----------------------------------------------------------------------------
(* The steps.                                                              *)

\* The initial states: nothing at work, and rows that say what their receipts do.
LEMMA IInvInit == Init => IInv
<1> SUFFICES ASSUME Init PROVE IInv
  OBVIOUS
<1> DEFINE Failed   == [state |-> "failed", match |-> FALSE]
           Verified == [state |-> "verified", match |-> TRUE]
<1>1. /\ receipt \in [Artifacts -> {NoReceipt, Failed, Verified}]
      /\ row = [a \in Artifacts |->
            IF receipt[a] = NoReceipt THEN NoRow
            ELSE [state |-> IF receipt[a].match THEN "verified" ELSE "receipt_pending",
                  backup |-> receipt[a].state, permanent |-> FALSE]]
  BY DEF Init
<1>2. ASSUME NEW a \in Artifacts
      PROVE  /\ row[a] \in Row /\ receipt[a] \in Receipt
             /\ receipt[a].state # "none" => row[a].backup = receipt[a].state
             /\ receipt[a].state = "verified" => receipt[a].match
  <2>1. CASE receipt[a] = NoReceipt
    BY <1>1, <2>1, Defaults DEF NoReceipt
  <2>2. CASE receipt[a] = Failed
    <3>1. /\ Failed.state = "failed" /\ ~Failed.match
          /\ Failed \in Receipt /\ Failed # NoReceipt
      BY DEF NoReceipt, Receipt, Outcome
    <3>2. row[a] = [state |-> "receipt_pending", backup |-> "failed", permanent |-> FALSE]
      <4> HIDE DEF Failed, Verified
      <4> QED BY <1>1, <2>2, <3>1, Zenon
    <3>3. row[a] \in Row /\ row[a].backup = "failed"
      BY <3>2 DEF Row, Outcome
    <3> HIDE DEF Failed, Verified
    <3> QED BY <2>2, <3>1, <3>3
  <2>3. CASE receipt[a] = Verified
    <3>1. /\ Verified.state = "verified" /\ Verified.match
          /\ Verified \in Receipt /\ Verified # NoReceipt
      BY DEF NoReceipt, Receipt, Outcome
    <3>2. row[a] = [state |-> "verified", backup |-> "verified", permanent |-> FALSE]
      <4> HIDE DEF Failed, Verified
      <4> QED BY <1>1, <2>3, <3>1, Zenon
    <3>3. row[a] \in Row /\ row[a].backup = "verified"
      BY <3>2 DEF Row, Outcome
    <3> HIDE DEF Failed, Verified
    <3> QED BY <2>3, <3>1, <3>3
  <2> QED BY <1>1, <2>1, <2>2, <2>3
<1>3. row \in [Artifacts -> Row] /\ receipt \in [Artifacts -> Receipt]
  BY <1>1, <1>2
<1>4. /\ thread \in [Threads -> Thread]
      /\ \A t \in Threads : /\ thread[t].pc = "idle" /\ thread[t].mine = 0
                            /\ thread[t].art = Nobody /\ t # Nobody
  BY Defaults, ArtifactsAssumption DEF Init, Threads
<1>5. used \in [requests : 0..MaxRequests, flips : 0..MaxFlips, crashes : 0..MaxCrashes]
  <2>1. used = [requests |-> 0, flips |-> 0, crashes |-> 0]
    BY DEF Init
  <2> QED BY <2>1, ArtifactsAssumption
<1>6. TypeOK
  <2>1. present \subseteq Artifacts /\ overlapped \subseteq Artifacts
    BY DEF Init
  <2>2. changes = 0 /\ listed = 0 /\ lock = Nobody
    BY DEF Init
  <2> QED BY <1>3, <1>4, <1>5, <2>1, <2>2 DEF TypeOK
<1>7. BackupAgrees
  BY <1>2, <1>6 DEF BackupAgrees
<1>8. \A t \in Threads : Newer(t)
  BY <1>4, <1>6 DEF Newer, TypeOK
<1>9. Noted /\ \A t \in Handlers : Alone(t)
  BY <1>4 DEF Noted, Alone, Handling, Threads
<1> QED BY <1>7, <1>8, <1>9 DEF IInv

\* A commit that changes no backup column, by a thread that handles no receipt.
LEMMA CommitKeeps ==
  ASSUME IInv, NEW t \in Threads, thread[t].pc \notin {"read", "write"},
         NEW new \in [Artifacts -> Row], CommitRows(t, new),
         \A a \in Artifacts : new[a].backup = row[a].backup,
         present' \subseteq Artifacts, UNCHANGED <<receipt, listed, lock, used, overlapped>>
  PROVE  IInv'
<1>1. TypeOK
  BY DEF IInv, BackupAgrees
<1>2. /\ row' = new /\ changes' \in Nat /\ changes <= changes'
      /\ thread' \in [Threads -> Thread]
      /\ thread'[t].pc = "lock" /\ thread'[t].mine = changes'
      /\ thread'[t].art = Nobody
      /\ \A u \in Threads \ {t} : thread'[u] = thread[u]
  BY <1>1, CommitType
<1>3. listed \in 0..changes' /\ changes \in Nat
  BY <1>1, <1>2 DEF TypeOK
<1>4. TypeOK'
  BY <1>1, <1>2, <1>3 DEF TypeOK
<1>5. BackupAgrees'
  BY <1>2, <1>4 DEF IInv, BackupAgrees
<1>6. ASSUME NEW u \in Threads PROVE Newer(u)'
  <2>1. /\ Newer(u) /\ changes \in Nat /\ listed \in Nat /\ thread[u].mine \in Nat
        /\ thread[u].shows \in Nat
    BY <1>1 DEF IInv, TypeOK, Thread
  <2>2. CASE u = t
    BY <1>2, <2>2 DEF Newer
  <2>3. CASE u # t
    <3>1. thread'[u] = thread[u] /\ listed' = listed /\ changes' \in Nat /\ changes <= changes'
      BY <1>2, <2>3
    <3> QED BY <2>1, <3>1 DEF Newer
  <2> QED BY <2>2, <2>3
<1>7. Noted'
  BY <1>2 DEF IInv, Noted, Threads
<1>8. ASSUME NEW u \in Handlers PROVE Alone(u)'
  BY <1>2 DEF IInv, Alone, Handling, Threads
<1> QED BY <1>5, <1>6, <1>7, <1>8 DEF IInv

\* A thread that goes on outside of an export, with the changes it knows of.
LEMMA GoesOn ==
  ASSUME IInv, NEW t \in Threads, NEW x \in Thread, thread' = [thread EXCEPT ![t] = x],
         thread[t].pc \notin {"read", "write"}, x.pc \notin {"read", "write"},
         x.mine <= changes, t \in Handlers => Alone(t)', Noted',
         overlapped \subseteq overlapped', overlapped' \subseteq Artifacts,
         used' \in [requests : 0..MaxRequests, flips : 0..MaxFlips, crashes : 0..MaxCrashes],
         UNCHANGED <<present, row, receipt, changes, listed, lock>>
  PROVE  IInv'
<1>1. /\ thread' \in [Threads -> Thread] /\ thread'[t] = x
      /\ \A u \in Threads \ {t} : thread'[u] = thread[u]
  BY DEF IInv, BackupAgrees, TypeOK
<1>2. TypeOK'
  BY <1>1 DEF IInv, BackupAgrees, TypeOK
<1>3. BackupAgrees'
  BY <1>2 DEF IInv, BackupAgrees
<1>4. ASSUME NEW u \in Threads PROVE Newer(u)'
  BY <1>1 DEF IInv, Newer
<1>5. ASSUME NEW u \in Handlers PROVE Alone(u)'
  BY <1>1 DEF IInv, Alone, Handling, Threads
<1> QED BY <1>3, <1>4, <1>5 DEF IInv

\* What a thread that takes part in no receipt leaves in Noted and Alone.
LEMMA NoReceiptKeeps ==
  ASSUME IInv, NEW t \in Threads, NEW x \in Thread, thread' = [thread EXCEPT ![t] = x],
         x.art = Nobody, x.pc \notin {"receipt", "commit"}, overlapped' = overlapped
  PROVE  Noted' /\ Alone(t)'
<1>1. /\ thread'[t] = x /\ \A u \in Threads \ {t} : thread'[u] = thread[u]
  BY DEF IInv, BackupAgrees, TypeOK
<1> QED BY <1>1 DEF IInv, Noted, Alone, Handling, Threads

\* Registrations, promotions and requests for an export.
LEMMA AskStep ==
  ASSUME IInv, NEW t \in Handlers,
         \/ AskExport(t)
         \/ \E a \in Artifacts : Register(t, a) \/ Promote(t, a)
  PROVE  IInv'
<1>1. TypeOK /\ t \in Threads
  BY DEF IInv, BackupAgrees, Threads
<1>2. Asks(t) =>
        used' \in [requests : 0..MaxRequests, flips : 0..MaxFlips, crashes : 0..MaxCrashes]
  BY <1>1, ArtifactsAssumption DEF TypeOK, Asks
<1>3. CASE AskExport(t)
  <2> DEFINE x == [Idle EXCEPT !.pc = "lock"]
  <2>1. /\ x \in Thread /\ x.pc = "lock" /\ x.art = Nobody /\ x.mine = 0
    BY Defaults DEF Thread, PC
  <2>2. /\ thread' = [thread EXCEPT ![t] = x] /\ thread[t].pc = "idle" /\ Asks(t)
        /\ UNCHANGED <<present, row, receipt, changes, listed, lock, overlapped>>
    BY <1>3 DEF AskExport, Asks, Free
  <2> HIDE DEF x
  <2>3. Noted' /\ Alone(t)'
    BY <1>1, <2>1, <2>2, NoReceiptKeeps
  <2>4. x.mine <= changes
    BY <1>1, <2>1 DEF TypeOK
  <2> QED BY <1>1, <1>2, <2>1, <2>2, <2>3, <2>4, GoesOn DEF TypeOK
<1>4. ASSUME NEW a \in Artifacts, Register(t, a) PROVE IInv'
  <2> DEFINE new == [row EXCEPT ![a].state = "receipt_pending"]
  <2>1. /\ new \in [Artifacts -> Row] /\ \A b \in Artifacts : new[b].backup = row[b].backup
    BY <1>1 DEF TypeOK, Row
  <2>2. /\ CommitRows(t, new) /\ thread[t].pc = "idle" /\ present' \subseteq Artifacts
        /\ UNCHANGED <<receipt, listed, lock, used, overlapped>>
    BY <1>1, <1>4 DEF Register, Free, TypeOK
  <2> HIDE DEF new
  <2> QED BY <1>1, <2>1, <2>2, CommitKeeps
<1>5. ASSUME NEW a \in Artifacts, Promote(t, a) PROVE IInv'
  <2>1. /\ row' \in [Artifacts -> Row]
        /\ \A b \in Artifacts : row'[b].backup = row[b].backup
    <3>1. row' = [row EXCEPT ![a].permanent = TRUE] /\ row \in [Artifacts -> Row]
      BY <1>1, <1>5 DEF Promote, TypeOK
    <3> QED BY <3>1 DEF Row
  <2>2. changes' \in Nat /\ changes \in Nat /\ changes <= changes' /\ listed \in 0..changes'
    BY <1>1, <1>5 DEF Promote, TypeOK
  <2>3. TypeOK'
    BY <1>1, <1>2, <1>5, <2>1, <2>2 DEF Promote, TypeOK
  <2>4. BackupAgrees' /\ Noted'
    BY <1>5, <2>1, <2>3 DEF Promote, IInv, BackupAgrees, Noted
  <2>5. ASSUME NEW u \in Threads PROVE Newer(u)'
    BY <1>1, <1>5, <2>2 DEF Promote, IInv, Newer, TypeOK, Thread
  <2>6. ASSUME NEW u \in Handlers PROVE Alone(u)'
    BY <1>5, <2>1 DEF Promote, IInv, Alone, Handling
  <2> QED BY <2>4, <2>5, <2>6 DEF IInv
<1> QED BY <1>3, <1>4, <1>5

\* A receipt reads the artifact: if another of the same artifact is handled, it
\* is noted.
LEMMA ReadArtifactStep ==
  ASSUME IInv, NEW t \in Handlers, NEW a \in Artifacts, NEW body \in Posted,
         ReceiptReadsArtifact(t, a, body)
  PROVE  IInv'
<1>1. /\ TypeOK /\ t \in Threads /\ thread[t].pc = "idle" /\ thread[t].art = Nobody
      /\ body \in Receipt /\ body.state # "none" /\ a # Nobody
  BY ArtifactsAssumption
     DEF IInv, BackupAgrees, Threads, Alone, Handling, ReceiptReadsArtifact, Asks, Free, Posted
<1>2. /\ used' \in [requests : 0..MaxRequests, flips : 0..MaxFlips, crashes : 0..MaxCrashes]
      /\ overlapped \subseteq overlapped' /\ overlapped' \subseteq Artifacts
      /\ UNCHANGED <<present, row, receipt, changes, listed, lock>>
  BY <1>1, ArtifactsAssumption DEF TypeOK, ReceiptReadsArtifact, Asks
<1>3. CASE ~Acceptable(body)
  <2>1. UNCHANGED thread
    BY <1>3 DEF ReceiptReadsArtifact
  <2>2. TypeOK'
    BY <1>1, <1>2, <2>1 DEF TypeOK
  <2> QED BY <1>2, <2>1, <2>2 DEF IInv, BackupAgrees, Noted, Newer, Alone, Handling
<1>4. CASE Acceptable(body)
  <2> DEFINE x == [Idle EXCEPT !.pc = "receipt", !.art = a, !.body = body, !.rows = row]
  <2>1. /\ x \in Thread /\ x.pc = "receipt" /\ x.art = a /\ x.mine = 0
        /\ x.rows = row /\ x.body = body
    BY <1>1, Defaults DEF Thread, PC, TypeOK
  <2>2. /\ thread' = [thread EXCEPT ![t] = x]
        /\ overlapped' = IF \E u \in Handlers : thread[u].art = a
                         THEN overlapped \cup {a} ELSE overlapped
    BY <1>4 DEF ReceiptReadsArtifact
  <2> HIDE DEF x
  <2>3. thread'[t] = x /\ \A u \in Threads \ {t} : thread'[u] = thread[u]
    BY <1>1, <2>2 DEF TypeOK
  <2>4. Alone(t)'
    BY <1>1, <1>2, <1>4, <2>1, <2>3 DEF Alone, Handling
  <2>5. Noted'
    BY <1>1, <1>2, <2>1, <2>2, <2>3 DEF IInv, Noted, Threads
  <2>6. x.mine <= changes
    BY <1>1, <2>1 DEF TypeOK
  <2> QED BY <1>1, <1>2, <2>1, <2>2, <2>4, <2>5, <2>6, GoesOn
<1> QED BY <1>3, <1>4

\* It reads the receipt.
LEMMA ReadReceiptStep ==
  ASSUME IInv, NEW t \in Handlers, ReceiptReadsReceipt(t)
  PROVE  IInv'
<1> DEFINE a == thread[t].art
           x == [thread[t] EXCEPT !.pc = "commit", !.saw = receipt[a]]
<1>1. /\ TypeOK /\ t \in Threads /\ thread[t].pc = "receipt" /\ a \in Artifacts
      /\ thread[t] \in Thread
  BY DEF IInv, BackupAgrees, TypeOK, Threads, Alone, Handling, ReceiptReadsReceipt
<1>2. /\ x \in Thread /\ x.pc = "commit" /\ x.art = a /\ x.mine = thread[t].mine
      /\ x.rows = thread[t].rows /\ x.body = thread[t].body /\ x.saw = receipt[a]
  BY <1>1 DEF Thread, PC, TypeOK
<1>3. /\ thread' = [thread EXCEPT ![t] = x]
      /\ UNCHANGED <<present, row, receipt, changes, listed, lock, used, overlapped>>
  BY DEF ReceiptReadsReceipt
<1> HIDE DEF x
<1>4. thread'[t] = x /\ \A u \in Threads \ {t} : thread'[u] = thread[u]
  BY <1>1, <1>3 DEF TypeOK
<1>5. Alone(t)'
  BY <1>1, <1>2, <1>3, <1>4 DEF IInv, Alone, Handling
<1>6. Noted'
  BY <1>1, <1>2, <1>3, <1>4 DEF IInv, Noted, Threads
<1>7. x.mine <= changes
  BY <1>1, <1>2 DEF IInv, Newer
<1>8. /\ used' \in [requests : 0..MaxRequests, flips : 0..MaxFlips, crashes : 0..MaxCrashes]
      /\ overlapped \subseteq overlapped' /\ overlapped' \subseteq Artifacts
  BY <1>1, <1>3 DEF TypeOK
<1> QED BY <1>1, <1>2, <1>3, <1>5, <1>6, <1>7, <1>8, GoesOn

\* It commits: alone, it writes its own state into receipt and artifact.
LEMMA CommitReceiptStep ==
  ASSUME IInv, NEW t \in Handlers, ReceiptCommits(t)
  PROVE  IInv'
<1> DEFINE a    == thread[t].art
           body == thread[t].body
           saw  == thread[t].saw
           old  == thread[t].rows[a]
<1>1. /\ TypeOK /\ t \in Threads /\ thread[t].pc = "commit" /\ a \in Artifacts
      /\ thread[t] \in Thread /\ body \in Receipt /\ body.state # "none"
      /\ saw \in Receipt /\ old \in Row /\ receipt[a] \in Receipt /\ row[a] \in Row
      /\ Acceptable(body) /\ a # Nobody
      /\ a \notin overlapped => saw = receipt[a] /\ old.backup = row[a].backup
  BY ArtifactsAssumption
     DEF IInv, BackupAgrees, TypeOK, Threads, Thread, Alone, Handling, ReceiptCommits
<1>2. UNCHANGED <<present, listed, lock, used, overlapped>>
  BY DEF ReceiptCommits
<1>3. CASE thread' = [thread EXCEPT ![t] = Idle] /\ UNCHANGED <<row, receipt, changes>>
  <2>1. Noted' /\ Alone(t)'
    BY <1>1, <1>2, <1>3, Defaults, NoReceiptKeeps
  <2>2. /\ used' \in [requests : 0..MaxRequests, flips : 0..MaxFlips, crashes : 0..MaxCrashes]
        /\ overlapped' \subseteq Artifacts /\ Idle.mine <= changes
    BY <1>1, <1>2, Defaults DEF TypeOK
  <2> QED BY <1>1, <1>2, <1>3, <2>1, <2>2, Defaults, GoesOn
<1>4. CASE ~(saw = NoReceipt /\ receipt[a] # NoReceipt)
  <2> DEFINE rc == [state |-> Column(receipt[a].state, saw.state, body.state),
                    match |-> Column(receipt[a].match, saw.match, body.match)]
             rw == [state |-> IF body.state = "verified"
                              THEN Column(row[a].state, old.state, "verified")
                              ELSE row[a].state,
                    backup |-> Column(row[a].backup, old.backup, body.state),
                    permanent |-> row[a].permanent]
             new == [row EXCEPT ![a] = rw]
  <2>1. receipt' = [receipt EXCEPT ![a] = rc] /\ CommitRows(t, new)
    BY <1>4 DEF ReceiptCommits
  <2>2. rc \in Receipt /\ rw \in Row
    BY <1>1 DEF Column, Receipt, Row, Outcome
  <2>3. a \notin overlapped => rc = body /\ rw.backup = body.state
    BY <1>1 DEF Column, Receipt, Row
  <2> HIDE DEF rc, rw
  <2>4. new \in [Artifacts -> Row] /\ receipt' \in [Artifacts -> Receipt]
    BY <1>1, <2>1, <2>2 DEF TypeOK
  <2>5. /\ new[a] = rw /\ receipt'[a] = rc
        /\ \A b \in Artifacts \ {a} : new[b] = row[b] /\ receipt'[b] = receipt[b]
    BY <1>1, <2>1 DEF TypeOK
  <2> HIDE DEF new
  <2>6. /\ row' = new /\ changes' \in Nat /\ changes <= changes'
        /\ thread' \in [Threads -> Thread]
        /\ thread'[t].pc = "lock" /\ thread'[t].mine = changes'
        /\ thread'[t].art = Nobody
        /\ \A u \in Threads \ {t} : thread'[u] = thread[u]
    BY <1>1, <2>1, <2>4, CommitType
  <2>7. listed \in 0..changes' /\ changes \in Nat
    BY <1>1, <2>6 DEF TypeOK
  <2>8. TypeOK'
    BY <1>1, <1>2, <2>4, <2>6, <2>7 DEF TypeOK
  <2>9. BackupAgrees'
    BY <1>1, <1>2, <2>3, <2>5, <2>6, <2>8 DEF IInv, BackupAgrees, Acceptable
  <2>10. ASSUME NEW u \in Threads PROVE Newer(u)'
    BY <1>1, <1>2, <2>6, <2>7 DEF IInv, Newer, TypeOK, Thread
  <2>11. Noted'
    BY <1>1, <1>2, <2>6 DEF IInv, Noted, Threads
  <2>12. ASSUME NEW u \in Handlers PROVE Alone(u)'
    BY <1>1, <1>2, <2>5, <2>6 DEF IInv, Noted, Alone, Handling, Threads
  <2> QED BY <2>9, <2>10, <2>11, <2>12 DEF IInv
<1> QED BY <1>3, <1>4 DEF ReceiptCommits

\* Reconciliation.
LEMMA ReconcileStep ==
  ASSUME IInv, Reconcile
  PROVE  IInv'
<1>1. /\ TypeOK /\ Worker \in Threads /\ Worker \notin Handlers
      /\ thread[Worker] \in Thread
      /\ used \in [requests : 0..MaxRequests, flips : 0..MaxFlips, crashes : 0..MaxCrashes]
  BY ArtifactsAssumption DEF IInv, BackupAgrees, TypeOK, Threads
<1>2. CASE ReconcileReads
  <2> DEFINE x == [Idle EXCEPT !.pc = "look", !.rows = row]
  <2>1. x \in Thread /\ x.pc = "look" /\ x.art = Nobody /\ x.mine = 0
    BY <1>1, Defaults DEF Thread, PC, TypeOK
  <2>2. /\ thread' = [thread EXCEPT ![Worker] = x] /\ thread[Worker].pc = "idle"
        /\ UNCHANGED <<present, row, receipt, changes, listed, lock, used, overlapped>>
    BY <1>2 DEF ReconcileReads
  <2> HIDE DEF x
  <2>3. Noted'
    BY <1>1, <2>1, <2>2, NoReceiptKeeps
  <2>4. x.mine <= changes /\ overlapped' \subseteq Artifacts /\ used' = used
    BY <1>1, <2>1, <2>2 DEF TypeOK
  <2> QED BY <1>1, <2>1, <2>2, <2>3, <2>4, GoesOn
<1>3. CASE ReconcileLooks
  <2> DEFINE x == [thread[Worker] EXCEPT !.pc = "reconcile", !.files = present]
  <2>1. /\ x \in Thread /\ x.pc = "reconcile" /\ x.art = thread[Worker].art
        /\ x.mine = thread[Worker].mine
    BY <1>1 DEF Thread, PC, TypeOK
  <2>2. /\ thread' = [thread EXCEPT ![Worker] = x] /\ thread[Worker].pc = "look"
        /\ UNCHANGED <<present, row, receipt, changes, listed, lock, used, overlapped>>
    BY <1>3 DEF ReconcileLooks
  <2> HIDE DEF x
  <2>3. Noted'
    BY <1>1, <2>2 DEF IInv, Noted, TypeOK
  <2>4. x.mine <= changes
    BY <1>1, <2>1 DEF IInv, Newer
  <2> QED BY <1>1, <2>1, <2>2, <2>3, <2>4, GoesOn DEF TypeOK
<1>4. CASE ReconcileCommits
  <2> DEFINE st(a) == Reconciled(row[a], thread[Worker].rows[a], a \in thread[Worker].files)
             new == [a \in Artifacts |-> [row[a] EXCEPT !.state = st(a)]]
  <2>1. CommitRows(Worker, new) /\ thread[Worker].pc = "reconcile"
    BY <1>4 DEF ReconcileCommits
  <2>2. ASSUME NEW a \in Artifacts
        PROVE  st(a) \in {"absent", "receipt_pending", "verified", "missing"}
    <3>1. row[a].state \in {"absent", "receipt_pending", "verified", "missing"}
      BY <1>1 DEF TypeOK, Row
    <3> QED BY <3>1 DEF Reconciled
  <2> HIDE DEF st
  <2>3. new \in [Artifacts -> Row] /\ \A a \in Artifacts : new[a].backup = row[a].backup
    BY <1>1, <2>2 DEF TypeOK, Row
  <2> HIDE DEF new
  <2>4. /\ present' \subseteq Artifacts
        /\ UNCHANGED <<receipt, listed, lock, used, overlapped>>
    BY <1>1, <1>4 DEF ReconcileCommits, TypeOK
  <2>5. thread[Worker].pc \notin {"read", "write"}
    BY <2>1
  <2> QED BY <1>1, <2>1, <2>3, <2>4, <2>5, CommitKeeps
<1> QED BY <1>2, <1>3, <1>4 DEF Reconcile

\* An export: the lock keeps the manifest as it is until its holder writes it.
LEMMA ExportStep ==
  ASSUME IInv, NEW t \in Threads, Export(t) \/ ExportFails(t)
  PROVE  IInv'
<1>1. TypeOK /\ thread[t] \in Thread /\ Newer(t) /\ t # Nobody
  BY ArtifactsAssumption DEF IInv, BackupAgrees, TypeOK, Threads
<1>2. used' \in [requests : 0..MaxRequests, flips : 0..MaxFlips, crashes : 0..MaxCrashes]
  BY <1>1, ArtifactsAssumption
     DEF TypeOK, Export, ExportLocks, ExportReads, ExportWrites, ExportFails, CountCrash
<1>3. UNCHANGED <<present, row, receipt, changes, overlapped>>
  BY DEF Export, ExportLocks, ExportReads, ExportWrites, ExportFails
<1>4. PICK x \in Thread :
        /\ thread' = [thread EXCEPT ![t] = x]
        /\ thread[t].pc \in {"lock", "read", "write"}
        /\ x.art \in {Nobody, thread[t].art} /\ x.mine <= changes
        /\ \/ /\ x.pc = "read" /\ lock = Nobody /\ lock' = t /\ listed' = listed
           \/ /\ x.pc = "write" /\ x.shows = changes /\ lock' = lock /\ listed' = listed
              /\ thread[t].pc = "read"
           \/ /\ x.pc = "idle" /\ lock' = Nobody /\ thread[t].pc \in {"read", "write"}
              /\ \/ listed' = listed
                 \/ thread[t].pc = "write" /\ listed' = thread[t].shows
  <2>1. CASE ExportLocks(t)
    <3> DEFINE x == [thread[t] EXCEPT !.pc = "read"]
    <3>1. x \in Thread /\ x.pc = "read" /\ x.art = thread[t].art /\ x.mine = thread[t].mine
      BY <1>1 DEF Thread, PC
    <3>2. thread' = [thread EXCEPT ![t] = x]
      BY <1>1, <2>1 DEF ExportLocks, Goto, TypeOK
    <3> HIDE DEF x
    <3> QED BY <1>1, <2>1, <3>1, <3>2 DEF ExportLocks, Newer
  <2>2. CASE ExportReads(t)
    <3> DEFINE x == [thread[t] EXCEPT !.pc = "write", !.shows = changes]
    <3>1. /\ x \in Thread /\ x.pc = "write" /\ x.art = thread[t].art
          /\ x.mine = thread[t].mine /\ x.shows = changes
      BY <1>1 DEF Thread, PC, TypeOK
    <3>2. thread' = [thread EXCEPT ![t] = x]
      BY <2>2 DEF ExportReads
    <3> HIDE DEF x
    <3> QED BY <1>1, <2>2, <3>1, <3>2 DEF ExportReads, Newer
  <2>3. CASE ExportWrites(t) \/ ExportFails(t)
    <3>1. Idle.mine <= changes
      BY <1>1, Defaults DEF TypeOK
    <3> QED BY <2>3, <3>1, Defaults DEF ExportWrites, ExportFails
  <2> QED BY <2>1, <2>2, <2>3 DEF Export
<1>5. /\ thread' \in [Threads -> Thread] /\ thread'[t] = x
      /\ \A u \in Threads \ {t} : thread'[u] = thread[u]
  BY <1>1, <1>4 DEF TypeOK
<1>6. changes \in Nat /\ listed \in 0..changes /\ listed' \in 0..changes
  BY <1>1, <1>4 DEF TypeOK, Newer
<1>7. lock' \in Threads \cup {Nobody}
      /\ \A u \in Threads : thread'[u].pc \in {"read", "write"} <=> lock' = u
  BY <1>1, <1>4, <1>5, ArtifactsAssumption DEF TypeOK, Threads
<1>8. TypeOK'
  BY <1>1, <1>2, <1>3, <1>5, <1>6, <1>7 DEF TypeOK
<1>9. BackupAgrees'
  BY <1>3, <1>8 DEF IInv, BackupAgrees
<1>10. Noted'
  BY <1>3, <1>4, <1>5 DEF IInv, Noted, Threads
<1>11. ASSUME NEW u \in Handlers PROVE Alone(u)'
  BY <1>3, <1>4, <1>5 DEF IInv, Alone, Handling, Threads
<1>12. ASSUME NEW u \in Threads PROVE Newer(u)'
  <2>1. CASE u = t
    BY <1>3, <1>4, <1>5, <1>6, <2>1 DEF Newer, Thread
  <2>2. CASE u # t
    <3>1. thread'[u] = thread[u] /\ Newer(u)
      BY <1>5, <2>2 DEF IInv
    <3>2. thread[u].pc = "write" => listed' = listed
      BY <1>1, <1>4, <2>2 DEF TypeOK
    <3> QED BY <1>3, <3>1, <3>2 DEF Newer
  <2> QED BY <2>1, <2>2
<1> QED BY <1>9, <1>10, <1>11, <1>12 DEF IInv

\* Files come and go, and the process crashes.
LEMMA FaultStep ==
  ASSUME IInv, Crash \/ \E a \in Artifacts : Flip(a)
  PROVE  IInv'
<1>1. TypeOK
  BY DEF IInv, BackupAgrees
<1>2. /\ used' \in [requests : 0..MaxRequests, flips : 0..MaxFlips, crashes : 0..MaxCrashes]
      /\ present' \subseteq Artifacts
      /\ UNCHANGED <<row, receipt, changes, listed, overlapped>>
  BY <1>1, ArtifactsAssumption DEF TypeOK, Crash, CountCrash, Flip
<1>3. CASE Crash
  <2>1. /\ thread' \in [Threads -> Thread] /\ lock' = Nobody
        /\ \A u \in Threads : /\ thread'[u].pc = "idle" /\ thread'[u].art = Nobody
                              /\ thread'[u].mine = 0 /\ u # Nobody
    BY <1>3, Defaults, ArtifactsAssumption DEF Crash, Threads
  <2>2. TypeOK'
    BY <1>1, <1>2, <2>1 DEF TypeOK
  <2>3. BackupAgrees' /\ Noted' /\ (\A u \in Handlers : Alone(u)')
    BY <1>2, <2>1, <2>2 DEF IInv, BackupAgrees, Noted, Alone, Handling, Threads
  <2>4. \A u \in Threads : Newer(u)'
    BY <1>1, <1>2, <2>1 DEF Newer, TypeOK
  <2> QED BY <2>3, <2>4 DEF IInv
<1>4. CASE UNCHANGED <<lock, thread>>
  <2>1. TypeOK'
    BY <1>1, <1>2, <1>4 DEF TypeOK
  <2> QED BY <1>2, <1>4, <2>1 DEF IInv, BackupAgrees, Noted, Newer, Alone, Handling
<1> QED BY <1>3, <1>4 DEF Flip

\* Every step keeps the invariant.
LEMMA IInvStep == IInv /\ [Next]_vars => IInv'
<1> SUFFICES ASSUME IInv, [Next]_vars PROVE IInv'
  OBVIOUS
<1>1. CASE UNCHANGED vars
  BY <1>1 DEF vars, IInv, BackupAgrees, TypeOK, Noted, Newer, Alone, Handling
<1>2. ASSUME NEW t \in Handlers, Ask(t) \/ Handle(t) PROVE IInv'
  BY <1>2, AskStep, ReadArtifactStep, ReadReceiptStep, CommitReceiptStep DEF Ask, Handle
<1> QED BY <1>1, <1>2, ReconcileStep, ExportStep, FaultStep DEF Next

\* The invariant holds in every behaviour.
LEMMA Inductive == Spec => []IInv
  BY IInvInit, IInvStep, PTL DEF Spec

-----------------------------------------------------------------------------
(* What follows.                                                           *)

\* An artifact shows the state of its receipt, and a verified receipt matches,
\* unless two receipts of the artifact were handled at the same time.
THEOREM BackupsAgree == Spec => []BackupAgrees
<1>1. IInv => BackupAgrees
  BY DEF IInv
<1> QED BY <1>1, Inductive, PTL

\* However many threads export: the manifest never shows an older table.
THEOREM ManifestsGoForward == Spec => ManifestGoesForward
<1>1. IInv /\ [Next]_vars => [listed' >= listed]_vars
  <2> SUFFICES ASSUME IInv, Next PROVE listed' >= listed
    OBVIOUS
  <2>1. listed \in Nat /\ \A t \in Threads : Newer(t)
    BY DEF IInv, BackupAgrees, TypeOK
  <2>2. CASE UNCHANGED listed
    BY <2>1, <2>2
  <2>3. ASSUME NEW t \in Threads, ExportWrites(t) PROVE listed' >= listed
    BY <2>1, <2>3 DEF ExportWrites, Newer
  <2> QED BY <2>2, <2>3 DEF Next, Reconcile, ReconcileReads, ReconcileLooks,
          ReconcileCommits, Crash, Ask, AskExport, Register, Promote,
          ReceiptReadsArtifact, Handle, ReceiptReadsReceipt, ReceiptCommits, Export,
          ExportLocks, ExportReads, ExportFails, Flip
<1> QED BY <1>1, Inductive, PTL DEF Spec, ManifestGoesForward

\* Who is answered, or ends a reconciliation, without an error, finds what he
\* committed in the manifest: his own export wrote it.
THEOREM AnswersAreListed == Spec => AnsweredIsListed
<1> DEFINE Ends(t) == /\ thread[t].pc \in {"lock", "write"} /\ thread'[t].pc = "idle"
                      /\ used' = used
<1>1. IInv /\ Next => \A t \in Threads : Ends(t) => listed' >= thread[t].mine
  <2> SUFFICES ASSUME IInv, Next, NEW t \in Threads, Ends(t)
               PROVE  listed' >= thread[t].mine
    OBVIOUS
  <2>1. /\ thread \in [Threads -> Thread] /\ Newer(t) /\ listed \in 0..changes
        /\ changes \in Nat /\ used.crashes \in Nat /\ Worker \in Threads
        /\ Handlers \subseteq Threads
    BY ArtifactsAssumption DEF IInv, BackupAgrees, TypeOK, Threads
  <2>2. thread' # thread
    OBVIOUS
  <2>3. ASSUME NEW u \in Threads, ExportWrites(u) PROVE listed' >= thread[t].mine
    <3>1. u = t /\ listed' = thread[t].shows /\ thread[t].pc = "write"
      BY <2>1, <2>3 DEF ExportWrites
    <3> QED BY <2>1, <3>1 DEF Newer, Thread
  <2>4. ~CountCrash
    <3>1. used' = [used EXCEPT !.crashes = @ + 1] => used'.crashes = used.crashes + 1
      BY DEF IInv, BackupAgrees, TypeOK
    <3> QED BY <2>1, <3>1 DEF CountCrash
  <2>5. ASSUME NEW u \in Threads, NEW x, thread' = [thread EXCEPT ![u] = x],
               thread[u].pc \in {"idle", "look", "reconcile", "receipt", "commit"}
        PROVE  FALSE
    BY <2>1, <2>5
  <2>6. ASSUME NEW u \in Threads, ExportLocks(u) \/ ExportReads(u) PROVE FALSE
    BY <2>1, <2>6 DEF ExportLocks, ExportReads, Goto, Thread
  <2>7. ~Reconcile
    BY <2>1, <2>5 DEF Reconcile, ReconcileReads, ReconcileLooks, ReconcileCommits, CommitRows
  <2>8. ASSUME NEW u \in Handlers, Ask(u) \/ Handle(u) PROVE FALSE
    BY <2>1, <2>2, <2>5, <2>8 DEF Ask, AskExport, Register, Promote, ReceiptReadsArtifact,
       Asks, Free, Handle, ReceiptReadsReceipt, ReceiptCommits, CommitRows
  <2> QED BY <2>2, <2>3, <2>4, <2>6, <2>7, <2>8 DEF Next, Export, ExportFails, Crash, Flip
<1>2. IInv /\ [Next]_vars =>
        [\A t \in Threads :
           thread[t].pc \in {"lock", "write"} /\ thread'[t].pc = "idle" /\ used' = used
             => listed' >= thread[t].mine]_vars
  BY <1>1
<1> QED BY <1>2, Inductive, PTL DEF Spec, AnsweredIsListed
=============================================================================
