--------------------------- MODULE DeliveryProofs ---------------------------
(***************************************************************************)
(* Proofs about Delivery, for any sets of keys and workers, any priorities *)
(* and limits: its type invariant, that a row marked sent was delivered,   *)
(* that a row goes dead only after MaxAttempts committed claims, that an   *)
(* acknowledged row is final but for two late requests, that the system    *)
(* keeps the promise of AtLeastOnce, and that a message is repeated at     *)
(* most once for each fault.                                               *)
(***************************************************************************)
EXTENDS Delivery, FiniteSetTheorems, TLAPS

-----------------------------------------------------------------------------
(* Types of the operators of Outbox and Delivery.                          *)

\* The three writes turn a row into a row, whatever row was read before.
LEMMA WritesAreRows ==
  ASSUME NEW r \in Row, NEW s \in Row, NEW w \in Workers
  PROVE  Claimed(r, s, w) \in Row /\ Acked(r, s) \in Row /\ Rejected(r, s) \in Row
<1>1. Claimed(r, s, w) \in Row
  <2> DEFINE st == IF s.state = "leased" THEN r.state ELSE "leased"
             ow == IF s.owner = w THEN r.owner ELSE w
             at == s.attempts + 1
  <2>1. st \in RowState /\ ow \in Workers \cup {NoWorker} /\ at \in Nat
    BY DEF Row, RowState
  <2>2. Claimed(r, s, w) = [r EXCEPT !.state = st, !.owner = ow,
                                     !.lease = "running", !.attempts = at]
    BY DEF Claimed
  <2> HIDE DEF st, ow, at
  <2> QED BY <2>1, <2>2 DEF Row
<1>2. Acked(r, s) \in Row
  BY DEF Acked, Row, RowState
<1>3. Rejected(r, s) \in Row
  BY DEF Rejected, AfterReject, Row, RowState
<1> QED BY <1>1, <1>2, <1>3

\* The defaults of a row that is not there have the types of a row.
LEMMA NoRowType == NoRow \in Row
  BY DEF NoRow, Row, RowState

\* The rows that exist can be counted, so the next creation number is one.
LEMMA StoredCount == Cardinality({n \in Keys : Stored(n)}) \in Nat
  BY OutboxAssumption, FS_Subset, FS_CardinalityType

\* A handler that reads its rows leaves its request well formed.
LEMMA ReadByType ==
  ASSUME TypeOK, NEW c \in Request
  PROVE  ReadBy(c) \in Request
<1> DEFINE ks == IF c.op = "claim" THEN ClaimBatch ELSE c.keys
           sn == [m \in Keys |-> IF m \in ks THEN row[m] ELSE NoRow]
<1>1. ks \in SUBSET Keys
  BY DEF ClaimBatch, Request
<1>2. sn \in [Keys -> Row]
  BY NoRowType DEF TypeOK
<1>3. ReadBy(c) = [c EXCEPT !.read = TRUE, !.keys = ks, !.snap = sn]
  BY DEF ReadBy
<1> HIDE DEF ks, sn
<1> QED BY <1>1, <1>2, <1>3 DEF Request

\* A commit keeps the table and the claim counts well formed.
LEMMA CommitType ==
  ASSUME TypeOK, NEW c \in Request, Commit(c)
  PROVE  row' \in [Keys -> Row] /\ claims' \in [Keys -> Nat]
<1>1. ASSUME NEW m \in Keys PROVE Written(c, m) \in Row
  <2> row[m] \in Row /\ c.snap[m] \in Row /\ c.worker \in Workers
      /\ c.op \in {"claim", "ack", "nack"}
    BY DEF TypeOK, Request
  <2> QED BY WritesAreRows DEF Written
<1>2. row' \in [Keys -> Row]
  BY <1>1 DEF Commit, TypeOK
<1>3. claims' \in [Keys -> Nat]
  BY DEF Commit, TypeOK
<1> QED BY <1>2, <1>3

\* A request left behind is one more well formed stray.
LEMMA LeaveType ==
  ASSUME TypeOK, Leave
  PROVE  strays' \subseteq Request
<1>1. CASE strays' = strays
  BY <1>1 DEF TypeOK
<1>2. CASE call # NoCall /\ strays' = strays \cup {[call EXCEPT !.nr = faults + 1]}
  <2>1. call \in Request /\ faults + 1 \in Nat
    BY <1>2 DEF TypeOK
  <2>2. [call EXCEPT !.nr = faults + 1] \in Request
    BY <2>1 DEF Request
  <2> QED BY <1>2, <2>2 DEF TypeOK
<1> QED BY <1>1, <1>2 DEF Leave

-----------------------------------------------------------------------------
(* The type invariant.                                                     *)

\* The type invariant holds at the start.
LEMMA TypeInit == Init => TypeOK
  BY NoRowType DEF Init, InitRows, TypeOK, PC, NoCall

\* Every action of Delivery keeps the type invariant.
LEMMA TypeStep == TypeOK /\ [Next]_vars => TypeOK'
<1> SUFFICES ASSUME TypeOK, [Next]_vars PROVE TypeOK'
  OBVIOUS
<1> USE DEF TypeOK
<1>1. ASSUME NEW m \in Keys, Enqueues(m) PROVE TypeOK'
  <2>1. row' \in [Keys -> Row]
    <3> DEFINE b == 1 + Cardinality({n \in Keys : Stored(n)})
    <3>1. b \in Nat
      BY StoredCount
    <3>2. row' = [row EXCEPT ![m] =
             [NoRow EXCEPT !.state = "pending", !.due = TRUE, !.born = b]]
      BY <1>1 DEF Enqueues, Enqueue
    <3> HIDE DEF b
    <3>3. [NoRow EXCEPT !.state = "pending", !.due = TRUE, !.born = b] \in Row
      BY <3>1 DEF NoRow, Row, RowState
    <3> QED BY <3>2, <3>3
  <2> QED BY <1>1, <2>1 DEF Enqueues, Others, bot
<1>2. ASSUME NEW m \in Keys, TimePasses(m) PROVE TypeOK'
  <2>1. row' \in [Keys -> Row]
    <3> row[m] \in Row
      OBVIOUS
    <3>1. [row[m] EXCEPT !.lease = "expired"] \in Row
          /\ [row[m] EXCEPT !.due = TRUE] \in Row
      BY DEF Row
    <3> QED BY <1>2, <3>1 DEF TimePasses, LeaseExpires, BackoffElapses
  <2> QED BY <1>2, <2>1 DEF TimePasses, Others, bot
<1>3. CASE BotStep
  <2>1. CASE Turn
    BY <2>1 DEF Turn, PC
  <2>2. CASE SendClaim \/ SendAck \/ SendNack
    <3>1. ASSUME NEW op \in {"claim", "ack", "nack"}, NEW keys \in SUBSET Keys
          PROVE NewCall(op, keys) \in Request
      BY <3>1, NoRowType DEF NewCall, Request
    <3> QED BY <2>2, <3>1 DEF SendClaim, SendAck, SendNack, Send, PC
  <2>3. CASE ServerReads
    <3>1. call \in Request
      BY <2>3 DEF ServerReads
    <3>2. call' \in Request
      BY <2>3, <3>1, ReadByType DEF ServerReads
    <3> QED BY <2>3, <3>2 DEF ServerReads
  <2>4. CASE Answered
    <3>1. call \in Request
      BY <2>4 DEF Answered
    <3>2. row' \in [Keys -> Row] /\ claims' \in [Keys -> Nat]
      BY <2>4, <3>1, CommitType DEF Answered
    <3>3. pc' \in PC /\ batch' \subseteq Keys /\ current' \subseteq Keys
          /\ call' = NoCall
      BY <2>4, <3>1 DEF Answered, Goto, Done, Abandon, PC, Request
    <3> QED BY <2>4, <3>2, <3>3 DEF Answered
  <2>5. CASE Delivers \/ SendFails
    BY <2>5 DEF Delivers, SendFails, Received, PC
  <2> QED BY <1>3, <2>1, <2>2, <2>3, <2>4, <2>5 DEF BotStep
<1>4. CASE Strays
  <2> PICK c \in strays : StrayReads(c) \/ StrayCommits(c) \/ StrayLost(c)
    BY <1>4 DEF Strays
  <2>1. CASE StrayReads(c)
    BY <2>1, ReadByType DEF StrayReads, bot
  <2>2. CASE StrayCommits(c)
    BY <2>2, CommitType DEF StrayCommits, bot
  <2>3. CASE StrayLost(c)
    BY <2>3 DEF StrayLost, bot
  <2> QED BY <2>1, <2>2, <2>3
<1>5. CASE Faulty
  <2>1. CASE SendFailsLate
    BY <2>1 DEF SendFailsLate, Fault, Received, PC
  <2>2. CASE CallFails
    BY <2>2, LeaveType DEF CallFails, Fault, Goto, Abandon, PC
  <2>3. CASE BotCrashes
    BY <2>3, LeaveType DEF BotCrashes, Fault, Goto, PC
  <2> QED BY <1>5, <2>1, <2>2, <2>3 DEF Faulty
<1>6. CASE BotStarts
  BY <1>6 DEF BotStarts, Goto, PC
<1>7. CASE UNCHANGED vars
  BY <1>7 DEF vars, bot
<1> QED BY <1>1, <1>2, <1>3, <1>4, <1>5, <1>6, <1>7 DEF Next

\* In every reachable state of the outbox, the bot and its requests, each
\* variable has its type, for every value of the constants.
THEOREM TypeCorrect == Spec => []TypeOK
  BY TypeInit, TypeStep, PTL DEF Spec

-----------------------------------------------------------------------------
(* Sent rows were delivered, dead rows were claimed often enough.          *)
(*                                                                         *)
(* Neither is inductive.  The first needs to know that an acknowledgement  *)
(* is requested only for a message that was delivered, wherever that       *)
(* request is: about to be sent, awaited, or left behind as a stray.  The  *)
(* second needs to know that the attempts in the snapshot of a handler are *)
(* no more than the claims committed so far: they are what it will write.  *)

Grounded(c) ==
  \A m \in Keys :
    /\ c.op = "ack" /\ m \in c.keys => delivered[m] > 0
    /\ c.snap[m].attempts <= claims[m]

IInv ==
  /\ TypeOK
  /\ SentWasDelivered
  /\ DeadWasClaimedOften
  /\ pc = "ack" => \A m \in current : delivered[m] > 0
  /\ \A c \in Requests : Grounded(c)

\* A request stays grounded while the history counters only grow.
LEMMA GroundedStable ==
  ASSUME TypeOK, NEW c \in Request, Grounded(c),
         delivered' \in [Keys -> Nat], claims' \in [Keys -> Nat],
         \A m \in Keys : delivered'[m] >= delivered[m] /\ claims'[m] >= claims[m]
  PROVE  Grounded(c)'
<1> SUFFICES ASSUME NEW m \in Keys
             PROVE  /\ c.op = "ack" /\ m \in c.keys => delivered'[m] > 0
                    /\ c.snap[m].attempts <= claims'[m]
  BY DEF Grounded
<1> c.snap[m].attempts \in Nat
  BY DEF Request, Row
<1> QED BY DEF Grounded, TypeOK

\* Reading takes the attempts of the stored rows, and changes no other part.
LEMMA ReadByGrounded ==
  ASSUME TypeOK, DeadWasClaimedOften, NEW c \in Request, Grounded(c)
  PROVE  Grounded(ReadBy(c))
<1> DEFINE ks == IF c.op = "claim" THEN ClaimBatch ELSE c.keys
           sn == [m \in Keys |-> IF m \in ks THEN row[m] ELSE NoRow]
<1>1. ReadBy(c) = [c EXCEPT !.read = TRUE, !.keys = ks, !.snap = sn]
  BY DEF ReadBy
<1>2. ASSUME NEW m \in Keys PROVE sn[m].attempts <= claims[m]
  BY DEF DeadWasClaimedOften, TypeOK, NoRow
<1>3. c.op = "ack" => ks = c.keys
  OBVIOUS
<1>4. ReadBy(c).op = c.op /\ ReadBy(c).keys = ks /\ ReadBy(c).snap = sn
  <2> HIDE DEF ks, sn
  <2> QED BY <1>1 DEF Request
<1> HIDE DEF ks, sn
<1> QED BY <1>2, <1>3, <1>4 DEF Grounded

\* A commit of a grounded request keeps both properties of the table.
LEMMA CommitSafe ==
  ASSUME TypeOK, SentWasDelivered, DeadWasClaimedOften,
         NEW c \in Request, Grounded(c), Commit(c), delivered' = delivered
  PROVE  SentWasDelivered' /\ DeadWasClaimedOften'
<1> SUFFICES ASSUME NEW m \in Keys
             PROVE  /\ row'[m].state = "sent" => delivered[m] > 0
                    /\ row'[m].attempts <= claims'[m]
                    /\ row'[m].state = "dead" => claims'[m] >= MaxAttempts
  BY DEF SentWasDelivered, DeadWasClaimedOften
<1> DEFINE r == row[m]
           s == c.snap[m]
<1>1. /\ r \in Row /\ s \in Row
      /\ claims[m] \in Nat /\ delivered[m] \in Nat /\ MaxAttempts \in Nat
  BY OutboxAssumption DEF TypeOK, Request
<1>2. /\ r.state = "sent" => delivered[m] > 0
      /\ r.attempts <= claims[m]
      /\ r.state = "dead" => claims[m] >= MaxAttempts
      /\ s.attempts <= claims[m]
      /\ c.op = "ack" /\ m \in c.keys => delivered[m] > 0
  BY DEF SentWasDelivered, DeadWasClaimedOften, Grounded
<1>3. CASE ~(m \in c.keys /\ Accepted(c))
  <2>1. row'[m] = r /\ claims'[m] >= claims[m] /\ claims'[m] \in Nat
    BY <1>1, <1>3 DEF Commit
  <2> QED BY <1>1, <1>2, <2>1 DEF Row
<1>4. CASE m \in c.keys /\ Accepted(c)
  <2>1. row'[m] = Written(c, m)
    BY <1>4 DEF Commit
  <2>2. CASE c.op = "claim"
    <3>1. row'[m] = Claimed(r, s, c.worker) /\ claims'[m] = claims[m] + 1
      BY <1>4, <2>1, <2>2 DEF Written, Commit
    <3>2. /\ row'[m].state \in {r.state, "leased"}
          /\ row'[m].attempts = s.attempts + 1
      BY <1>1, <3>1 DEF Claimed, Row
    <3> QED BY <1>1, <1>2, <3>1, <3>2 DEF Row
  <2>3. CASE c.op = "ack"
    <3>1. row'[m] = Acked(r, s) /\ claims'[m] = claims[m]
      BY <1>4, <2>1, <2>3 DEF Written, Commit
    <3>2. /\ row'[m].state \in {r.state, "sent"}
          /\ row'[m].attempts = r.attempts
      BY <1>1, <3>1 DEF Acked, Row
    <3> QED BY <1>1, <1>2, <1>4, <2>3, <3>1, <3>2
  <2>4. CASE c.op = "nack"
    <3>1. row'[m] = Rejected(r, s) /\ claims'[m] = claims[m]
      BY <1>4, <2>1, <2>4 DEF Written, Commit
    <3>2. /\ row'[m].state \in {r.state, AfterReject(s)}
          /\ row'[m].attempts = r.attempts
      BY <1>1, <3>1 DEF Rejected, Row
    <3>3. \/ AfterReject(s) = "pending"
          \/ AfterReject(s) = "dead" /\ s.attempts >= MaxAttempts
      BY DEF AfterReject
    <3> QED BY <1>1, <1>2, <3>1, <3>2, <3>3 DEF Row
  <2> QED BY <2>2, <2>3, <2>4 DEF Request
<1> QED BY <1>3, <1>4

\* The inductive invariant holds at the start.
LEMMA IInvInit == Init => IInv
  BY TypeInit, OutboxAssumption
  DEF Init, InitRows, IInv, SentWasDelivered, DeadWasClaimedOften, Requests, NoRow

\* What a step that leaves the table alone has to show.
LEMMA TableUnchanged ==
  ASSUME IInv, TypeOK', row' = row, claims' = claims,
         \A m \in Keys : delivered'[m] >= delivered[m]
  PROVE  /\ SentWasDelivered' /\ DeadWasClaimedOften'
         /\ \A c \in Requests : Grounded(c)'
<1>1. ASSUME NEW c \in Requests PROVE Grounded(c)'
  <2>1. c \in Request /\ Grounded(c)
    BY <1>1 DEF IInv, Requests, TypeOK
  <2>2. \A m \in Keys : delivered'[m] >= delivered[m] /\ claims'[m] >= claims[m]
    BY DEF IInv, TypeOK
  <2> QED BY <2>1, <2>2, GroundedStable DEF IInv, TypeOK
<1>2. SentWasDelivered'
  BY DEF IInv, SentWasDelivered, TypeOK
<1>3. DeadWasClaimedOften'
  BY DEF IInv, DeadWasClaimedOften
<1> QED BY <1>1, <1>2, <1>3

\* Renumbering a request left behind does not change what it may write.
LEMMA LeaveGrounded ==
  ASSUME IInv, Leave, NEW c \in strays',
         \A d \in Requests : Grounded(d)'
  PROVE  Grounded(c)'
<1>1. CASE c \in strays
  BY <1>1 DEF Requests
<1>2. CASE c \notin strays
  <2>1. call \in Request /\ call \in Requests /\ c = [call EXCEPT !.nr = faults + 1]
    BY <1>2 DEF Leave, IInv, TypeOK, Requests
  <2>2. c.op = call.op /\ c.keys = call.keys /\ c.snap = call.snap
    BY <2>1 DEF Request
  <2> QED BY <2>1, <2>2 DEF Grounded
<1> QED BY <1>1, <1>2

\* Every action of Delivery keeps the inductive invariant.
LEMMA IInvStep == IInv /\ [Next]_vars => IInv'
<1> SUFFICES ASSUME IInv, [Next]_vars PROVE IInv'
  OBVIOUS
<1>0. TypeOK /\ TypeOK'
  BY TypeStep DEF IInv
<1> DEFINE Safe == SentWasDelivered' /\ DeadWasClaimedOften'
           AckGrounded == pc' = "ack" => \A m \in current' : delivered'[m] > 0
           AllGrounded == \A c \in Requests' : Grounded(c)'
<1> SUFFICES Safe /\ AckGrounded /\ AllGrounded
  BY <1>0 DEF IInv
<1>1. ASSUME NEW m \in Keys, Enqueues(m) PROVE Safe /\ AckGrounded /\ AllGrounded
  <2>1. UNCHANGED Others
    BY <1>1 DEF Enqueues
  <2>2. AckGrounded /\ AllGrounded
    BY <2>1 DEF Others, bot, IInv, Requests, Grounded
  <2>3. /\ row'[m].state = "pending" /\ row'[m].attempts = 0
        /\ \A n \in Keys \ {m} : row'[n] = row[n]
    BY <1>0, <1>1 DEF Enqueues, Enqueue, TypeOK, NoRow
  <2>4. Safe
    BY <1>0, <2>1, <2>3 DEF Others, IInv, SentWasDelivered, DeadWasClaimedOften, TypeOK
  <2> QED BY <2>2, <2>4
<1>2. ASSUME NEW m \in Keys, TimePasses(m) PROVE Safe /\ AckGrounded /\ AllGrounded
  <2>1. UNCHANGED Others
    BY <1>2 DEF TimePasses
  <2>2. AckGrounded /\ AllGrounded
    BY <2>1 DEF Others, bot, IInv, Requests, Grounded
  <2>3. \A n \in Keys : row'[n].state = row[n].state /\ row'[n].attempts = row[n].attempts
    BY <1>0, <1>2 DEF TimePasses, LeaseExpires, BackoffElapses, TypeOK, Row
  <2>4. Safe
    BY <2>1, <2>3 DEF Others, IInv, SentWasDelivered, DeadWasClaimedOften
  <2> QED BY <2>2, <2>4
<1>3. CASE BotStep
  <2>1. CASE Turn
    <3>1. row' = row /\ claims' = claims /\ delivered' = delivered
          /\ Requests' = Requests /\ pc' # "ack"
      BY <2>1 DEF Turn, Requests
    <3> QED BY <1>0, <3>1, TableUnchanged DEF TypeOK
  <2>2. ASSUME NEW from \in PC, NEW op \in {"claim", "ack", "nack"},
               NEW keys \in SUBSET Keys, NEW to \in PC \ {"ack"},
               Send(from, op, keys, to),
               op = "ack" => \A m \in keys : delivered[m] > 0
        PROVE  Safe /\ AckGrounded /\ AllGrounded
    <3>1. /\ row' = row /\ claims' = claims /\ delivered' = delivered
          /\ pc' # "ack" /\ call' = NewCall(op, keys) /\ strays' = strays
      BY <2>2 DEF Send
    <3>2. Safe /\ \A c \in Requests : Grounded(c)'
      BY <1>0, <3>1, TableUnchanged DEF TypeOK
    <3> PICK d : d = NewCall(op, keys)
      OBVIOUS
    <3>3. Grounded(d)'
      BY <1>0, <2>2, <3>1 DEF NewCall, Grounded, TypeOK, NoRow
    <3>4. Requests' \subseteq Requests \cup {d}
      BY <3>1 DEF Requests
    <3> QED BY <3>1, <3>2, <3>3, <3>4
  <2>3. CASE SendClaim
    BY <2>2, <2>3 DEF SendClaim, PC
  <2>4. CASE SendAck
    <3>1. Send("ack", "ack", current, "acking") /\ \A m \in current : delivered[m] > 0
      BY <2>4 DEF SendAck, Send, IInv
    <3> QED BY <1>0, <2>2, <3>1 DEF PC, TypeOK
  <2>5. CASE SendNack
    BY <1>0, <2>2, <2>5 DEF SendNack, PC, TypeOK
  <2>6. CASE ServerReads
    <3>1. /\ row' = row /\ claims' = claims /\ delivered' = delivered
          /\ UNCHANGED <<pc, current, strays>> /\ call' = ReadBy(call)
          /\ call \in Request /\ call \in Requests
      BY <1>0, <2>6 DEF ServerReads, TypeOK, Requests
    <3>2. Safe /\ \A c \in Requests : Grounded(c)'
      BY <1>0, <3>1, TableUnchanged DEF TypeOK
    <3>3. Grounded(ReadBy(call))
      BY <1>0, <3>1, ReadByGrounded DEF IInv
    <3> PICK d : d = ReadBy(call)
      OBVIOUS
    <3>4. Grounded(d)'
      BY <3>1, <3>3 DEF Grounded
    <3>5. Requests' \subseteq Requests \cup {d}
      BY <3>1 DEF Requests
    <3>6. AckGrounded
      BY <3>1 DEF IInv
    <3> QED BY <3>2, <3>4, <3>5, <3>6
  <2>7. CASE Answered
    <3>1. /\ call \in Request /\ call \in Requests /\ Commit(call)
          /\ delivered' = delivered /\ strays' = strays
      BY <1>0, <2>7 DEF Answered, TypeOK, Requests
    <3>2. call' = NoCall /\ pc' # "ack"
      BY <2>7, <3>1 DEF Answered, Goto, Done, Abandon, Request
    <3>3. Safe
      BY <1>0, <3>1, CommitSafe DEF IInv
    <3>4. \A m \in Keys : delivered'[m] >= delivered[m] /\ claims'[m] >= claims[m]
      BY <1>0, <3>1 DEF Commit, TypeOK
    <3>5. ASSUME NEW c \in strays PROVE Grounded(c)'
      <4> c \in Request /\ Grounded(c)
        BY <1>0, <3>5 DEF IInv, TypeOK, Requests
      <4> QED BY <1>0, <3>4, GroundedStable DEF TypeOK
    <3> QED BY <3>1, <3>2, <3>3, <3>5 DEF Requests
  <2>8. CASE Delivers \/ SendFails
    <3>1. /\ row' = row /\ claims' = claims /\ Requests' = Requests
          /\ current' = current
      BY <2>8 DEF Delivers, SendFails, Requests
    <3>2. \A m \in Keys : delivered'[m] >= delivered[m]
      BY <1>0, <2>8 DEF Delivers, SendFails, Received, TypeOK
    <3>3. AckGrounded
      BY <1>0, <2>8 DEF Delivers, SendFails, Received, TypeOK
    <3> QED BY <1>0, <3>1, <3>2, <3>3, TableUnchanged
  <2> QED BY <1>3, <2>1, <2>3, <2>4, <2>5, <2>6, <2>7, <2>8 DEF BotStep
<1>4. CASE Strays
  <2> PICK c \in strays : StrayReads(c) \/ StrayCommits(c) \/ StrayLost(c)
    BY <1>4 DEF Strays
  <2>1. c \in Request /\ c \in Requests /\ Grounded(c)
    BY <1>0 DEF IInv, TypeOK, Requests
  <2>2. UNCHANGED <<bot, delivered>>
    BY DEF StrayReads, StrayCommits, StrayLost
  <2>3. AckGrounded
    BY <2>2 DEF bot, IInv
  <2>4. CASE StrayReads(c)
    <3>1. row' = row /\ claims' = claims /\ strays' = (strays \ {c}) \cup {ReadBy(c)}
      BY <2>4 DEF StrayReads
    <3>2. Safe /\ \A d \in Requests : Grounded(d)'
      BY <1>0, <2>2, <3>1, TableUnchanged DEF TypeOK
    <3>3. Grounded(ReadBy(c))
      BY <1>0, <2>1, ReadByGrounded DEF IInv
    <3> PICK d : d = ReadBy(c)
      OBVIOUS
    <3>4. Grounded(d)'
      BY <2>2, <3>1, <3>3 DEF Grounded
    <3>5. Requests' \subseteq Requests \cup {d}
      BY <2>2, <3>1 DEF Requests, bot
    <3> QED BY <2>3, <3>2, <3>4, <3>5
  <2>5. CASE StrayCommits(c)
    <3>1. Commit(c) /\ strays' = strays \ {c}
      BY <2>5 DEF StrayCommits
    <3>2. Safe
      BY <1>0, <2>1, <2>2, <3>1, CommitSafe DEF IInv
    <3>3. \A m \in Keys : delivered'[m] >= delivered[m] /\ claims'[m] >= claims[m]
      BY <1>0, <2>2, <3>1 DEF Commit, TypeOK
    <3>4. ASSUME NEW d \in Requests PROVE Grounded(d)'
      <4> d \in Request /\ Grounded(d)
        BY <1>0, <3>4 DEF IInv, TypeOK, Requests
      <4> QED BY <1>0, <3>3, GroundedStable DEF TypeOK
    <3> QED BY <2>2, <2>3, <3>1, <3>2, <3>4 DEF Requests, bot
  <2>6. CASE StrayLost(c)
    <3>1. row' = row /\ claims' = claims /\ strays' = strays \ {c}
      BY <2>6 DEF StrayLost
    <3> QED BY <1>0, <2>2, <2>3, <3>1, TableUnchanged DEF Requests, bot, TypeOK
  <2> QED BY <2>4, <2>5, <2>6
<1>5. CASE Faulty
  <2>1. CASE SendFailsLate
    <3>1. /\ row' = row /\ claims' = claims /\ Requests' = Requests /\ pc' # "ack"
          /\ \A m \in Keys : delivered'[m] >= delivered[m]
      BY <1>0, <2>1 DEF SendFailsLate, Received, Requests, TypeOK
    <3> QED BY <1>0, <3>1, TableUnchanged
  <2>2. CASE CallFails \/ BotCrashes
    <3>1. /\ row' = row /\ claims' = claims /\ delivered' = delivered
          /\ Leave /\ call' = NoCall /\ pc' # "ack"
      BY <2>2 DEF CallFails, BotCrashes, Goto, Abandon
    <3>2. Safe /\ \A d \in Requests : Grounded(d)'
      BY <1>0, <3>1, TableUnchanged DEF TypeOK
    <3>3. \A d \in strays' : Grounded(d)'
      BY <3>1, <3>2, LeaveGrounded
    <3> QED BY <3>1, <3>2, <3>3 DEF Requests
  <2> QED BY <1>5, <2>1, <2>2 DEF Faulty
<1>6. CASE BotStarts
  <2>1. row' = row /\ claims' = claims /\ delivered' = delivered
        /\ strays' = strays /\ call' = NoCall /\ pc' # "ack"
    BY <1>6 DEF BotStarts, Goto
  <2> QED BY <1>0, <2>1, TableUnchanged DEF Requests, TypeOK
<1>7. CASE UNCHANGED vars
  BY <1>7 DEF vars, bot, IInv, SentWasDelivered, DeadWasClaimedOften, Requests, Grounded
<1> QED BY <1>1, <1>2, <1>3, <1>4, <1>5, <1>6, <1>7 DEF Next

\* "Only what was really sent is acknowledged" (docs/operations.md): acknowledge
\* marks no row sent whose message did not reach the owner.
THEOREM SentSafe == Spec => []SentWasDelivered
<1>1. IInv => SentWasDelivered
  BY DEF IInv
<1> QED BY <1>1, IInvInit, IInvStep, PTL DEF Spec

\* reject gives a row up only after MaxAttempts claims of it were committed.
THEOREM DeadSafe == Spec => []DeadWasClaimedOften
<1>1. IInv => DeadWasClaimedOften
  BY DEF IInv
<1> QED BY <1>1, IInvInit, IInvStep, PTL DEF Spec

-----------------------------------------------------------------------------
(* The bot's loop.                                                         *)
(*                                                                         *)
(* The rest needs to know what the bot holds at each place of its loop,    *)
(* which request it waits for, and that nothing is late before a fault.    *)

Waiting == {"claiming", "acking", "nacking"}

Holding == {"deliver", "ack", "acking", "nack", "nacking"}

Loop ==
  /\ IF pc \in Waiting THEN call # NoCall /\ call.worker = me ELSE call = NoCall
  /\ pc = "claiming" => call.op = "claim" /\ batch = {}
  /\ pc = "acking" => call.op = "ack" /\ call.keys = current
  /\ pc = "nacking" => call.op = "nack" /\ call.keys = current
  /\ pc \in {"idle", "down"} => batch = {}
  /\ IF pc \in Holding THEN \E m \in Keys : current = {m} ELSE current = {}
  /\ batch \cap current = {}
  /\ faults = 0 => strays = {} /\ pc # "down"

\* Nobody has a request or a message in hand of which there is no row.
KeysStored ==
  /\ \A m \in batch \cup current : Stored(m)
  /\ \A c \in Requests : \A m \in c.keys : Stored(m)

\* What the handler of a request reads, field by field.
LEMMA ReadByParts ==
  ASSUME NEW c \in Request
  PROVE  /\ ReadBy(c).op = c.op /\ ReadBy(c).worker = c.worker
         /\ ReadBy(c).read = TRUE /\ ReadBy(c).nr = c.nr
         /\ ReadBy(c).keys = IF c.op = "claim" THEN ClaimBatch ELSE c.keys
         /\ \A m \in Keys : m \in ReadBy(c).keys => ReadBy(c).snap[m] = row[m]
<1> DEFINE ks == IF c.op = "claim" THEN ClaimBatch ELSE c.keys
           sn == [m \in Keys |-> IF m \in ks THEN row[m] ELSE NoRow]
<1>1. ReadBy(c) = [c EXCEPT !.read = TRUE, !.keys = ks, !.snap = sn]
  BY DEF ReadBy
<1>2. \A m \in Keys : m \in ks => sn[m] = row[m]
  OBVIOUS
<1> HIDE DEF ks, sn
<1>3. /\ ReadBy(c).op = c.op /\ ReadBy(c).worker = c.worker
      /\ ReadBy(c).read = TRUE /\ ReadBy(c).nr = c.nr
      /\ ReadBy(c).keys = ks /\ ReadBy(c).snap = sn
  BY <1>1 DEF Request
<1> QED BY <1>2, <1>3 DEF ks

\* The three writes, column by column.
LEMMA WrittenParts ==
  ASSUME NEW r \in Row, NEW s \in Row, NEW w \in Workers
  PROVE  /\ Claimed(r, s, w).state = IF s.state = "leased" THEN r.state ELSE "leased"
         /\ Claimed(r, s, w).owner = IF s.owner = w THEN r.owner ELSE w
         /\ Claimed(r, s, w).lease = "running"
         /\ Claimed(r, s, w).due = r.due
         /\ s.state = "sent" => Acked(r, s) = r
         /\ s.state # "sent" =>
              /\ Acked(r, s).state = "sent" /\ Acked(r, s).owner = NoWorker
              /\ Acked(r, s).lease = IF s.lease = "none" THEN r.lease ELSE "none"
              /\ Acked(r, s).due = r.due
         /\ Rejected(r, s).state =
              IF s.state = AfterReject(s) THEN r.state ELSE AfterReject(s)
         /\ Rejected(r, s).owner = NoWorker
         /\ Rejected(r, s).lease = IF s.lease = "none" THEN r.lease ELSE "none"
         /\ AfterReject(s) \in {"pending", "dead"}
<1>1. /\ Claimed(r, s, w).state = IF s.state = "leased" THEN r.state ELSE "leased"
      /\ Claimed(r, s, w).owner = IF s.owner = w THEN r.owner ELSE w
      /\ Claimed(r, s, w).lease = "running"
      /\ Claimed(r, s, w).due = r.due
  BY DEF Claimed, Row
<1>2. /\ s.state = "sent" => Acked(r, s) = r
      /\ s.state # "sent" =>
           /\ Acked(r, s).state = "sent" /\ Acked(r, s).owner = NoWorker
           /\ Acked(r, s).lease = IF s.lease = "none" THEN r.lease ELSE "none"
           /\ Acked(r, s).due = r.due
  BY DEF Acked, Row
<1>3. AfterReject(s) \in {"pending", "dead"}
  BY DEF AfterReject
<1>4. /\ Rejected(r, s).state =
              IF s.state = AfterReject(s) THEN r.state ELSE AfterReject(s)
      /\ Rejected(r, s).owner = NoWorker
      /\ Rejected(r, s).lease = IF s.lease = "none" THEN r.lease ELSE "none"
  BY DEF Rejected, Row
<1> QED BY <1>1, <1>2, <1>3, <1>4

\* A commit leaves rows alone or writes those of its request, and creates and
\* removes none.
LEMMA CommitParts ==
  ASSUME TypeOK, NEW c \in Request, Commit(c), NEW m \in Keys
  PROVE  /\ row[m] \in Row /\ c.snap[m] \in Row /\ c.worker \in Workers
         /\ c.op \in {"claim", "ack", "nack"}
         /\ m \in c.keys /\ Accepted(c) => row'[m] = Written(c, m)
         /\ ~(m \in c.keys /\ Accepted(c)) => row'[m] = row[m]
         /\ c.op = "claim" => Accepted(c)
         /\ Stored(m) => row'[m].state # "absent"
<1>1. /\ row[m] \in Row /\ c.snap[m] \in Row /\ c.worker \in Workers
      /\ c.op \in {"claim", "ack", "nack"}
  BY DEF TypeOK, Request
<1>2. /\ m \in c.keys /\ Accepted(c) => row'[m] = Written(c, m)
      /\ ~(m \in c.keys /\ Accepted(c)) => row'[m] = row[m]
      /\ c.op = "claim" => Accepted(c)
  BY DEF Commit, Accepted
<1>3. Stored(m) => Written(c, m).state # "absent"
  BY <1>1, WrittenParts DEF Written, Stored
<1> QED BY <1>1, <1>2, <1>3 DEF Stored

\* No row is ever forgotten.
LEMMA RowsStay ==
  ASSUME TypeOK, [Next]_vars, NEW m \in Keys, Stored(m)
  PROVE  Stored(m)'
<1> SUFFICES row'[m].state # "absent"
  BY DEF Stored
<1>1. ASSUME NEW c \in Request, Commit(c) PROVE row'[m].state # "absent"
  BY <1>1, CommitParts
<1>2. CASE \E n \in Keys : Enqueues(n) \/ TimePasses(n)
  <2>1. PICK n \in Keys : Enqueues(n) \/ TimePasses(n)
    BY <1>2
  <2>2. row'[m].state = row[m].state
    BY <2>1 DEF Enqueues, Enqueue, TimePasses, LeaseExpires, BackoffElapses, TypeOK, Row,
                Stored
  <2> QED BY <2>2 DEF Stored
<1>3. CASE Answered
  BY <1>1, <1>3 DEF Answered, TypeOK
<1>4. CASE Strays
  BY <1>1, <1>4 DEF Strays, StrayReads, StrayCommits, StrayLost, TypeOK, Stored
<1>5. CASE row' = row
  BY <1>5 DEF Stored
<1>6. (BotStep /\ ~Answered) \/ Faulty \/ BotStarts \/ UNCHANGED vars => row' = row
  BY DEF BotStep, Turn, SendClaim, SendAck, SendNack, Send, ServerReads, Delivers, SendFails,
         Faulty, SendFailsLate, CallFails, BotCrashes, BotStarts, vars
<1> QED BY <1>2, <1>3, <1>4, <1>5, <1>6 DEF Next

LoopInv == TypeOK /\ Loop /\ KeysStored

\* The loop starts empty-handed.
LEMMA LoopInit == Init => LoopInv
  BY TypeInit DEF Init, InitRows, LoopInv, Loop, KeysStored, Requests, Waiting, Holding

\* A request just sent has its fields, and is not the absent one.
LEMMA NewCallParts ==
  ASSUME TypeOK, NEW op \in {"claim", "ack", "nack"}, NEW keys \in SUBSET Keys
  PROVE  /\ NewCall(op, keys) \in Request /\ NewCall(op, keys) # NoCall
         /\ NewCall(op, keys).op = op /\ NewCall(op, keys).worker = me
         /\ NewCall(op, keys).keys = keys /\ NewCall(op, keys).read = FALSE
  BY NoRowType DEF NewCall, Request, TypeOK, NoCall

\* A request is not the absent one.
LEMMA RequestIsCall == ASSUME NEW c \in Request PROVE c # NoCall
  BY DEF Request, NoCall

\* The bot waits for one answer at a time, of the request its place in the loop
\* says, and is late only after a fault.
LEMMA LoopStep == LoopInv /\ [Next]_vars => Loop'
<1> SUFFICES ASSUME TypeOK, Loop, KeysStored, [Next]_vars PROVE Loop'
  BY DEF LoopInv
<1> USE DEF Loop, Waiting, Holding
<1>1. CASE UNCHANGED <<pc, me, batch, current, call, strays, faults>>
  BY <1>1
<1>2. CASE Turn
  <2>1. CASE batch = {} /\ pc' = "idle" /\ UNCHANGED <<batch, current>>
    BY <1>2, <2>1 DEF Turn
  <2>2. ASSUME NEW m \in batch,
               pc' = "deliver" /\ current' = {m} /\ batch' = batch \ {m}
        PROVE  Loop'
    BY <1>2, <2>2 DEF Turn, TypeOK
  <2> QED BY <1>2, <2>1, <2>2 DEF Turn
<1>3. CASE SendClaim
  BY <1>3, NewCallParts DEF SendClaim, Send
<1>4. CASE SendAck
  BY <1>4, NewCallParts DEF SendAck, Send, TypeOK
<1>5. CASE SendNack
  BY <1>5, NewCallParts DEF SendNack, Send, TypeOK
<1>6. CASE ServerReads
  <2>1. call \in Request /\ call # NoCall
    BY <1>6 DEF ServerReads, TypeOK
  <2>2. call' # NoCall /\ call'.worker = call.worker /\ call'.op = call.op
        /\ (call.op # "claim" => call'.keys = call.keys)
    BY <1>6, <2>1, ReadByType, ReadByParts, RequestIsCall DEF ServerReads
  <2> QED BY <1>6, <2>1, <2>2 DEF ServerReads
<1>7. CASE Answered
  <2>1. call \in Request /\ call # NoCall /\ pc \in Waiting /\ UNCHANGED <<faults, strays, me>>
    BY <1>7 DEF Answered, TypeOK
  <2>2. CASE call.op = "claim"
    <3>1. pc = "claiming" /\ pc' = "next" /\ call' = NoCall /\ current' = {}
      BY <1>7, <2>1, <2>2 DEF Answered, Goto
    <3> QED BY <2>1, <3>1
  <2>3. CASE call.op = "ack" /\ Accepted(call)
    <3>1. pc' = "next" /\ call' = NoCall /\ current' = {} /\ batch' = batch
      BY <1>7, <2>3 DEF Answered, Done, Goto
    <3> QED BY <2>1, <3>1
  <2>4. CASE call.op = "ack" /\ ~Accepted(call)
    <3>1. pc = "acking" /\ pc' = "nack" /\ call' = NoCall
          /\ current' = current /\ batch' = batch
      BY <1>7, <2>1, <2>4 DEF Answered, Goto
    <3> QED BY <2>1, <3>1
  <2>5. CASE call.op = "nack" /\ Accepted(call)
    <3>1. pc' = "next" /\ call' = NoCall /\ current' = {} /\ batch' = batch
      BY <1>7, <2>5 DEF Answered, Done, Goto
    <3> QED BY <2>1, <3>1
  <2>6. CASE call.op = "nack" /\ ~Accepted(call)
    <3>1. pc' = "idle" /\ call' = NoCall /\ current' = {} /\ batch' = {}
      BY <1>7, <2>6 DEF Answered, Abandon, Goto
    <3> QED BY <2>1, <3>1
  <2> QED BY <2>1, <2>2, <2>3, <2>4, <2>5, <2>6 DEF Request
<1>8. CASE Delivers
  BY <1>8 DEF Delivers
<1>9. CASE SendFails
  BY <1>9 DEF SendFails
<1>10. CASE Strays
  <2>1. faults # 0 /\ UNCHANGED <<pc, me, batch, current, call, faults>>
    BY <1>10 DEF Strays, StrayReads, StrayCommits, StrayLost, bot
  <2> QED BY <2>1
<1>11. CASE Faulty
  <2>1. faults' # 0
    BY <1>11 DEF Faulty, SendFailsLate, CallFails, BotCrashes, Fault, TypeOK
  <2>2. CASE SendFailsLate
    BY <2>1, <2>2 DEF SendFailsLate
  <2>3. CASE CallFails
    <3>1. call \in Request /\ pc \in Waiting
      BY <2>3 DEF CallFails, TypeOK
    <3> QED BY <2>1, <2>3, <3>1 DEF CallFails, Goto, Abandon
  <2>4. CASE BotCrashes
    BY <2>1, <2>4 DEF BotCrashes, Goto
  <2> QED BY <1>11, <2>2, <2>3, <2>4 DEF Faulty
<1>12. CASE BotStarts
  BY <1>12 DEF BotStarts, Goto
<1>13. CASE \E m \in Keys : Enqueues(m) \/ TimePasses(m)
  BY <1>1, <1>13 DEF Enqueues, TimePasses, Others, bot
<1>14. CASE UNCHANGED vars
  BY <1>1, <1>14 DEF vars, bot
<1> QED BY <1>2, <1>3, <1>4, <1>5, <1>6, <1>7, <1>8, <1>9, <1>10, <1>11, <1>12, <1>13, <1>14
        DEF Next, BotStep

\* What a handler reads are rows that exist.
LEMMA ReadStored ==
  ASSUME KeysStored, NEW c \in Requests, NEW m \in ReadBy(c).keys, c \in Request
  PROVE  Stored(m)
<1>1. CASE c.op = "claim"
  <2>1. m \in ClaimBatch
    BY <1>1, ReadByParts
  <2> QED BY <2>1 DEF ClaimBatch, Claimable, Stored
<1>2. CASE c.op # "claim"
  BY <1>2, ReadByParts DEF KeysStored
<1> QED BY <1>1, <1>2

\* No step takes up a message without a row.
LEMMA StoredStep == LoopInv /\ [Next]_vars => KeysStored'
<1> SUFFICES ASSUME TypeOK, Loop, KeysStored, [Next]_vars PROVE KeysStored'
  BY DEF LoopInv
<1>1. \A m \in Keys : Stored(m) => Stored(m)'
  BY RowsStay
<1>2. SUFFICES /\ batch' \cup current' \subseteq batch \cup current
                    \cup UNION {c.keys : c \in Requests}
               /\ \A c \in Requests' : \A m \in c.keys : m \in Keys /\ Stored(m)
  <2>1. \A c \in Requests : c \in Request /\ c.keys \subseteq Keys
    BY DEF Requests, TypeOK, Request
  <2>2. \A m \in batch' \cup current' : m \in Keys /\ Stored(m)
    BY <1>2, <2>1 DEF KeysStored, TypeOK
  <2> QED BY <1>1, <1>2, <2>2 DEF KeysStored
<1> DEFINE Kept == batch' \cup current' \subseteq batch \cup current
                     \cup UNION {c.keys : c \in Requests}
           Asked == \A c \in Requests' : \A m \in c.keys : m \in Keys /\ Stored(m)
<1>3. \A c \in Requests : c \in Request /\ \A m \in c.keys : m \in Keys /\ Stored(m)
  BY DEF Requests, TypeOK, Request, KeysStored
<1>4. \A m \in batch \cup current : m \in Keys /\ Stored(m)
  BY DEF KeysStored, TypeOK
<1>5. Requests' \subseteq Requests => Asked
  BY <1>3
<1>6. ASSUME NEW d \in Request, Requests' \subseteq Requests \cup {d},
             \A m \in d.keys : m \in Keys /\ Stored(m)
      PROVE  Asked
  BY <1>3, <1>6
<1>7. ASSUME NEW c \in Requests, Requests' \subseteq Requests \cup {ReadBy(c)} PROVE Asked
  <2>1. c \in Request /\ ReadBy(c) \in Request
    BY <1>3, <1>7, ReadByType
  <2>2. \A m \in ReadBy(c).keys : m \in Keys /\ Stored(m)
    BY <1>3, <1>7, <2>1, ReadStored DEF Request
  <2> QED BY <1>6, <1>7, <2>1, <2>2
<1>8. CASE UNCHANGED <<batch, current>> /\ Requests' \subseteq Requests
  BY <1>5, <1>8
<1>9. CASE Turn
  BY <1>5, <1>9 DEF Turn, Requests
<1>10. CASE SendClaim \/ SendAck \/ SendNack
  <2>1. PICK op \in {"claim", "ack", "nack"}, keys \in {{}, current} :
          call' = NewCall(op, keys) /\ UNCHANGED <<batch, current, strays>>
    BY <1>10 DEF SendClaim, SendAck, SendNack, Send
  <2> keys \in SUBSET Keys
    BY DEF TypeOK
  <2>2. NewCall(op, keys) \in Request /\ NewCall(op, keys).keys = keys
    BY NewCallParts
  <2>3. Requests' \subseteq Requests \cup {NewCall(op, keys)}
    BY <2>1 DEF Requests
  <2> QED BY <1>4, <1>6, <2>1, <2>2, <2>3
<1>11. CASE ServerReads
  <2>1. call \in Requests /\ Requests' \subseteq Requests \cup {ReadBy(call)}
    BY <1>11 DEF ServerReads, Requests
  <2> QED BY <1>7, <1>11, <2>1 DEF ServerReads
<1>12. CASE Answered
  <2>1. call \in Requests /\ call \in Request
    BY <1>12 DEF Answered, Requests, TypeOK
  <2>2. Requests' \subseteq Requests
    BY <1>12, <2>1 DEF Answered, Goto, Done, Abandon, Requests, Request
  <2>3. batch' \in {{}, batch, call.keys} /\ current' \in {{}, current}
    BY <1>12, <2>1 DEF Answered, Goto, Done, Abandon, Request
  <2> QED BY <1>5, <2>1, <2>2, <2>3
<1>13. CASE Delivers \/ SendFails \/ SendFailsLate
  BY <1>8, <1>13 DEF Delivers, SendFails, SendFailsLate, Requests
<1>14. CASE Strays
  <2>1. PICK c \in strays : StrayReads(c) \/ StrayCommits(c) \/ StrayLost(c)
    BY <1>14 DEF Strays
  <2>2. c \in Requests /\ UNCHANGED <<call, batch, current>>
    BY <2>1 DEF StrayReads, StrayCommits, StrayLost, bot, Requests
  <2>3. CASE StrayReads(c)
    BY <1>7, <2>2, <2>3 DEF StrayReads, Requests
  <2>4. CASE StrayCommits(c) \/ StrayLost(c)
    BY <1>8, <2>2, <2>4 DEF StrayCommits, StrayLost, Requests
  <2> QED BY <2>1, <2>3, <2>4
<1>15. CASE CallFails \/ BotCrashes
  <2>1. Leave /\ call' = NoCall /\ batch' \in {{}, batch} /\ current' \in {{}, current}
    BY <1>15 DEF CallFails, BotCrashes, Goto, Abandon
  <2>2. CASE strays' = strays
    BY <1>5, <2>1, <2>2 DEF Requests
  <2>3. CASE call # NoCall /\ strays' = strays \cup {[call EXCEPT !.nr = faults + 1]}
    <3> DEFINE d == [call EXCEPT !.nr = faults + 1]
    <3>1. call \in Requests /\ call \in Request /\ faults + 1 \in Nat
      BY <2>3 DEF Requests, TypeOK
    <3>2. d \in Request /\ d.keys = call.keys
      BY <3>1 DEF Request
    <3>3. Requests' \subseteq Requests \cup {d}
      BY <2>1, <2>3 DEF Requests
    <3> HIDE DEF d
    <3>4. Asked
      BY <1>3, <1>6, <3>1, <3>2, <3>3
    <3> QED BY <2>1, <3>4
  <2> QED BY <2>1, <2>2, <2>3 DEF Leave
<1>16. CASE BotStarts
  BY <1>5, <1>16 DEF BotStarts, Goto, Requests
<1>17. CASE \E m \in Keys : Enqueues(m) \/ TimePasses(m)
  BY <1>8, <1>17 DEF Enqueues, TimePasses, Others, bot, Requests
<1>18. CASE UNCHANGED vars
  BY <1>8, <1>18 DEF vars, bot, Requests
<1> QED BY <1>9, <1>10, <1>11, <1>12, <1>13, <1>14, <1>15, <1>16, <1>17, <1>18
        DEF Next, BotStep, Faulty

\* Every action keeps what is known of the loop.
LEMMA LoopInvStep == LoopInv /\ [Next]_vars => LoopInv'
  BY LoopStep, StoredStep, TypeStep DEF LoopInv

-----------------------------------------------------------------------------
(* Without a fault.                                                        *)
(*                                                                         *)
(* Then the leased rows are those the bot has in hand, under its own name, *)
(* a message was received exactly if its row is sent or about to be, and   *)
(* no handler's snapshot is stale.                                         *)

InOrder(m) ==
  LET r == row[m]
  IN  /\ r.state = "leased" <=> m \in batch \cup current
      /\ r.owner = IF r.state = "leased" THEN me ELSE NoWorker
      /\ r.lease = "none" <=> r.state # "leased"
      /\ r.state \in {"leased", "sent"} => r.due
      /\ delivered[m] =
           IF r.state = "sent" \/ (m \in current /\ pc \in {"ack", "acking"}) THEN 1 ELSE 0

Fresh(m) ==
  LET r == row[m]
      s == call.snap[m]
  IN  /\ s.state = r.state /\ s.owner = r.owner
      /\ s.lease = "none" <=> r.lease = "none"
      /\ call.op = "claim" => r.state = "pending" /\ r.due

Calm ==
  faults = 0 =>
    /\ \A m \in Keys : InOrder(m)
    /\ pc \in Waiting /\ call.read => \A m \in call.keys : Fresh(m)

CalmInv == LoopInv /\ Calm

\* Nothing is in hand, leased or delivered at the start.
LEMMA CalmInit == Init => CalmInv
  BY LoopInit DEF Init, InitRows, CalmInv, Calm, InOrder, NoRow, Waiting

\* What a handler reads is fresh, and what a claim reads can be claimed.
LEMMA ReadIsFresh ==
  ASSUME CalmInv, faults = 0, ServerReads
  PROVE  \A m \in call'.keys : Fresh(m)'
<1> USE DEF CalmInv, LoopInv
<1>1. call \in Request /\ call' = ReadBy(call) /\ row' = row /\ pc \in Waiting
  BY DEF ServerReads, TypeOK, Loop
<1>2. /\ call'.op = call.op
      /\ call'.keys = IF call.op = "claim" THEN ClaimBatch ELSE call.keys
      /\ \A m \in Keys : m \in call'.keys => call'.snap[m] = row[m]
  BY <1>1, ReadByParts
<1> SUFFICES ASSUME NEW m \in call'.keys PROVE Fresh(m)'
  OBVIOUS
<1>3. m \in Keys
  BY <1>1, <1>2 DEF ClaimBatch, Request
<1>4. call.op = "claim" => row[m].state = "pending" /\ row[m].due
  <2> SUFFICES ASSUME call.op = "claim" PROVE row[m].state = "pending" /\ row[m].due
    OBVIOUS
  <2>1. Claimable(m)
    BY <1>2 DEF ClaimBatch
  <2>2. batch \cup current = {}
    BY <1>1 DEF Loop, Holding, Waiting
  <2>3. row[m].state # "leased"
    BY <1>3, <2>2 DEF Calm, InOrder
  <2> QED BY <2>1, <2>3 DEF Claimable
<1> QED BY <1>1, <1>2, <1>3, <1>4 DEF Fresh

\* Without a fault the answer of a handler is what the bot asked for, and the
\* commit does exactly that.
LEMMA AnswerInOrder ==
  ASSUME CalmInv, faults = 0, Answered
  PROVE  /\ call \in Request /\ Accepted(call) /\ pc' # "nack"
         /\ \A m \in Keys : InOrder(m)'
         /\ call.op = "claim" => \A m \in Keys : Stage(m)' = Stage(m)
         /\ call.op = "ack" => \E m \in Keys :
              /\ current = {m} /\ delivered[m] = 1
              /\ row[m].state = "leased" /\ row'[m].state = "sent"
              /\ \A n \in Keys \ {m} : row'[n] = row[n]
         /\ call.op = "nack" => \E m \in Keys :
              /\ current = {m} /\ delivered[m] = 0
              /\ row[m].state = "leased" /\ row'[m].state \in {"pending", "dead"}
              /\ \A n \in Keys \ {m} : row'[n] = row[n]
<1> USE DEF CalmInv, LoopInv
<1>1. call \in Request /\ call.read /\ Commit(call) /\ pc \in Waiting
      /\ delivered' = delivered /\ me' = me /\ call.worker = me
      /\ \A m \in call.keys : Fresh(m)
  BY DEF Answered, TypeOK, Loop, Calm
<1>2. ASSUME NEW m \in Keys PROVE InOrder(m)
  BY DEF Calm
<1>3. me \in Workers /\ NoWorker \notin Workers /\ delivered \in [Keys -> Nat]
  BY OutboxAssumption DEF TypeOK
<1>4. CASE call.op = "claim"
  <2>1. pc' = "next" /\ batch' = call.keys /\ current' = {} /\ batch = {} /\ current = {}
        /\ pc = "claiming"
    BY <1>1, <1>4 DEF Answered, Goto, Loop, Waiting, Holding
  <2>2. Accepted(call)
    BY <1>4 DEF Accepted
  <2>3. ASSUME NEW m \in Keys PROVE InOrder(m)' /\ Stage(m)' = Stage(m)
    <3>1. CASE m \in call.keys
      <4>1. row'[m] = Claimed(row[m], call.snap[m], me)
        BY <1>1, <1>4, <2>2, <3>1, CommitParts DEF Written
      <4>2. row[m] \in Row /\ call.snap[m] \in Row
        BY <1>1 DEF TypeOK, Request
      <4>3. row[m].state = "pending" /\ row[m].due /\ call.snap[m].state = "pending"
            /\ call.snap[m].owner = row[m].owner
        BY <1>1, <1>4, <3>1 DEF Fresh
      <4>4. row[m].owner = NoWorker /\ delivered[m] = 0
        BY <1>2, <2>1, <4>3 DEF InOrder
      <4>5. row'[m].state = "leased" /\ row'[m].owner = me /\ row'[m].lease = "running"
            /\ row'[m].due
        BY <1>3, <4>1, <4>2, <4>3, <4>4, WrittenParts
      <4> QED BY <1>1, <2>1, <3>1, <4>3, <4>4, <4>5 DEF InOrder, Stage
    <3>2. CASE m \notin call.keys
      <4>1. row'[m] = row[m]
        BY <1>1, <3>2, CommitParts
      <4> QED BY <1>1, <1>2, <2>1, <3>2, <4>1 DEF InOrder, Stage
    <3> QED BY <3>1, <3>2
  <2> QED BY <1>1, <1>4, <2>1, <2>2, <2>3
<1>5. CASE call.op # "claim"
  <2>1. call.op \in {"ack", "nack"} /\ pc \in {"acking", "nacking"}
        /\ (pc = "acking" <=> call.op = "ack") /\ call.keys = current
    BY <1>1, <1>5 DEF Request, Loop, Waiting
  <2>2. PICK m \in Keys : current = {m} /\ m \notin batch
    BY <2>1 DEF Loop, Holding
  <2>3. row[m].state = "leased" /\ row[m].owner = me /\ row[m].lease # "none" /\ row[m].due
        /\ delivered[m] = IF call.op = "ack" THEN 1 ELSE 0
    BY <1>2, <2>1, <2>2 DEF InOrder
  <2>4. call.snap[m].state = "leased" /\ call.snap[m].owner = me
        /\ call.snap[m].lease # "none"
    BY <1>1, <2>1, <2>2, <2>3 DEF Fresh
  <2>5. Accepted(call)
    BY <1>1, <2>1, <2>2, <2>4 DEF Accepted, AckAccepted, RejectAccepted
  <2>6. pc' = "next" /\ batch' = batch /\ current' = {}
    BY <2>1, <2>5 DEF Answered, Goto, Done
  <2>7. \A n \in Keys \ {m} : row'[n] = row[n]
    BY <1>1, <2>1, <2>2, CommitParts
  <2>8. row[m] \in Row /\ call.snap[m] \in Row /\ row'[m] = Written(call, m)
    BY <1>1, <2>1, <2>2, <2>5, CommitParts
  <2>9. row'[m].owner = NoWorker /\ row'[m].lease = "none"
        /\ IF call.op = "ack" THEN row'[m].state = "sent" /\ row'[m].due
           ELSE row'[m].state \in {"pending", "dead"}
    <3>1. CASE call.op = "ack"
      BY <1>3, <2>3, <2>4, <2>8, <3>1, WrittenParts DEF Written
    <3>2. CASE call.op = "nack"
      BY <1>3, <2>3, <2>4, <2>8, <3>2, WrittenParts DEF Written
    <3> QED BY <2>1, <3>1, <3>2
  <2>10. ASSUME NEW n \in Keys PROVE InOrder(n)'
    <3>1. CASE n = m
      BY <1>1, <2>1, <2>2, <2>3, <2>6, <2>9, <3>1 DEF InOrder
    <3>2. CASE n # m
      <4>1. InOrder(n)
        BY <1>2
      <4> QED BY <1>1, <2>1, <2>2, <2>6, <2>7, <3>2, <4>1 DEF InOrder
    <3> QED BY <3>1, <3>2
  <2> QED BY <1>1, <1>5, <2>1, <2>2, <2>3, <2>5, <2>6, <2>7, <2>9, <2>10
<1> QED BY <1>4, <1>5

\* Every fault is counted.
LEMMA FaultsCount ==
  ASSUME TypeOK, [Next]_vars
  PROVE  faults' = IF Faulty THEN faults + 1 ELSE faults
<1>1. CASE Faulty
  BY <1>1 DEF Faulty, SendFailsLate, CallFails, BotCrashes, Fault
<1>2. CASE BotStep
  <2>1. faults' = faults
    BY <1>2 DEF BotStep, Turn, SendClaim, SendAck, SendNack, Send, ServerReads, Answered,
                Delivers, SendFails
  <2>2. ~Faulty
    BY <2>1 DEF Faulty, SendFailsLate, CallFails, BotCrashes, Fault, TypeOK
  <2> QED BY <2>1, <2>2
<1>3. CASE ~Faulty /\ ~BotStep
  <2>1. CASE \E m \in Keys : Enqueues(m) \/ TimePasses(m)
    BY <1>3, <2>1 DEF Enqueues, TimePasses, Others
  <2>2. CASE Strays
    BY <1>3, <2>2 DEF Strays, StrayReads, StrayCommits, StrayLost
  <2>3. CASE BotStarts \/ UNCHANGED vars
    BY <1>3, <2>3 DEF BotStarts, vars
  <2> QED BY <1>3, <2>1, <2>2, <2>3 DEF Next
<1> QED BY <1>1, <1>2, <1>3

\* Before the first fault no stray takes a step and no bot starts again.
LEMMA NoFaultYet ==
  ASSUME LoopInv, [Next]_vars, faults' = 0
  PROVE  faults = 0 /\ ~Faulty /\ ~Strays /\ ~BotStarts
<1>1. faults = 0 /\ ~Faulty
  BY FaultsCount DEF LoopInv, TypeOK
<1> QED BY <1>1 DEF LoopInv, Loop, Strays, BotStarts

\* As long as no fault occurs, every action keeps the calm.
LEMMA CalmStep == CalmInv /\ [Next]_vars => CalmInv'
<1> SUFFICES ASSUME CalmInv, [Next]_vars, faults' = 0
             PROVE  /\ \A m \in Keys : InOrder(m)'
                    /\ pc' \in Waiting /\ call'.read => \A m \in call'.keys : Fresh(m)'
  BY LoopInvStep DEF CalmInv, Calm, Waiting
<1> USE DEF CalmInv, LoopInv
<1>0. faults = 0 /\ ~Faulty /\ ~Strays /\ ~BotStarts
  BY NoFaultYet
<1> DEFINE Orderly == \A m \in Keys : InOrder(m)'
           Current == pc' \in Waiting /\ call'.read => \A m \in call'.keys : Fresh(m)'
<1>1. \A m \in Keys : InOrder(m)
  BY <1>0 DEF Calm
<1>2. pc \in Waiting /\ call.read => \A m \in call.keys : Fresh(m)
  BY <1>0 DEF Calm
<1>3. pc \in Waiting => call \in Request /\ \A m \in call.keys : m \in Keys /\ Stored(m)
  BY DEF Loop, TypeOK, KeysStored, Requests, Request
<1>4. ASSUME NEW n \in Keys, Enqueues(n) PROVE Orderly /\ Current
  <2>1. /\ UNCHANGED <<pc, me, batch, current, call, delivered>> /\ ~Stored(n)
        /\ \A m \in Keys \ {n} : row'[m] = row[m]
        /\ row'[n].state = "pending" /\ row'[n].owner = NoWorker /\ row'[n].lease = "none"
    BY <1>4 DEF Enqueues, Enqueue, Others, bot, TypeOK, NoRow
  <2>2. Orderly
    BY <1>1, <2>1 DEF InOrder, Stored
  <2>3. Current
    BY <1>2, <1>3, <2>1 DEF Fresh
  <2> QED BY <2>2, <2>3
<1>5. ASSUME NEW n \in Keys, TimePasses(n) PROVE Orderly /\ Current
  <2>1. /\ UNCHANGED <<pc, me, batch, current, call, delivered>>
        /\ \A m \in Keys : /\ row'[m].state = row[m].state /\ row'[m].owner = row[m].owner
                           /\ row'[m].lease = "none" <=> row[m].lease = "none"
                           /\ row[m].due => row'[m].due
    BY <1>5 DEF TimePasses, LeaseExpires, BackoffElapses, Others, bot, TypeOK, Row
  <2>2. Orderly
    BY <1>1, <2>1 DEF InOrder
  <2>3. Current
    BY <1>2, <1>3, <2>1 DEF Fresh
  <2> QED BY <2>2, <2>3
<1>6. CASE Turn
  <2>1. /\ UNCHANGED <<row, me, call, delivered>> /\ pc' \notin Waiting
        /\ batch' \cup current' = batch \cup current
        /\ pc \notin {"ack", "acking"} /\ pc' \notin {"ack", "acking"}
    BY <1>6 DEF Turn, Waiting, Loop, Holding
  <2> QED BY <1>1, <2>1 DEF InOrder
<1>7. CASE SendClaim \/ SendAck \/ SendNack
  <2>1. /\ UNCHANGED <<row, me, batch, current, delivered>> /\ call'.read = FALSE
        /\ pc \in {"ack", "acking"} <=> pc' \in {"ack", "acking"}
    BY <1>7 DEF SendClaim, SendAck, SendNack, Send, NewCall
  <2> QED BY <1>1, <2>1 DEF InOrder
<1>8. CASE ServerReads
  <2>1. UNCHANGED <<row, me, batch, current, delivered, pc>>
    BY <1>8 DEF ServerReads
  <2>2. Orderly
    BY <1>1, <2>1 DEF InOrder
  <2> QED BY <1>0, <1>8, <2>2, ReadIsFresh
<1>9. CASE Answered
  <2>1. pc' \notin Waiting
    BY <1>0, <1>9, AnswerInOrder DEF Answered, Goto, Done, Abandon, Waiting, Request
  <2> QED BY <1>0, <1>9, <2>1, AnswerInOrder
<1>10. CASE Delivers \/ SendFails
  <2>1. /\ UNCHANGED <<row, me, batch, current>> /\ pc = "deliver" /\ pc' \notin Waiting
        /\ IF pc' = "ack" THEN Received ELSE pc' = "nack" /\ delivered' = delivered
    BY <1>10 DEF Delivers, SendFails, Waiting
  <2>2. Orderly
    BY <1>1, <2>1 DEF InOrder, Received, TypeOK
  <2> QED BY <2>1, <2>2
<1>11. CASE UNCHANGED vars
  BY <1>1, <1>2, <1>11 DEF vars, bot, InOrder, Fresh
<1> QED BY <1>0, <1>4, <1>5, <1>6, <1>7, <1>8, <1>9, <1>10, <1>11 DEF Next, BotStep

\* A message settled without a fault keeps its row as it is.
LEMMA SentStays ==
  ASSUME CalmInv, [Next]_vars, faults' = 0, NEW m \in Keys, row[m].state = "sent"
  PROVE  row'[m] = row[m]
<1> USE DEF CalmInv, LoopInv
<1>1. faults = 0 /\ ~Faulty /\ ~Strays
  BY NoFaultYet
<1>2. InOrder(m) /\ row[m].due /\ row[m].lease = "none"
  BY <1>1 DEF Calm, InOrder
<1>3. ASSUME NEW n \in Keys, Enqueues(n) \/ TimePasses(n) PROVE row'[m] = row[m]
  <2>1. n # m
    BY <1>2, <1>3 DEF Enqueues, Enqueue, Stored, TimePasses, LeaseExpires, BackoffElapses
  <2> QED BY <1>3, <2>1 DEF Enqueues, Enqueue, TimePasses, LeaseExpires, BackoffElapses,
                            TypeOK
<1>4. CASE Answered
  <2>1. call \in Request /\ Commit(call)
    BY <1>4 DEF Answered, TypeOK
  <2>2. m \notin call.keys
    <3>1. call.op = "claim" => \A n \in call.keys : row[n].state = "pending"
      BY <1>1, <1>4 DEF Answered, Calm, Fresh, Loop
    <3>2. call.op # "claim" => call.keys = current
      BY <1>4, <2>1 DEF Answered, Loop, Waiting, Request
    <3>3. m \notin current
      BY <1>2 DEF InOrder
    <3> QED BY <3>1, <3>2, <3>3
  <2> QED BY <2>1, <2>2, CommitParts
<1>5. (BotStep /\ ~Answered) \/ BotStarts \/ UNCHANGED vars => row' = row
  BY DEF BotStep, Turn, SendClaim, SendAck, SendNack, Send, ServerReads, Delivers, SendFails,
         BotStarts, vars
<1> QED BY <1>1, <1>3, <1>4, <1>5 DEF Next

\* What a claim found was open.
FoundOpen ==
  \A c \in Requests : \A m \in c.keys :
    c.op = "claim" /\ c.read => c.snap[m].state \in {"pending", "leased"}

\* A request that was read found its rows as they are.
LEMMA ReadFindsOpen ==
  ASSUME TypeOK, NEW c \in Request, NEW m \in ReadBy(c).keys, ReadBy(c).op = "claim"
  PROVE  ReadBy(c).snap[m].state \in {"pending", "leased"}
<1>1. m \in ClaimBatch /\ m \in Keys
  BY ReadByParts DEF ClaimBatch
<1>2. row[m].state \in {"pending", "leased"}
  BY <1>1 DEF ClaimBatch, Claimable
<1> QED BY <1>1, <1>2, ReadByParts

\* Snapshots are taken by reading, and kept until the commit.
LEMMA FoundOpenStep == LoopInv /\ FoundOpen /\ [Next]_vars => FoundOpen'
<1> SUFFICES ASSUME TypeOK, Loop, FoundOpen, [Next]_vars,
                    NEW c \in Requests', NEW m \in c.keys, c.op = "claim", c.read
             PROVE  c.snap[m].state \in {"pending", "leased"}
  BY DEF FoundOpen, LoopInv
<1>1. CASE c \in Requests
  BY <1>1 DEF FoundOpen
<1>2. CASE c \notin Requests
  <2>1. CASE ServerReads
    <3>1. call \in Request /\ c = ReadBy(call)
      BY <1>2, <2>1 DEF ServerReads, Requests, TypeOK
    <3> QED BY <3>1, ReadFindsOpen
  <2>2. CASE Strays
    <3>1. PICK d \in strays : StrayReads(d) \/ StrayCommits(d) \/ StrayLost(d)
      BY <2>2 DEF Strays
    <3>2. d \in Request /\ c = ReadBy(d)
      BY <1>2, <3>1 DEF StrayReads, StrayCommits, StrayLost, bot, Requests, TypeOK
    <3> QED BY <3>2, ReadFindsOpen
  <2>3. CASE SendClaim \/ SendAck \/ SendNack
    <3>1. c = call' /\ call'.read = FALSE
      BY <1>2, <2>3 DEF SendClaim, SendAck, SendNack, Send, NewCall, Requests
    <3> QED BY <3>1
  <2>4. CASE CallFails \/ BotCrashes
    <3>1. call' = NoCall /\ Leave
      BY <2>4 DEF CallFails, BotCrashes, Goto, Abandon
    <3>2. call \in Request /\ call \in Requests /\ c = [call EXCEPT !.nr = faults + 1]
      BY <1>2, <3>1 DEF Leave, Requests, TypeOK
    <3>3. c.op = call.op /\ c.read = call.read /\ c.keys = call.keys /\ c.snap = call.snap
      BY <3>2 DEF Request
    <3> QED BY <3>2, <3>3 DEF FoundOpen
  <2>5. CASE Turn \/ Answered \/ Delivers \/ SendFails \/ SendFailsLate \/ BotStarts
    BY <1>2, <2>5 DEF Turn, Answered, Goto, Done, Abandon, Delivers, SendFails, SendFailsLate,
                      BotStarts, Requests, TypeOK, Request
  <2>6. CASE UNCHANGED vars \/ \E n \in Keys : Enqueues(n) \/ TimePasses(n)
    BY <1>2, <2>6 DEF vars, bot, Enqueues, TimePasses, Others, Requests
  <2> QED BY <2>1, <2>2, <2>3, <2>4, <2>5, <2>6 DEF Next, BotStep, Faulty
<1> QED BY <1>1, <1>2

\* A commit that ends the state "sent" is that of a request which Reopens.
LEMMA CommitReopens ==
  ASSUME TypeOK, FoundOpen, NEW c \in Requests, c.read, Commit(c), NEW m \in Keys,
         row[m].state = "sent", row'[m].state # "sent"
  PROVE  Reopens(c, m)
<1>1. c \in Request
  BY DEF Requests, TypeOK
<1>2. /\ row[m] \in Row /\ c.snap[m] \in Row /\ c.worker \in Workers
      /\ c.op \in {"claim", "ack", "nack"}
      /\ m \in c.keys /\ Accepted(c) /\ row'[m] = Written(c, m)
  BY <1>1, CommitParts
<1>3. CASE c.op = "claim"
  <2>1. c.snap[m].state # "leased"
    BY <1>2, <1>3, WrittenParts DEF Written
  <2>2. c.snap[m].state \in {"pending", "leased"}
    BY <1>2, <1>3 DEF FoundOpen
  <2> QED BY <1>2, <1>3, <2>1, <2>2 DEF Reopens
<1>4. CASE c.op = "ack"
  BY <1>2, <1>4, WrittenParts DEF Written
<1>5. CASE c.op = "nack"
  BY <1>2, <1>5 DEF Accepted, RejectAccepted, Reopens
<1> QED BY <1>2, <1>3, <1>4, <1>5

\* Who else writes a row that was sent leaves it sent.
LEMMA SentReopened ==
  ASSUME TypeOK, FoundOpen, Next, NEW m \in Keys,
         row[m].state = "sent", row'[m].state # "sent"
  PROVE  \E c \in Requests : Commit(c) /\ Reopens(c, m)
<1>1. CASE Answered
  <2>1. call \in Requests /\ call.read /\ Commit(call)
    BY <1>1 DEF Answered, Requests
  <2> QED BY <2>1, CommitReopens
<1>2. CASE Strays
  <2>1. PICK c \in strays : StrayCommits(c)
    BY <1>2 DEF Strays, StrayReads, StrayLost
  <2>2. c \in Requests /\ c.read /\ Commit(c)
    BY <2>1 DEF StrayCommits, Requests
  <2> QED BY <2>2, CommitReopens
<1>3. CASE \E n \in Keys : Enqueues(n) \/ TimePasses(n)
  <2>1. PICK n \in Keys : Enqueues(n) \/ TimePasses(n)
    BY <1>3
  <2>2. row'[m].state = row[m].state
    BY <2>1 DEF Enqueues, Enqueue, TimePasses, LeaseExpires, BackoffElapses, TypeOK, Row,
                Stored
  <2> QED BY <2>2
<1>4. (BotStep /\ ~Answered) \/ Faulty \/ BotStarts => row' = row
  BY DEF BotStep, Turn, SendClaim, SendAck, SendNack, Send, ServerReads, Delivers, SendFails,
         Faulty, SendFailsLate, CallFails, BotCrashes, BotStarts
<1> QED BY <1>1, <1>2, <1>3, <1>4 DEF Next

\* An acknowledged row is never written again before the first fault, and never
\* opened again but by a claim that found it pending or a rejection that found it
\* held by its worker, for any number of faults.
THEOREM SentSettled == Spec => SentIsFinal
<1>1. FoundOpen /\ CalmInv /\ [Next]_vars =>
        [\A m \in Keys :
           row[m].state = "sent" /\ row'[m] # row[m] =>
             /\ faults > 0
             /\ row'[m].state # "sent" =>
                  \E c \in Requests : Commit(c) /\ Reopens(c, m)]_vars
  <2> SUFFICES ASSUME FoundOpen, CalmInv, Next, NEW m \in Keys,
                      row[m].state = "sent", row'[m] # row[m]
               PROVE  /\ faults > 0
                      /\ row'[m].state # "sent" =>
                           \E c \in Requests : Commit(c) /\ Reopens(c, m)
    OBVIOUS
  <2>1. TypeOK
    BY DEF CalmInv, LoopInv
  <2>2. ~Faulty
    BY DEF Faulty, SendFailsLate, CallFails, BotCrashes
  <2>3. faults' = faults /\ faults \in Nat
    BY <2>1, <2>2, FaultsCount DEF TypeOK
  <2>4. faults > 0
    BY <2>3, SentStays
  <2> QED BY <2>1, <2>4, SentReopened
<1>2. Init => FoundOpen
  BY DEF Init, FoundOpen, Requests
<1>3. CalmInv => LoopInv
  BY DEF CalmInv
<1> QED BY <1>1, <1>2, <1>3, FoundOpenStep, CalmInit, CalmStep, PTL DEF Spec, SentIsFinal

-----------------------------------------------------------------------------
(* The refinement of AtLeastOnce.                                          *)

stageBar == [m \in Keys |-> Stage(m)]

RefInv == CalmInv /\ SentWasDelivered

\* Both invariants hold together.
LEMMA RefInvSafe == Spec => []RefInv
<1>1. IInv => SentWasDelivered
  BY DEF IInv
<1> QED BY <1>1, IInvInit, IInvStep, CalmInit, CalmStep, PTL DEF Spec, RefInv

\* At the start nothing was promised.
LEMMA RefinesInit == Init => Promise!Init
  BY DEF Init, InitRows, Promise!Init, Stage, NoRow

\* A stage is one of the four, and is absent for keys without a row only.
LEMMA StageType ==
  ASSUME TypeOK, NEW m \in Keys
  PROVE  /\ Stage(m) \in {"absent", "open", "sent", "dead"}
         /\ Stage(m) = "absent" <=> ~Stored(m)
         /\ Stage(m) = "sent" <=> row[m].state = "sent"
  BY DEF TypeOK, Stage, Stored, Row, RowState

\* A step that changes the stage of one message moves that message.
LEMMA MovesOne ==
  ASSUME NEW m \in Keys, NEW to,
         Stage(m)' = to, \A n \in Keys \ {m} : row'[n] = row[n]
  PROVE  stageBar' = [stageBar EXCEPT ![m] = to]
  BY DEF stageBar, Stage

\* A step that keeps every row's stage keeps the abstract table.
LEMMA StageKept ==
  ASSUME \A m \in Keys : Stage(m)' = Stage(m)
  PROVE  stageBar' = stageBar
  BY DEF stageBar

\* Whatever a late commit writes, no row appears or disappears, and none
\* becomes sent that was not received.
LEMMA CommitOverwrites ==
  ASSUME RefInv, SentWasDelivered', TypeOK', NEW c \in Requests, c \in Request, Commit(c),
         faults # 0, UNCHANGED <<delivered, faults>>
  PROVE  Promise!Overwrite
<1>1. ASSUME NEW m \in Keys
      PROVE  /\ Stage(m)' \in {"absent", "open", "sent", "dead"}
             /\ Stage(m) = "absent" <=> Stage(m)' = "absent"
             /\ Stage(m)' = "sent" => delivered[m] > 0
  <2>1. Stored(m) <=> Stored(m)'
    <3>1. Stored(m) => Stored(m)'
      BY CommitParts DEF RefInv, CalmInv, LoopInv, Stored
    <3>2. ~Stored(m) => m \notin c.keys
      BY DEF RefInv, CalmInv, LoopInv, KeysStored
    <3>3. m \notin c.keys => row'[m] = row[m]
      BY CommitParts DEF RefInv, CalmInv, LoopInv
    <3> QED BY <3>1, <3>2, <3>3 DEF Stored
  <2>2. Stage(m)' \in {"absent", "open", "sent", "dead"}
        /\ (Stage(m)' = "absent" <=> ~Stored(m)')
        /\ (Stage(m)' = "sent" <=> row'[m].state = "sent")
    BY DEF TypeOK, Stage, Stored, Row, RowState
  <2>3. Stage(m) = "absent" <=> ~Stored(m)
    BY StageType DEF RefInv, CalmInv, LoopInv
  <2> QED BY <2>1, <2>2, <2>3 DEF SentWasDelivered
<1> QED BY <1>1 DEF Promise!Overwrite

\* Every step of the outbox, the bot and its requests is one of the promise's
\* steps or leaves rows' stages and deliveries alone.
LEMMA RefinesStep ==
  RefInv /\ RefInv' /\ [Next]_vars
    => [Promise!Next]_<<stageBar, delivered, faults = 0>>
<1> SUFFICES ASSUME RefInv, RefInv', [Next]_vars
             PROVE  Promise!Next \/ UNCHANGED <<stageBar, delivered, faults = 0>>
  OBVIOUS
<1> USE DEF RefInv, CalmInv, LoopInv
<1> DEFINE Stutter == UNCHANGED <<stageBar, delivered, faults = 0>>
<1>1. ASSUME \A m \in Keys : Stage(m)' = Stage(m), UNCHANGED <<delivered, faults>>
      PROVE  Stutter
  BY <1>1, StageKept
<1>2. ASSUME row' = row, UNCHANGED <<delivered, faults>> PROVE Stutter
  BY <1>1, <1>2 DEF Stage
<1>3. ASSUME NEW m \in Keys, Enqueues(m) PROVE Promise!Next
  <2>1. /\ UNCHANGED <<delivered, faults>> /\ \A n \in Keys \ {m} : row'[n] = row[n]
        /\ Stage(m) = "absent" /\ Stage(m)' = "open"
    BY <1>3 DEF Enqueues, Enqueue, Others, TypeOK, NoRow, Stage, Stored
  <2>2. stageBar' = [stageBar EXCEPT ![m] = "open"]
    BY <2>1, MovesOne
  <2>3. Promise!Accept(m)
    BY <2>1, <2>2 DEF stageBar, Promise!Accept, Promise!Move
  <2> QED BY <2>3 DEF Promise!Next
<1>4. ASSUME NEW m \in Keys, TimePasses(m) PROVE Stutter
  <2>1. UNCHANGED <<delivered, faults>> /\ \A n \in Keys : row'[n].state = row[n].state
    BY <1>4 DEF TimePasses, LeaseExpires, BackoffElapses, Others, TypeOK, Row
  <2> QED BY <1>1, <2>1 DEF Stage
<1>5. CASE Delivers
  <2>1. PICK m \in Keys : current = {m}
    BY <1>5 DEF Delivers, Loop, Holding
  <2>2. row' = row /\ faults' = faults /\ delivered' = [delivered EXCEPT ![m] = @ + 1]
    BY <1>5, <2>1 DEF Delivers, Received, TypeOK
  <2>3. Stage(m) # "absent"
    BY <2>1, StageType DEF KeysStored
  <2>4. faults = 0 => Stage(m) = "open" /\ delivered[m] = 0
    BY <1>5, <2>1 DEF Calm, InOrder, Stage, Delivers
  <2>5. stageBar' = stageBar
    BY <2>2 DEF stageBar, Stage
  <2>6. Promise!Receive(m)
    BY <2>2, <2>3, <2>4, <2>5 DEF stageBar, Promise!Receive, Promise!Arrives
  <2> QED BY <2>6 DEF Promise!Next
<1>6. CASE Answered /\ faults = 0
  <2>1. UNCHANGED <<delivered, faults>> /\ call \in Request
    BY <1>6 DEF Answered, TypeOK
  <2>2. CASE call.op = "claim"
    BY <1>1, <1>6, <2>1, <2>2, AnswerInOrder
  <2>3. CASE call.op = "ack"
    <3>1. PICK m \in Keys : /\ current = {m} /\ delivered[m] = 1
                            /\ row[m].state = "leased" /\ row'[m].state = "sent"
                            /\ \A n \in Keys \ {m} : row'[n] = row[n]
      BY <1>6, <2>3, AnswerInOrder
    <3>2. Stage(m) = "open" /\ Stage(m)' = "sent"
      BY <3>1 DEF Stage
    <3>3. stageBar' = [stageBar EXCEPT ![m] = "sent"]
      BY <3>1, <3>2, MovesOne
    <3>4. Promise!Settle(m)
      BY <2>1, <3>1, <3>2, <3>3 DEF stageBar, Promise!Settle, Promise!Move
    <3> QED BY <3>4 DEF Promise!Next
  <2>4. CASE call.op = "nack"
    <3>1. PICK m \in Keys : /\ current = {m} /\ delivered[m] = 0
                            /\ row[m].state = "leased" /\ row'[m].state \in {"pending", "dead"}
                            /\ \A n \in Keys \ {m} : row'[n] = row[n]
      BY <1>6, <2>4, AnswerInOrder
    <3>2. CASE row'[m].state = "pending"
      <4>1. \A n \in Keys : Stage(n)' = Stage(n)
        BY <3>1, <3>2 DEF Stage
      <4> QED BY <1>1, <2>1, <4>1
    <3>3. CASE row'[m].state = "dead"
      <4>1. Stage(m) = "open" /\ Stage(m)' = "dead"
        BY <3>1, <3>3 DEF Stage
      <4>2. stageBar' = [stageBar EXCEPT ![m] = "dead"]
        BY <3>1, <4>1, MovesOne
      <4>3. Promise!GiveUp(m)
        BY <2>1, <3>1, <4>1, <4>2 DEF stageBar, Promise!GiveUp, Promise!Move
      <4> QED BY <4>3 DEF Promise!Next
    <3> QED BY <3>1, <3>2, <3>3
  <2> QED BY <2>1, <2>2, <2>3, <2>4 DEF Request
<1>7. CASE Answered /\ faults # 0
  <2>1. /\ call \in Request /\ call \in Requests /\ Commit(call)
        /\ UNCHANGED <<delivered, faults>>
    BY <1>7 DEF Answered, TypeOK, Requests
  <2> QED BY <1>7, <2>1, CommitOverwrites DEF Promise!Next
<1>8. CASE Strays
  <2>1. PICK c \in strays : StrayReads(c) \/ StrayCommits(c) \/ StrayLost(c)
    BY <1>8 DEF Strays
  <2>2. c \in Request /\ c \in Requests /\ faults # 0 /\ UNCHANGED <<delivered, faults>>
    BY <2>1 DEF TypeOK, Requests, Loop, StrayReads, StrayCommits, StrayLost
  <2>3. CASE StrayCommits(c)
    BY <2>2, <2>3, CommitOverwrites DEF StrayCommits, Promise!Next
  <2>4. CASE StrayReads(c) \/ StrayLost(c)
    BY <1>2, <2>2, <2>4 DEF StrayReads, StrayLost
  <2> QED BY <2>1, <2>3, <2>4
<1>9. CASE Faulty
  <2>1. (faults' = 0) = FALSE
    BY <1>9 DEF Faulty, SendFailsLate, CallFails, BotCrashes, Fault, TypeOK
  <2>2. row' = row /\ stageBar' = stageBar
    BY <1>9 DEF Faulty, SendFailsLate, CallFails, BotCrashes, stageBar, Stage
  <2>3. CASE CallFails \/ BotCrashes
    <3>1. delivered' = delivered
      BY <2>3 DEF CallFails, BotCrashes
    <3> QED BY <2>1, <2>2, <3>1 DEF stageBar, Promise!Next, Promise!Disturb
  <2>4. CASE SendFailsLate
    <3>1. PICK m \in Keys : current = {m}
      BY <2>4 DEF SendFailsLate, Loop, Holding
    <3>2. delivered' = [delivered EXCEPT ![m] = @ + 1]
      BY <2>4, <3>1 DEF SendFailsLate, Received, TypeOK
    <3>3. Stage(m) # "absent"
      BY <3>1, StageType DEF KeysStored
    <3>4. Promise!Arrives(m)
      BY <2>2, <3>2, <3>3 DEF stageBar, Promise!Arrives
    <3> QED BY <2>1, <3>4 DEF Promise!Next, Promise!Disturb
  <2> QED BY <1>9, <2>3, <2>4 DEF Faulty
<1>10. (BotStep /\ ~Answered /\ ~Delivers) \/ BotStarts \/ UNCHANGED vars => Stutter
  BY <1>2 DEF BotStep, Turn, SendClaim, SendAck, SendNack, Send, ServerReads, SendFails,
              BotStarts, vars
<1> QED BY <1>3, <1>4, <1>5, <1>6, <1>7, <1>8, <1>9, <1>10 DEF Next, BotStep

\* Seen through its rows and its deliveries the system keeps the promise of
\* AtLeastOnce, for any number of messages, workers and faults: nothing accepted
\* is forgotten, nothing is settled that was not received, and without faults
\* everything is received at most once and given up only if it never was.
THEOREM KeepsPromise == Spec => DeliversAtLeastOnce
<1>1. RefInv /\ RefInv' /\ [Next]_vars
        => [Promise!Next]_<<[m \in Keys |-> Stage(m)], delivered, faults = 0>>
  BY RefinesStep DEF stageBar
<1> QED BY <1>1, RefInvSafe, RefinesInit, PTL DEF Spec, DeliversAtLeastOnce, Promise!Spec

-----------------------------------------------------------------------------
(* One repetition for one fault.                                           *)
(*                                                                         *)
(* "delivered <= 1 + faults" is not inductive: a row that was received and *)
(* is still open will be received again.  So each row is charged for the   *)
(* deliveries it can still lead to when nothing else goes wrong (Load and  *)
(* the others, by where the bot has the message), and each late claim or   *)
(* rejection for the one it can add when it commits.  A fault pays for     *)
(* what it adds: a late request, or a message received and not recorded.   *)

Bit(b) == IF b THEN 1 ELSE 0

Open(r) == r.state \notin {"sent", "dead"}

\* A late claim can leave a pending row with an owner.
Odd(r) == Bit(r.state = "pending" /\ r.owner # NoWorker)

\* A row the bot has not in hand; one it delivers and cannot acknowledge for
\* the lease is another's; one it will reject.
Load(r) == Bit(Open(r)) + Odd(r)

Foreign(r, w) == Bit(Open(r) /\ r.owner # w) + Odd(r)

Back(r, w) == Bit(Open(r) \/ r.owner = w) + Odd(r)

Reopeners == {c \in strays : c.op # "ack"}

Within(m, n) == delivered[m] + Cardinality(Reopeners) + n <= 1 + faults

Paid(m) ==
  LET r == row[m]
      s == call.snap[m]
  IN  /\ m \notin batch \cup current => Within(m, Load(r))
      /\ pc = "claiming" /\ call.read /\ m \in call.keys =>
           Within(m, IF s.state # "leased" /\ s.owner = me THEN 2
                     ELSE 1 + Foreign(Claimed(r, s, me), me))
      /\ m \in batch \/ (m \in current /\ pc = "deliver") => Within(m, 1 + Foreign(r, me))
      /\ m \in current /\ (pc = "ack" \/ (pc = "acking" /\ ~call.read)) =>
           Within(m, Foreign(r, me))
      /\ m \in current /\ pc = "acking" /\ call.read =>
           Within(m, IF s.state = "sent" THEN Load(r)
                     ELSE IF s.owner = me THEN Odd(r) ELSE Back(r, me))
      /\ m \in current /\ (pc = "nack" \/ (pc = "nacking" /\ ~call.read)) =>
           Within(m, Back(r, me))
      /\ m \in current /\ pc = "nacking" /\ call.read =>
           Within(m, IF s.owner = me THEN 1 + Odd(r) ELSE Load(r))

PaidInv ==
  /\ LoopInv
  /\ IsFiniteSet(strays)
  /\ \A m \in Keys : Paid(m)

\* The charges are numbers, and related as the bot's way through its loop
\* needs it.
LEMMA Charges ==
  ASSUME NEW r \in Row
  PROVE  /\ Odd(r) \in 0..1 /\ Load(r) \in 0..2
         /\ Foreign(r, me) \in 0..2 /\ Back(r, me) \in 0..2
         /\ Odd(r) <= Foreign(r, me) /\ Foreign(r, me) <= Load(r) /\ Load(r) <= Back(r, me)
         /\ Back(r, me) <= 1 + Odd(r)
         /\ r.owner # me => Back(r, me) = Foreign(r, me) /\ Load(r) = Foreign(r, me)
         /\ r.owner = me => Foreign(r, me) = Odd(r)
  BY DEF Odd, Load, Foreign, Back, Bit, Open

\* The charge that is due covers every smaller one.
LEMMA WithinLess ==
  ASSUME TypeOK, NEW m \in Keys, NEW n \in Int, NEW k \in Int, k <= n, Within(m, n),
         IsFiniteSet(strays)
  PROVE  Within(m, k)
<1>1. Cardinality(Reopeners) \in Nat
  BY FS_Subset, FS_CardinalityType DEF Reopeners
<1> QED BY <1>1 DEF Within, TypeOK

\* What the bot's own claim leaves to be charged.
LEMMA ClaimedCharge ==
  ASSUME TypeOK, NEW r \in Row, NEW s \in Row
  PROVE  Foreign(Claimed(r, s, me), me) =
           IF s.state = "leased"
           THEN IF s.owner = me THEN Foreign(r, me) ELSE Bit(r.state = "pending")
           ELSE IF s.owner = me THEN Bit(r.owner # me) ELSE 0
<1> DEFINE q == Claimed(r, s, me)
<1>1. me \in Workers /\ me # NoWorker
  BY OutboxAssumption DEF TypeOK
<1>2. /\ q.state = IF s.state = "leased" THEN r.state ELSE "leased"
      /\ q.owner = IF s.owner = me THEN r.owner ELSE me
  BY <1>1, WrittenParts
<1> HIDE DEF q
<1> QED BY <1>1, <1>2 DEF Foreign, Odd, Bit, Open, q

\* What a commit adds to the charges of a row it writes.
Costlier(r, q, k) ==
  /\ Odd(q) <= Odd(r) + k /\ Load(q) <= Load(r) + k
  /\ Foreign(q, me) <= Foreign(r, me) + k /\ Back(q, me) <= Back(r, me) + k
  /\ Bit(q.state = "pending") <= Bit(r.state = "pending") + k

\* A claim or a rejection adds at most one to each charge, whatever it read,
\* and an acknowledgement nothing.
LEMMA WriteCosts ==
  ASSUME TypeOK, NEW r \in Row, NEW s \in Row, NEW w \in Workers
  PROVE  /\ Costlier(r, Claimed(r, s, w), 1) /\ Costlier(r, Rejected(r, s), 1)
         /\ Costlier(r, Acked(r, s), 0) /\ Costlier(r, r, 0) /\ Costlier(r, r, 1)
<1>1. me \in Workers /\ NoWorker \notin Workers
  BY OutboxAssumption DEF TypeOK
<1> USE DEF Costlier, Odd, Load, Foreign, Back, Bit, Open
<1>2. Costlier(r, Claimed(r, s, w), 1)
  <2> PICK q \in Row : q = Claimed(r, s, w)
    BY WritesAreRows
  <2>1. q.state \in {r.state, "leased"} /\ q.owner \in {r.owner, w}
    BY WrittenParts
  <2>2. CASE q.state = "leased"
    BY <1>1, <2>2
  <2>3. CASE q.state = r.state
    BY <1>1, <2>1, <2>3
  <2> QED BY <2>1, <2>2, <2>3
<1>3. Costlier(r, Rejected(r, s), 1)
  <2> PICK q \in Row : q = Rejected(r, s)
    BY WritesAreRows
  <2>1. q.owner = NoWorker
    BY WrittenParts
  <2> QED BY <1>1, <2>1
<1>4. Costlier(r, r, 0) /\ Costlier(r, r, 1)
  OBVIOUS
<1>5. Costlier(r, Acked(r, s), 0)
  <2> PICK q \in Row : q = Acked(r, s)
    BY WritesAreRows
  <2>1. q = r \/ (q.state = "sent" /\ q.owner = NoWorker)
    BY WrittenParts
  <2> QED BY <1>1, <1>4, <2>1
<1> QED BY <1>2, <1>3, <1>4, <1>5

\* A step that leaves the bot alone keeps a row's charges paid if it pays for
\* what it adds to them.
LEMMA PaidStays ==
  ASSUME TypeOK, TypeOK', LoopInv, NEW m \in Keys, Paid(m), NEW k \in {0, 1},
         UNCHANGED <<pc, me, batch, current, call, delivered, faults>>,
         IsFiniteSet(strays), IsFiniteSet(strays'),
         Cardinality(Reopeners') + k <= Cardinality(Reopeners),
         Costlier(row[m], row'[m], k)
  PROVE  Paid(m)'
<1> PICK r \in Row, q \in Row : r = row[m] /\ q = row'[m]
  BY DEF TypeOK
<1> PICK s : s = call.snap[m]
  OBVIOUS
<1>1. me \in Workers /\ delivered[m] \in Nat /\ faults \in Nat
  BY DEF TypeOK
<1>2. Cardinality(Reopeners) \in Nat /\ Cardinality(Reopeners') \in Nat
  BY FS_Subset, FS_CardinalityType DEF Reopeners
<1>3. /\ Odd(r) \in 0..1 /\ Load(r) \in 0..2 /\ Foreign(r, me) \in 0..2
      /\ Back(r, me) \in 0..2
      /\ Odd(q) \in 0..1 /\ Load(q) \in 0..2 /\ Foreign(q, me) \in 0..2
      /\ Back(q, me) \in 0..2
  BY <1>1, Charges
<1>4. \A n, p \in 0..4 : p <= n + k /\ Within(m, n) => Within(m, p)'
  BY <1>1, <1>2 DEF Within
<1>5. /\ Odd(q) <= Odd(r) + k /\ Load(q) <= Load(r) + k
      /\ Foreign(q, me) <= Foreign(r, me) + k /\ Back(q, me) <= Back(r, me) + k
      /\ Bit(q.state = "pending") <= Bit(r.state = "pending") + k
  BY DEF Costlier
<1>6. CASE pc = "claiming" /\ call.read /\ m \in call.keys
  <2>1. s \in Row /\ m \notin batch \cup current
    BY <1>6 DEF TypeOK, LoopInv, Loop, Holding, Waiting, Request
  <2> DEFINE F(x) == IF s.state # "leased" /\ s.owner = me THEN 2
                     ELSE 1 + Foreign(Claimed(x, s, me), me)
  <2>2. F(r) \in 0..4 /\ F(q) \in 0..4 /\ F(q) <= F(r) + k
    BY <1>3, <1>5, <2>1, ClaimedCharge DEF Bit
  <2>3. Within(m, F(r)) /\ Within(m, Load(r))
    BY <1>6, <2>1 DEF Paid
  <2>4. Within(m, F(q))' /\ Within(m, Load(q))'
    BY <1>3, <1>4, <1>5, <2>2, <2>3
  <2> QED BY <1>6, <2>1, <2>4 DEF Paid
<1>7. CASE ~(pc = "claiming" /\ call.read /\ m \in call.keys)
  BY <1>3, <1>4, <1>5, <1>7 DEF Paid
<1> QED BY <1>6, <1>7

\* At the start every row may be delivered once, and nobody pays.
LEMMA PaidInit == Init => PaidInv
<1> SUFFICES ASSUME Init PROVE PaidInv
  OBVIOUS
<1>1. IsFiniteSet(strays) /\ Cardinality(Reopeners) = 0
  BY FS_EmptySet DEF Init, Reopeners
<1>2. ASSUME NEW m \in Keys PROVE Paid(m)
  <2>1. pc = "idle" /\ current = {} /\ batch = {} /\ row[m] = NoRow /\ delivered[m] = 0
        /\ faults = 0
    BY DEF Init, InitRows
  <2>2. Load(row[m]) = 1
    BY <2>1 DEF Load, Odd, Bit, Open, NoRow
  <2> QED BY <1>1, <2>1, <2>2 DEF Paid, Within
<1> QED BY <1>1, <1>2, LoopInit DEF PaidInv

\* One more element is at most one more.
LEMMA AddCardinality ==
  ASSUME NEW S, IsFiniteSet(S), NEW x
  PROVE  /\ IsFiniteSet(S \cup {x}) /\ Cardinality(S \cup {x}) \in Nat
         /\ Cardinality(S \cup {x}) <= Cardinality(S) + 1
<1>1. Cardinality(S) \in Nat
  BY FS_CardinalityType
<1>2. IsFiniteSet(S \cup {x})
      /\ Cardinality(S \cup {x}) = IF x \in S THEN Cardinality(S) ELSE Cardinality(S) + 1
  BY FS_AddElement
<1> QED BY <1>1, <1>2

\* How many late claims and rejections there are after a change of the strays.
LEMMA ReopenersChange ==
  ASSUME TypeOK, IsFiniteSet(strays)
  PROVE  /\ Cardinality(Reopeners) \in Nat
         /\ Leave => /\ IsFiniteSet(strays')
                     /\ Cardinality(Reopeners') <= Cardinality(Reopeners) + 1
                     /\ call = NoCall \/ call.op = "ack"
                          => Cardinality(Reopeners') <= Cardinality(Reopeners)
         /\ \A c \in strays : strays' = strays \ {c} =>
              /\ IsFiniteSet(strays')
              /\ Cardinality(Reopeners') <= Cardinality(Reopeners)
              /\ c.op # "ack" => Cardinality(Reopeners') + 1 <= Cardinality(Reopeners)
         /\ \A c \in strays : StrayReads(c) =>
              /\ IsFiniteSet(strays')
              /\ Cardinality(Reopeners') <= Cardinality(Reopeners)
<1>1. IsFiniteSet(Reopeners) /\ Cardinality(Reopeners) \in Nat
  BY FS_Subset, FS_CardinalityType DEF Reopeners
<1>2. ASSUME NEW S, IsFiniteSet(S), Reopeners' \subseteq S
      PROVE  Cardinality(Reopeners') <= Cardinality(S)
  BY <1>2, FS_Subset
<1>3. ASSUME Leave
      PROVE  /\ IsFiniteSet(strays')
             /\ Cardinality(Reopeners') <= Cardinality(Reopeners) + 1
             /\ call = NoCall \/ call.op = "ack"
                  => Cardinality(Reopeners') <= Cardinality(Reopeners)
  <2>1. CASE strays' = strays
    BY <1>1, <2>1 DEF Reopeners
  <2>2. CASE call # NoCall /\ strays' = strays \cup {[call EXCEPT !.nr = faults + 1]}
    <3> PICK d : d = [call EXCEPT !.nr = faults + 1]
      OBVIOUS
    <3>1. d.op = call.op /\ strays' = strays \cup {d}
      BY <2>2 DEF TypeOK, Request
    <3>2. IsFiniteSet(strays')
      BY <3>1, FS_AddElement
    <3>3. CASE call.op = "ack"
      <4>1. Reopeners' = Reopeners
        BY <3>1, <3>3 DEF Reopeners
      <4> QED BY <1>1, <3>2, <4>1
    <3>4. CASE call.op # "ack"
      <4>1. Reopeners' \subseteq Reopeners \cup {d}
        BY <3>1 DEF Reopeners
      <4>2. IsFiniteSet(Reopeners \cup {d})
            /\ Cardinality(Reopeners \cup {d}) <= Cardinality(Reopeners) + 1
            /\ Cardinality(Reopeners \cup {d}) \in Nat
        BY <1>1, AddCardinality
      <4>3. IsFiniteSet(Reopeners') /\ Cardinality(Reopeners') \in Nat
        BY <3>2, FS_Subset, FS_CardinalityType DEF Reopeners
      <4> QED BY <1>1, <1>2, <2>2, <3>2, <3>4, <4>1, <4>2, <4>3
    <3> QED BY <3>3, <3>4
  <2> QED BY <1>3, <2>1, <2>2 DEF Leave
<1>4. ASSUME NEW c \in strays, strays' = strays \ {c}
      PROVE  /\ IsFiniteSet(strays')
             /\ Cardinality(Reopeners') <= Cardinality(Reopeners)
             /\ c.op # "ack" => Cardinality(Reopeners') + 1 <= Cardinality(Reopeners)
  <2>1. IsFiniteSet(strays')
    BY <1>4, FS_Subset
  <2>2. Cardinality(Reopeners') <= Cardinality(Reopeners)
    BY <1>1, <1>2, <1>4 DEF Reopeners
  <2>3. CASE c.op # "ack"
    <3>1. Reopeners' = Reopeners \ {c} /\ c \in Reopeners
      BY <1>4, <2>3 DEF Reopeners
    <3>2. Cardinality(Reopeners \ {c}) = Cardinality(Reopeners) - 1
      BY <1>1, <3>1, FS_RemoveElement
    <3> QED BY <1>1, <2>1, <2>2, <3>1, <3>2
  <2> QED BY <2>1, <2>2, <2>3
<1>5. ASSUME NEW c \in strays, StrayReads(c)
      PROVE  IsFiniteSet(strays') /\ Cardinality(Reopeners') <= Cardinality(Reopeners)
  <2>1. strays' = (strays \ {c}) \cup {ReadBy(c)} /\ ReadBy(c).op = c.op
    BY <1>5, ReadByParts DEF StrayReads, TypeOK
  <2> PICK d : d = ReadBy(c)
    OBVIOUS
  <2>2. IsFiniteSet(strays')
    BY <2>1, FS_RemoveElement, FS_AddElement
  <2>3. CASE c.op = "ack"
    BY <1>1, <1>2, <2>1, <2>2, <2>3 DEF Reopeners
  <2>4. CASE c.op # "ack"
    <3>1. Reopeners' \subseteq (Reopeners \ {c}) \cup {d} /\ c \in Reopeners
      BY <2>1, <2>4 DEF Reopeners
    <3>2. IsFiniteSet(Reopeners \ {c})
          /\ Cardinality(Reopeners \ {c}) = Cardinality(Reopeners) - 1
      BY <1>1, <3>1, FS_RemoveElement
    <3>3. IsFiniteSet((Reopeners \ {c}) \cup {d})
          /\ Cardinality((Reopeners \ {c}) \cup {d}) <= Cardinality(Reopeners)
          /\ Cardinality((Reopeners \ {c}) \cup {d}) \in Nat
      <4> PICK S : S = Reopeners \ {c}
        OBVIOUS
      <4>1. IsFiniteSet(S) /\ Cardinality(S) = Cardinality(Reopeners) - 1
        BY <3>2
      <4>2. IsFiniteSet(S \cup {d}) /\ Cardinality(S \cup {d}) <= Cardinality(S) + 1
            /\ Cardinality(S \cup {d}) \in Nat
        BY <4>1, AddCardinality
      <4> QED BY <1>1, <4>1, <4>2
    <3>4. Cardinality(Reopeners') \in Nat
      BY <2>2, FS_Subset, FS_CardinalityType DEF Reopeners
    <3> QED BY <1>1, <1>2, <2>2, <3>1, <3>3, <3>4
  <2> QED BY <2>3, <2>4
<1> QED BY <1>1, <1>3, <1>4, <1>5

\* A late request pays for what it writes by going away.
LEMMA PaidByStrays ==
  ASSUME PaidInv, [Next]_vars, Strays, NEW m \in Keys
  PROVE  IsFiniteSet(strays') /\ Paid(m)'
<1> USE DEF PaidInv, LoopInv
<1>0. TypeOK' /\ row[m] \in Row
  BY TypeStep DEF TypeOK
<1>1. PICK c \in strays : StrayReads(c) \/ StrayCommits(c) \/ StrayLost(c)
  BY DEF Strays
<1>2. UNCHANGED <<pc, me, batch, current, call, delivered, faults>>
  BY <1>1 DEF StrayReads, StrayCommits, StrayLost, bot
<1>3. c \in Request /\ IsFiniteSet(strays')
  BY <1>1, ReopenersChange DEF TypeOK, StrayCommits, StrayLost
<1>4. CASE StrayReads(c) \/ StrayLost(c)
  <2>1. row' = row /\ Cardinality(Reopeners') + 0 <= Cardinality(Reopeners)
    <3>1. Cardinality(Reopeners') <= Cardinality(Reopeners)
          /\ Cardinality(Reopeners) \in Nat
      BY <1>4, ReopenersChange DEF StrayLost
    <3>2. Cardinality(Reopeners') \in Nat
      BY <1>3, FS_Subset, FS_CardinalityType DEF Reopeners
    <3> QED BY <1>4, <3>1, <3>2 DEF StrayReads, StrayLost
  <2>2. Costlier(row[m], row'[m], 0)
    BY <1>0, <1>2, <2>1, WriteCosts DEF TypeOK
  <2> QED BY <1>0, <1>2, <1>3, <2>1, <2>2, PaidStays
<1>5. CASE StrayCommits(c)
  <2>1. strays' = strays \ {c} /\ Commit(c)
    BY <1>5 DEF StrayCommits
  <2>2. PICK k \in {0, 1} : k = IF c.op = "ack" THEN 0 ELSE 1
    OBVIOUS
  <2>3. Cardinality(Reopeners') + k <= Cardinality(Reopeners)
    <3>1. Cardinality(Reopeners') \in Nat
      BY <1>3, FS_Subset, FS_CardinalityType DEF Reopeners
    <3> QED BY <2>1, <2>2, <3>1, ReopenersChange
  <2>4. Costlier(row[m], row'[m], k)
    <3>1. c.snap[m] \in Row /\ c.worker \in Workers /\ c.op \in {"claim", "ack", "nack"}
      BY <1>3 DEF Request
    <3>2. row'[m] = row[m] \/ row'[m] = Written(c, m)
      BY <1>3, <2>1, CommitParts
    <3>3. Costlier(row[m], row[m], k)
      BY <1>0, WriteCosts, <3>1
    <3>4. Costlier(row[m], Written(c, m), k)
      BY <1>0, <2>2, <3>1, WriteCosts DEF Written
    <3> QED BY <3>2, <3>3, <3>4
  <2> QED BY <1>0, <1>2, <1>3, <2>3, <2>4, PaidStays
<1> QED BY <1>1, <1>3, <1>4, <1>5

\* Enqueueing and the passing of time change no charge.
LEMMA PaidByTime ==
  ASSUME PaidInv, [Next]_vars, NEW n \in Keys, Enqueues(n) \/ TimePasses(n), NEW m \in Keys
  PROVE  IsFiniteSet(strays') /\ Paid(m)'
<1> USE DEF PaidInv, LoopInv
<1>0. TypeOK' /\ row[m] \in Row
  BY TypeStep DEF TypeOK
<1>1. UNCHANGED <<pc, me, batch, current, call, delivered, faults, strays>>
  BY DEF Enqueues, TimePasses, Others, bot
<1>2. Reopeners' = Reopeners /\ Cardinality(Reopeners) \in Nat
  BY <1>1, ReopenersChange DEF Reopeners
<1>3. \/ row'[m].state = row[m].state /\ row'[m].owner = row[m].owner
      \/ /\ row[m].state = "absent" /\ m = n
         /\ row'[m].state = "pending" /\ row'[m].owner = NoWorker
  <2>1. CASE Enqueues(n)
    BY <2>1 DEF Enqueues, Enqueue, TypeOK, NoRow, Stored, Row, RowState
  <2>2. CASE TimePasses(n)
    BY <2>2 DEF TimePasses, LeaseExpires, BackoffElapses, TypeOK, Row
  <2> QED BY <2>1, <2>2
<1>4. CASE row'[m].state = row[m].state /\ row'[m].owner = row[m].owner
  <2>1. Costlier(row[m], row'[m], 0)
    BY <1>4 DEF Costlier, Odd, Load, Foreign, Back, Bit, Open
  <2> QED BY <1>0, <1>1, <1>2, <2>1, PaidStays
<1>5. CASE row[m].state = "absent" /\ row'[m].state = "pending" /\ row'[m].owner = NoWorker
  <2>1. ~Stored(m)
    BY <1>5 DEF Stored
  <2>2. m \notin batch \cup current /\ ~(pc = "claiming" /\ m \in call.keys)
    BY <2>1 DEF KeysStored, Requests, Loop, Waiting
  <2>3. Load(row[m]) >= 1 /\ Load(row[m])' = 1 /\ Load(row[m]) \in 0..2
    BY <1>0, <1>5, Charges DEF Load, Odd, Bit, Open
  <2>4. Within(m, Load(row[m]))
    BY <2>2 DEF Paid
  <2>5. Within(m, 1)
    BY <2>3, <2>4, WithinLess
  <2>6. Within(m, 1)'
    BY <1>1, <1>2, <2>5 DEF Within
  <2> QED BY <1>1, <2>2, <2>3, <2>6 DEF Paid
<1> QED BY <1>1, <1>3, <1>4, <1>5

\* A handler that reads a row charges what its commit will leave.
LEMMA PaidByReading ==
  ASSUME PaidInv, [Next]_vars, ServerReads, NEW m \in Keys
  PROVE  Paid(m)'
<1> USE DEF PaidInv, LoopInv
<1> PICK r \in Row : r = row[m]
  BY DEF TypeOK
<1>1. /\ UNCHANGED <<row, pc, me, batch, current, strays, delivered, faults>>
      /\ call \in Request /\ ~call.read /\ call' = ReadBy(call) /\ me \in Workers
      /\ pc \in Waiting
  BY DEF ServerReads, TypeOK, Loop
<1>2. /\ call'.read = TRUE /\ call'.op = call.op
      /\ call'.keys = IF call.op = "claim" THEN ClaimBatch ELSE call.keys
      /\ m \in call'.keys => call'.snap[m] = r
  BY <1>1, ReadByParts
<1>3. /\ Odd(r) \in 0..1 /\ Load(r) \in 0..2 /\ Foreign(r, me) \in 0..2
      /\ Back(r, me) \in 0..2
      /\ Odd(r) <= Foreign(r, me) /\ Foreign(r, me) <= Load(r) /\ Load(r) <= Back(r, me)
      /\ Back(r, me) <= 1 + Odd(r)
      /\ r.owner # me => Back(r, me) = Foreign(r, me) /\ Load(r) = Foreign(r, me)
      /\ r.owner = me => Foreign(r, me) = Odd(r)
  BY <1>1, Charges
<1>4. \A n, p \in 0..4 : p <= n /\ Within(m, n) => Within(m, p)'
  <2>1. \A n, p \in 0..4 : p <= n /\ Within(m, n) => Within(m, p)
    BY WithinLess
  <2> QED BY <1>1, <2>1 DEF Within, Reopeners
<1>5. CASE pc = "claiming"
  <2>1. batch = {} /\ current = {} /\ call.op = "claim"
    BY <1>5 DEF Loop, Holding
  <2>2. Within(m, Load(r)) /\ Within(m, Load(r))'
    BY <1>3, <1>4, <2>1 DEF Paid
  <2>3. ASSUME m \in call'.keys
        PROVE  Within(m, IF r.state # "leased" /\ r.owner = me THEN 2
                         ELSE 1 + Foreign(Claimed(r, r, me), me))'
    <3> DEFINE n == IF r.state # "leased" /\ r.owner = me THEN 2
                    ELSE 1 + Foreign(Claimed(r, r, me), me)
    <3>1. Claimable(m)
      BY <1>2, <2>1, <2>3 DEF ClaimBatch
    <3>2. me # NoWorker
      BY <1>1, OutboxAssumption
    <3>3. n \in 0..4 /\ n <= Load(r)
      BY <1>1, <3>1, <3>2, ClaimedCharge DEF Claimable, Foreign, Load, Odd, Bit, Open
    <3>4. Within(m, n)'
      BY <1>1, <1>3, <1>4, <2>2, <3>3
    <3> QED BY <1>1, <3>4
  <2>4. pc' = "claiming" /\ current' = {} /\ batch' = {}
        /\ Within(m, Load(row[m]))'
    BY <1>1, <1>5, <2>1, <2>2
  <2>5. m \in call'.keys =>
          Within(m, IF call.snap[m].state # "leased" /\ call.snap[m].owner = me THEN 2
                    ELSE 1 + Foreign(Claimed(row[m], call.snap[m], me), me))'
    BY <1>1, <1>2, <2>3
  <2> QED BY <1>1, <2>4, <2>5 DEF Paid
<1>6. CASE pc \in {"acking", "nacking"}
  <2>1. call.keys = current /\ call'.keys = current
    BY <1>2, <1>6 DEF Loop
  <2>2. CASE m \notin current
    <3>1. /\ m \notin batch => Within(m, Load(r))'
          /\ m \in batch => Within(m, 1 + Foreign(r, me))'
      BY <1>1, <1>3, <1>4, <2>2 DEF Paid
    <3> QED BY <1>1, <1>6, <2>2, <3>1 DEF Paid
  <2>3. CASE m \in current /\ pc = "acking"
    <3>1. Within(m, Foreign(r, me)) /\ m \notin batch
      BY <1>1, <2>3 DEF Paid, Loop
    <3>2. r.state = "sent" => Load(r) <= Foreign(r, me)
      BY <1>3 DEF Load, Foreign, Bit, Open
    <3>3. Within(m, IF r.state = "sent" THEN Load(r)
                    ELSE IF r.owner = me THEN Odd(r) ELSE Back(r, me))'
      BY <1>1, <1>3, <1>4, <3>1, <3>2
    <3>4. call'.snap[m] = r
      BY <1>2, <2>1, <2>3
    <3> QED BY <1>1, <1>2, <2>3, <3>1, <3>3, <3>4 DEF Paid
  <2>4. CASE m \in current /\ pc = "nacking"
    <3>1. Within(m, Back(r, me)) /\ m \notin batch
      BY <1>1, <2>4 DEF Paid, Loop
    <3>2. r.owner = me => 1 + Odd(r) <= Back(r, me)
      BY DEF Back, Bit, Odd
    <3>3. Within(m, IF r.owner = me THEN 1 + Odd(r) ELSE Load(r))'
      BY <1>1, <1>3, <1>4, <3>1, <3>2
    <3>4. call'.snap[m] = r
      BY <1>2, <2>1, <2>4
    <3> QED BY <1>1, <1>2, <2>4, <3>1, <3>3, <3>4 DEF Paid
  <2> QED BY <1>6, <2>2, <2>3, <2>4
<1> QED BY <1>1, <1>5, <1>6 DEF Waiting

\* The commit the bot waited for leaves what its snapshot was charged for.
LEMMA PaidByAnswer ==
  ASSUME PaidInv, [Next]_vars, Answered, NEW m \in Keys
  PROVE  Paid(m)'
<1> USE DEF PaidInv, LoopInv
<1> PICK r \in Row, q \in Row : r = row[m] /\ q = row'[m]
  BY TypeStep DEF TypeOK
<1>1. /\ UNCHANGED <<me, strays, delivered, faults>>
      /\ call \in Request /\ call.read /\ Commit(call) /\ me \in Workers
      /\ pc \in Waiting /\ call.worker = me /\ call' = NoCall
      /\ call.snap[m] \in Row
  BY DEF Answered, TypeOK, Loop, Goto, Done, Abandon, Request
<1> PICK s \in Row : s = call.snap[m]
  BY <1>1
<1>2. /\ m \in call.keys /\ Accepted(call) => q = Written(call, m)
      /\ ~(m \in call.keys /\ Accepted(call)) => q = r
  BY <1>1, CommitParts
<1>3. /\ Odd(r) \in 0..1 /\ Load(r) \in 0..2 /\ Foreign(r, me) \in 0..2
      /\ Back(r, me) \in 0..2
      /\ Odd(r) <= Foreign(r, me) /\ Foreign(r, me) <= Load(r) /\ Load(r) <= Back(r, me)
      /\ Back(r, me) <= 1 + Odd(r)
      /\ r.owner # me => Back(r, me) = Foreign(r, me) /\ Load(r) = Foreign(r, me)
      /\ r.owner = me => Foreign(r, me) = Odd(r)
      /\ Load(q) \in 0..2 /\ Foreign(q, me) \in 0..2
  BY <1>1, Charges
<1>4. \A n, p \in 0..4 : p <= n /\ Within(m, n) => Within(m, p)'
  <2>1. \A n, p \in 0..4 : p <= n /\ Within(m, n) => Within(m, p)
    BY WithinLess
  <2> QED BY <1>1, <2>1 DEF Within, Reopeners
<1>5. CASE call.op = "claim"
  <2>1. /\ pc = "claiming" /\ batch = {} /\ current = {}
        /\ pc' = "next" /\ batch' = call.keys /\ current' = {}
    BY <1>1, <1>5 DEF Answered, Goto, Loop, Waiting, Holding
  <2>2. CASE m \notin call.keys
    <3>1. Within(m, Load(q))'
      BY <1>2, <1>3, <1>4, <2>1, <2>2 DEF Paid
    <3> QED BY <2>1, <2>2, <3>1 DEF Paid
  <2>3. CASE m \in call.keys
    <3>1. q = Claimed(r, s, me)
      BY <1>1, <1>2, <1>5, <2>3 DEF Accepted, Written
    <3> DEFINE n == IF s.state # "leased" /\ s.owner = me THEN 2
                    ELSE 1 + Foreign(Claimed(r, s, me), me)
    <3>2. Within(m, n)
      BY <1>1, <2>1, <2>3 DEF Paid
    <3>3. n \in 0..4 /\ 1 + Foreign(q, me) <= n /\ 1 + Foreign(q, me) \in 0..4
      BY <1>3, <3>1, ClaimedCharge DEF Bit
    <3>4. Within(m, 1 + Foreign(q, me))'
      BY <1>1, <1>4, <3>2, <3>3
    <3> QED BY <1>1, <2>1, <2>3, <3>4 DEF Paid
  <2> QED BY <2>2, <2>3
<1>6. CASE call.op # "claim"
  <2>1. /\ call.op \in {"ack", "nack"} /\ pc \in {"acking", "nacking"}
        /\ pc = "acking" <=> call.op = "ack"
        /\ call.keys = current /\ pc' \in {"next", "idle", "nack"}
    BY <1>1, <1>6 DEF Request, Loop, Waiting, Answered, Goto, Done, Abandon
  <2>2. PICK x \in Keys : current = {x} /\ x \notin batch
    BY <2>1 DEF Loop, Holding
  <2>3. CASE m # x
    <3>1. q = r /\ m \notin current
      BY <1>2, <2>1, <2>2, <2>3
    <3>2. batch' \in {{}, batch} /\ current' \in {{}, current}
      BY <1>1, <1>6 DEF Answered, Goto, Done, Abandon, Request
    <3>3. CASE m \in batch
      <4>1. Within(m, 1 + Foreign(r, me))
        BY <3>3 DEF Paid
      <4>2. Load(r) <= 1 + Foreign(r, me)
        BY <1>3
      <4>3. Within(m, 1 + Foreign(r, me))' /\ Within(m, Load(r))'
        BY <1>1, <1>3, <1>4, <4>1, <4>2
      <4> QED BY <1>1, <2>1, <3>1, <3>2, <4>3 DEF Paid
    <3>4. CASE m \notin batch
      <4>1. Within(m, Load(r))
        BY <3>1, <3>4 DEF Paid
      <4>2. Within(m, Load(r))'
        BY <1>3, <1>4, <4>1
      <4> QED BY <2>1, <3>1, <3>2, <3>4, <4>2 DEF Paid
    <3> QED BY <3>3, <3>4
  <2>4. CASE m = x /\ call.op = "ack" /\ Accepted(call)
    <3>1. pc' = "next" /\ current' = {} /\ batch' = batch
      BY <2>4 DEF Answered, Goto, Done
    <3>2. s.state = "sent" \/ s.owner = me
      BY <1>1, <2>1, <2>2, <2>4 DEF Accepted, AckAccepted
    <3>3. IF s.state = "sent" THEN q = r ELSE Load(q) = 0
      <4>1. q = Acked(r, s)
        BY <1>2, <2>1, <2>2, <2>4 DEF Written
      <4>2. s.state = "sent" => q = r
        BY <4>1, WrittenParts, <1>1
      <4>3. s.state # "sent" => q.state = "sent"
        BY <4>1, WrittenParts, <1>1
      <4> QED BY <4>2, <4>3 DEF Load, Odd, Bit, Open
    <3>4. Within(m, IF s.state = "sent" THEN Load(r)
                    ELSE IF s.owner = me THEN Odd(r) ELSE Back(r, me))
      BY <1>1, <2>1, <2>2, <2>4 DEF Paid
    <3>5. Within(m, Load(q))'
      BY <1>1, <1>3, <1>4, <3>2, <3>3, <3>4
    <3> QED BY <2>2, <2>4, <3>1, <3>5 DEF Paid
  <2>5. CASE m = x /\ call.op = "ack" /\ ~Accepted(call)
    <3>1. pc' = "nack" /\ current' = current /\ batch' = batch /\ q = r
      BY <1>2, <2>5 DEF Answered, Goto
    <3>2. s.state # "sent" /\ s.owner # me
      BY <1>1, <2>1, <2>2, <2>5 DEF Accepted, AckAccepted
    <3>3. Within(m, Back(r, me))
      BY <1>1, <2>1, <2>2, <2>5, <3>2 DEF Paid
    <3>4. Within(m, Back(r, me))'
      BY <1>1, <1>3, <1>4, <3>3
    <3> QED BY <1>1, <2>2, <2>5, <3>1, <3>4 DEF Paid
  <2>6. CASE m = x /\ call.op = "nack"
    <3>1. pc' \in {"next", "idle"} /\ current' = {} /\ batch' \in {{}, batch}
      BY <2>6 DEF Answered, Goto, Done, Abandon
    <3>2. Accepted(call) <=> s.owner = me
      BY <1>1, <2>1, <2>2, <2>6 DEF Accepted, RejectAccepted
    <3>3. IF s.owner = me THEN Load(q) <= 1 ELSE q = r
      <4>1. s.owner # me => q = r
        BY <1>2, <3>2
      <4>2. s.owner = me => q = Rejected(r, s)
        BY <1>2, <2>1, <2>2, <2>6, <3>2 DEF Written
      <4>3. s.owner = me => q.owner = NoWorker
        BY <1>1, <4>2, WrittenParts
      <4> QED BY <4>1, <4>3 DEF Load, Odd, Bit
    <3>4. Within(m, IF s.owner = me THEN 1 + Odd(r) ELSE Load(r))
      BY <1>1, <2>1, <2>2, <2>6 DEF Paid
    <3>5. Within(m, Load(q))'
      BY <1>1, <1>3, <1>4, <3>3, <3>4
    <3> QED BY <2>2, <2>6, <3>1, <3>5 DEF Paid
  <2> QED BY <2>1, <2>3, <2>4, <2>5, <2>6
<1> QED BY <1>5, <1>6

\* The bot's other steps leave every charge as it was, or lower.
LEMMA PaidByLoop ==
  ASSUME PaidInv, [Next]_vars, NEW m \in Keys,
         Turn \/ SendClaim \/ SendAck \/ SendNack \/ Delivers \/ SendFails
  PROVE  Paid(m)' /\ strays' = strays
<1> USE DEF PaidInv, LoopInv
<1> PICK r \in Row : r = row[m]
  BY DEF TypeOK
<1>1. /\ UNCHANGED <<row, me, strays, faults>> /\ me \in Workers
      /\ delivered[m] \in Nat /\ faults \in Nat
  BY DEF Turn, SendClaim, SendAck, SendNack, Send, Delivers, SendFails, TypeOK
<1>2. /\ Odd(r) \in 0..1 /\ Load(r) \in 0..2 /\ Foreign(r, me) \in 0..2
      /\ Back(r, me) \in 0..2
      /\ Odd(r) <= Foreign(r, me) /\ Foreign(r, me) <= Load(r) /\ Load(r) <= Back(r, me)
      /\ Back(r, me) <= 1 + Odd(r)
  BY <1>1, Charges
<1>3. ASSUME delivered' = delivered
      PROVE  \A n, p \in 0..4 : p <= n /\ Within(m, n) => Within(m, p)'
  <2>1. \A n, p \in 0..4 : p <= n /\ Within(m, n) => Within(m, p)
    BY WithinLess
  <2> QED BY <1>1, <1>3, <2>1 DEF Within, Reopeners
<1>4. CASE Turn
  <2>1. /\ delivered' = delivered /\ call' = call /\ pc = "next" /\ current = {}
        /\ pc' \in {"idle", "deliver"}
    BY <1>4 DEF Turn, Loop, Holding
  <2>2. /\ m \notin batch => Within(m, Load(r))'
        /\ m \in batch => Within(m, 1 + Foreign(r, me))'
    BY <1>1, <1>2, <1>3, <2>1 DEF Paid
  <2>3. CASE batch = {} /\ pc' = "idle" /\ UNCHANGED <<batch, current>>
    BY <1>1, <2>1, <2>2, <2>3 DEF Paid
  <2>4. ASSUME NEW x \in batch, pc' = "deliver", current' = {x}, batch' = batch \ {x}
        PROVE  Paid(m)'
    BY <1>1, <2>1, <2>2, <2>4 DEF Paid
  <2> QED BY <1>1, <1>4, <2>3, <2>4 DEF Turn
<1>5. CASE SendClaim \/ SendAck \/ SendNack
  <2>1. UNCHANGED <<delivered, batch, current>> /\ call'.read = FALSE
        /\ \/ pc = "idle" /\ pc' = "claiming"
           \/ pc = "ack" /\ pc' = "acking"
           \/ pc = "nack" /\ pc' = "nacking"
    BY <1>5 DEF SendClaim, SendAck, SendNack, Send, NewCall
  <2>2. /\ m \notin batch \cup current => Within(m, Load(r))'
        /\ m \in batch => Within(m, 1 + Foreign(r, me))'
        /\ m \in current /\ pc = "ack" => Within(m, Foreign(r, me))'
        /\ m \in current /\ pc = "nack" => Within(m, Back(r, me))'
    BY <1>1, <1>2, <1>3, <2>1 DEF Paid
  <2>3. pc = "idle" => current = {}
    BY DEF Loop, Holding
  <2> QED BY <1>1, <2>1, <2>2, <2>3 DEF Paid
<1>6. CASE Delivers \/ SendFails
  <2>1. UNCHANGED <<batch, current, call>> /\ pc = "deliver" /\ batch \cap current = {}
        /\ \/ pc' = "ack" /\ Received
           \/ pc' = "nack" /\ delivered' = delivered
    BY <1>6 DEF Delivers, SendFails, Loop
  <2>2. CASE m \notin current
    <3>1. delivered'[m] = delivered[m]
      BY <2>1, <2>2 DEF Received
    <3>2. \A n \in 0..4 : Within(m, n) => Within(m, n)'
      BY <1>1, <3>1 DEF Within, Reopeners
    <3>3. /\ m \notin batch => Within(m, Load(r))'
          /\ m \in batch => Within(m, 1 + Foreign(r, me))'
      BY <1>1, <1>2, <2>2, <3>2 DEF Paid
    <3> QED BY <1>1, <2>1, <2>2, <3>3 DEF Paid
  <2>3. CASE m \in current /\ pc' = "ack" /\ Received
    <3>1. delivered'[m] = delivered[m] + 1
      BY <2>3 DEF Received
    <3>2. Within(m, 1 + Foreign(r, me))
      BY <2>1, <2>3 DEF Paid
    <3>3. Cardinality(Reopeners) \in Nat /\ Reopeners' = Reopeners
      BY <1>1, ReopenersChange DEF Reopeners
    <3>4. Within(m, Foreign(r, me))'
      BY <1>1, <1>2, <3>1, <3>2, <3>3 DEF Within
    <3> QED BY <1>1, <2>1, <2>3, <3>4 DEF Paid
  <2>4. CASE m \in current /\ pc' = "nack" /\ delivered' = delivered
    <3>1. Within(m, Back(r, me))'
      <4>1. Within(m, 1 + Foreign(r, me))
        BY <2>1, <2>4 DEF Paid
      <4>2. Back(r, me) <= 1 + Foreign(r, me)
        BY <1>2
      <4> QED BY <1>1, <1>2, <1>3, <2>4, <4>1, <4>2
    <3> QED BY <1>1, <2>1, <2>4, <3>1 DEF Paid
  <2> QED BY <1>1, <2>1, <2>2, <2>3, <2>4
<1> QED BY <1>1, <1>4, <1>5, <1>6

\* A fault pays one: for the request left behind, the delivery not recorded,
\* or the message that is claimed again.
LEMMA PaidByFault ==
  ASSUME PaidInv, [Next]_vars, Faulty, NEW m \in Keys
  PROVE  Paid(m)' /\ IsFiniteSet(strays')
<1> USE DEF PaidInv, LoopInv
<1> PICK r \in Row : r = row[m]
  BY DEF TypeOK
<1> PICK s : s = call.snap[m]
  OBVIOUS
<1>1. /\ UNCHANGED <<row, me>> /\ me \in Workers /\ faults' = faults + 1
      /\ delivered[m] \in Nat /\ faults \in Nat /\ Cardinality(Reopeners) \in Nat
  BY ReopenersChange
  DEF Faulty, SendFailsLate, CallFails, BotCrashes, Fault, TypeOK
<1>2. /\ Odd(r) \in 0..1 /\ Load(r) \in 0..2 /\ Foreign(r, me) \in 0..2
      /\ Back(r, me) \in 0..2
      /\ Odd(r) <= Foreign(r, me) /\ Foreign(r, me) <= Load(r) /\ Load(r) <= Back(r, me)
      /\ Back(r, me) <= 1 + Odd(r)
      /\ r.owner # me => Back(r, me) = Foreign(r, me) /\ Load(r) = Foreign(r, me)
      /\ r.owner = me => Foreign(r, me) = Odd(r)
  BY <1>1, Charges
<1>3. CASE SendFailsLate
  <2>1. UNCHANGED <<batch, current, call, strays>> /\ pc = "deliver" /\ pc' = "nack"
        /\ batch \cap current = {}
        /\ delivered'[m] = IF m \in current THEN delivered[m] + 1 ELSE delivered[m]
    BY <1>3 DEF SendFailsLate, Loop, Received
  <2>2. Reopeners' = Reopeners
    BY <2>1 DEF Reopeners
  <2>3. \A n, p \in 0..4 : p <= n /\ Within(m, n) => Within(m, p)'
    BY <1>1, <2>1, <2>2 DEF Within
  <2>4. /\ m \notin batch \cup current => Within(m, Load(r))'
        /\ m \in batch => Within(m, 1 + Foreign(r, me))'
        /\ m \in current => Within(m, 1 + Foreign(r, me))'
    BY <1>1, <1>2, <2>1, <2>3 DEF Paid
  <2>5. m \in current => Within(m, Back(r, me))'
    BY <1>1, <1>2, <2>1, <2>2, <2>4 DEF Within
  <2> QED BY <1>1, <2>1, <2>4, <2>5 DEF Paid
<1>4. CASE CallFails \/ BotCrashes
  <2>1. /\ delivered' = delivered /\ Leave /\ call' = NoCall
        /\ \/ call.op = "ack" /\ pc = "acking" /\ pc' = "nack" /\ UNCHANGED <<batch, current>>
           \/ pc' \in {"idle", "down"} /\ current' = {} /\ batch' = {}
    <3>1. CASE CallFails
      BY <3>1 DEF CallFails, Goto, Abandon, Loop, Waiting
    <3>2. CASE BotCrashes
      BY <3>2 DEF BotCrashes, Goto
    <3> QED BY <1>4, <3>1, <3>2
  <2>2. /\ IsFiniteSet(strays') /\ Cardinality(Reopeners') \in Nat
        /\ Cardinality(Reopeners') <= Cardinality(Reopeners) + 1
        /\ call = NoCall \/ call.op = "ack"
             => Cardinality(Reopeners') <= Cardinality(Reopeners)
    <3>1. IsFiniteSet(strays')
      BY <2>1, ReopenersChange
    <3>2. Cardinality(Reopeners') \in Nat
      BY <3>1, FS_Subset, FS_CardinalityType DEF Reopeners
    <3> QED BY <2>1, <3>1, <3>2, ReopenersChange
  <2>3. \A n, p \in 0..4 : p <= n /\ Within(m, n) => Within(m, p)'
    BY <1>1, <2>1, <2>2 DEF Within
  <2>4. call = NoCall \/ call.op = "ack" =>
          \A n, p \in 0..4 : p <= n + 1 /\ Within(m, n) => Within(m, p)'
    BY <1>1, <2>1, <2>2 DEF Within
  <2>5. CASE m \notin current
    <3>1. Load(r) <= 1 + Foreign(r, me)
      BY <1>2
    <3>2. /\ m \notin batch => Within(m, Load(r))'
          /\ m \in batch => Within(m, 1 + Foreign(r, me))' /\ Within(m, Load(r))'
      BY <1>1, <1>2, <2>3, <2>5, <3>1 DEF Paid
    <3> QED BY <1>1, <2>1, <2>2, <2>5, <3>2 DEF Paid
  <2>6. CASE m \in current
    <3>1. pc \in Holding /\ batch \cap current = {}
      BY <2>6 DEF Loop
    <3>2. CASE pc = "deliver"
      <4>1. call = NoCall /\ Within(m, 1 + Foreign(r, me))
        BY <2>6, <3>2 DEF Paid, Loop, Waiting
      <4>2. Within(m, Load(r))'
        BY <1>1, <1>2, <2>3, <4>1
      <4> QED BY <1>1, <2>1, <2>2, <2>6, <3>2, <4>2 DEF Paid
    <3>3. CASE pc = "ack" \/ (pc = "acking" /\ ~call.read)
      <4>1. (call = NoCall \/ call.op = "ack") /\ Within(m, Foreign(r, me))
        BY <2>6, <3>3 DEF Paid, Loop, Waiting
      <4>2. Load(r) <= 1 + Foreign(r, me) /\ Back(r, me) <= 1 + Foreign(r, me)
        BY <1>2
      <4>3. Within(m, Load(r))' /\ Within(m, Back(r, me))'
        BY <1>1, <1>2, <2>4, <4>1, <4>2
      <4> QED BY <1>1, <2>1, <2>2, <2>6, <3>1, <4>3 DEF Paid
    <3>4. CASE pc = "acking" /\ call.read
      <4> DEFINE n == IF s.state = "sent" THEN Load(r)
                      ELSE IF s.owner = me THEN Odd(r) ELSE Back(r, me)
      <4>1. call.op = "ack" /\ Within(m, n)
        BY <2>6, <3>4 DEF Paid, Loop
      <4>2. n \in 0..4 /\ Load(r) <= n + 1 /\ Back(r, me) <= n + 1
        BY <1>2
      <4> HIDE DEF n
      <4>3. Within(m, Load(r))' /\ Within(m, Back(r, me))'
        BY <1>1, <1>2, <2>4, <4>1, <4>2
      <4> QED BY <1>1, <2>1, <2>2, <2>6, <3>1, <4>3 DEF Paid
    <3>5. CASE pc = "nack" \/ (pc = "nacking" /\ ~call.read)
      <4>1. Within(m, Back(r, me))
        BY <2>6, <3>5 DEF Paid
      <4>2. Within(m, Load(r))'
        BY <1>1, <1>2, <2>3, <4>1
      <4> QED BY <1>1, <2>1, <2>2, <2>6, <3>5, <4>2 DEF Paid
    <3>6. CASE pc = "nacking" /\ call.read
      <4> DEFINE n == IF s.owner = me THEN 1 + Odd(r) ELSE Load(r)
      <4>1. Within(m, n)
        BY <2>6, <3>6 DEF Paid
      <4>2. n \in 0..4 /\ Load(r) <= n
        BY <1>2
      <4> HIDE DEF n
      <4>3. Within(m, Load(r))'
        BY <1>1, <1>2, <2>3, <4>1, <4>2
      <4> QED BY <1>1, <2>1, <2>2, <2>6, <3>6, <4>3 DEF Paid
    <3> QED BY <3>1, <3>2, <3>3, <3>4, <3>5, <3>6 DEF Holding
  <2> QED BY <2>2, <2>5, <2>6
<1> QED BY <1>3, <1>4 DEF Faulty, SendFailsLate

\* A bot that starts holds nothing, under whatever name.
LEMMA PaidByStart ==
  ASSUME PaidInv, BotStarts, NEW m \in Keys
  PROVE  Paid(m)' /\ strays' = strays
<1> USE DEF PaidInv, LoopInv
<1>1. /\ UNCHANGED <<row, batch, current, strays, delivered, faults>> /\ pc' = "idle"
      /\ batch = {} /\ current = {}
  BY DEF BotStarts, Goto, Loop, Holding
<1>2. Within(m, Load(row[m]))
  BY <1>1 DEF Paid
<1>3. Within(m, Load(row[m]))'
  BY <1>1, <1>2 DEF Within, Reopeners
<1> QED BY <1>1, <1>3 DEF Paid

\* Every action keeps every charge paid.
LEMMA PaidStep == PaidInv /\ [Next]_vars => PaidInv'
<1> SUFFICES ASSUME PaidInv, [Next]_vars PROVE IsFiniteSet(strays') /\ \A m \in Keys : Paid(m)'
  BY LoopInvStep DEF PaidInv
<1> SUFFICES ASSUME NEW m \in Keys PROVE IsFiniteSet(strays') /\ Paid(m)'
  <2>1. IsFiniteSet(strays')
    <3>1. CASE strays' = strays
      BY <3>1 DEF PaidInv
    <3>2. CASE Leave \/ \E c \in strays : StrayReads(c) \/ strays' = strays \ {c}
      BY <3>2, ReopenersChange DEF PaidInv, LoopInv
    <3>3. BotStep \/ BotStarts \/ UNCHANGED vars => strays' = strays
      BY DEF BotStep, Turn, SendClaim, SendAck, SendNack, Send, ServerReads, Answered,
             Delivers, SendFails, BotStarts, vars
    <3>4. (\E m \in Keys : Enqueues(m) \/ TimePasses(m)) => strays' = strays
      BY DEF Enqueues, TimePasses, Others
    <3>5. Faulty => Leave \/ strays' = strays
      BY DEF Faulty, SendFailsLate, CallFails, BotCrashes
    <3>6. Strays => \E c \in strays : StrayReads(c) \/ strays' = strays \ {c}
      BY DEF Strays, StrayCommits, StrayLost
    <3> QED BY <3>1, <3>2, <3>3, <3>4, <3>5, <3>6 DEF Next
  <2> QED BY <2>1
<1>1. IsFiniteSet(strays) /\ Paid(m)
  BY DEF PaidInv
<1>2. CASE BotStep
  <2>1. CASE ServerReads
    BY <1>1, <2>1, PaidByReading DEF ServerReads
  <2>2. CASE Answered
    BY <1>1, <2>2, PaidByAnswer DEF Answered
  <2>3. CASE Turn \/ SendClaim \/ SendAck \/ SendNack \/ Delivers \/ SendFails
    BY <1>1, <2>3, PaidByLoop
  <2> QED BY <1>2, <2>1, <2>2, <2>3 DEF BotStep
<1>3. CASE BotStarts
  BY <1>1, <1>3, PaidByStart
<1>4. CASE UNCHANGED vars
  BY <1>1, <1>4 DEF vars, bot, Paid, Within, Reopeners
<1> QED BY <1>2, <1>3, <1>4, PaidByTime, PaidByStrays, PaidByFault DEF Next

\* A message reaches the owner at most once more for each fault, however late
\* claims, acknowledgements and rejections interleave with those of the bots
\* that started since: for any numbers of messages, workers and faults.
THEOREM RepeatsBounded == Spec => []RepeatsNeedFaults
<1>1. PaidInv => RepeatsNeedFaults
  <2> SUFFICES ASSUME PaidInv, NEW m \in Keys PROVE delivered[m] <= 1 + faults
    BY DEF RepeatsNeedFaults
  <2> DEFINE r == row[m]
             s == call.snap[m]
  <2>1. r \in Row /\ me \in Workers /\ delivered[m] \in Nat /\ faults \in Nat
        /\ pc \in PC
    BY DEF PaidInv, LoopInv, TypeOK
  <2>2. Odd(r) >= 0 /\ Load(r) >= 0 /\ Foreign(r, me) >= 0 /\ Back(r, me) >= 0
        /\ Odd(r) \in Nat /\ Load(r) \in Nat /\ Foreign(r, me) \in Nat /\ Back(r, me) \in Nat
    BY <2>1, Charges
  <2>3. Cardinality(Reopeners) \in Nat
    BY FS_Subset, FS_CardinalityType DEF PaidInv, Reopeners
  <2>4. \A n \in Nat : Within(m, n) => delivered[m] <= 1 + faults
    BY <2>1, <2>3 DEF Within
  <2>5. CASE m \notin current
    BY <2>2, <2>4, <2>5 DEF PaidInv, Paid
  <2>6. CASE m \in current
    <3>1. pc \in Holding
      BY <2>6 DEF PaidInv, LoopInv, Loop
    <3>2. Paid(m)
      BY DEF PaidInv
    <3>3. CASE pc = "acking" /\ call.read
      <4>1. Within(m, IF s.state = "sent" THEN Load(r)
                      ELSE IF s.owner = me THEN Odd(r) ELSE Back(r, me))
        BY <2>6, <3>2, <3>3 DEF Paid
      <4> QED BY <2>2, <2>4, <4>1
    <3>4. CASE pc = "nacking" /\ call.read
      <4>1. Within(m, IF s.owner = me THEN 1 + Odd(r) ELSE Load(r))
        BY <2>6, <3>2, <3>4 DEF Paid
      <4> QED BY <2>2, <2>4, <4>1
    <3>5. CASE ~(pc \in {"acking", "nacking"} /\ call.read)
      BY <2>2, <2>4, <2>6, <3>1, <3>2, <3>5 DEF Paid, Holding
    <3> QED BY <3>3, <3>4, <3>5
  <2> QED BY <2>5, <2>6
<1> QED BY <1>1, PaidInit, PaidStep, PTL DEF Spec
=============================================================================
