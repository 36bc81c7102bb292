------------------------------ MODULE Delivery ------------------------------
(***************************************************************************)
(* The bot process (services/wecom-bot/src/index.ts) delivering the rows   *)
(* of the outbox through the internal API of the recognition process       *)
(* (internal_api.py).                                                      *)
(*                                                                         *)
(* The bot polls in one loop: it claims a batch, and for each message of   *)
(* it in order sends the message and acknowledges it; when one of the two  *)
(* fails it rejects the message, and when the rejection fails too it       *)
(* abandons the batch.  A request of the bot is handled by a thread of     *)
(* the recognition process, in two steps (read, commit: see Outbox).  The  *)
(* bot stops waiting after 15 seconds, while the handler may wait 30       *)
(* seconds for SQLite's write lock: an abandoned request, a stray, may     *)
(* commit much later, or never.                                            *)
(***************************************************************************)
EXTENDS Outbox

CONSTANT MaxFaults   \* bound on the timeouts, crashes and false send errors

ASSUME DeliveryAssumption == MaxFaults \in Nat

VARIABLES
  pc,         \* where the bot's loop is
  me,         \* config.workerId of the running bot
  batch,      \* the claimed messages whose turn has not come
  current,    \* the message being handled, {} between two
  call,       \* the request the bot is waiting for, or NoCall
  strays,     \* requests whose bot stopped waiting
  delivered,  \* how often each message reached the owner (history)
  claims,     \* how often a claim of each message was committed (history)
  faults      \* timeouts, crashes and false send errors so far (history)

bot  == <<pc, me, batch, current, call>>
vars == <<row, bot, strays, delivered, claims, faults>>

PC == {"down", "idle", "claiming", "next", "deliver", "ack", "acking", "nack",
       "nacking"}

Request == [op : {"claim", "ack", "nack"}, worker : Workers, read : BOOLEAN,
            keys : SUBSET Keys, snap : [Keys -> Row], nr : Nat]

NoCall == [op |-> "none"]

NewCall(op, keys) ==
  [op |-> op, worker |-> me, read |-> FALSE, keys |-> keys,
   snap |-> [m \in Keys |-> NoRow], nr |-> 0]

TypeOK ==
  /\ row \in [Keys -> Row]
  /\ pc \in PC /\ me \in Workers
  /\ batch \subseteq Keys /\ current \subseteq Keys
  /\ call \in Request \cup {NoCall}
  /\ strays \subseteq Request
  /\ delivered \in [Keys -> Nat] /\ claims \in [Keys -> Nat]
  /\ faults \in Nat

Init ==
  /\ InitRows
  /\ pc = "idle" /\ me \in Workers
  /\ batch = {} /\ current = {} /\ call = NoCall
  /\ strays = {}
  /\ delivered = [m \in Keys |-> 0]
  /\ claims = [m \in Keys |-> 0]
  /\ faults = 0

-----------------------------------------------------------------------------
(* The handlers of the recognition process: read, then commit.             *)

ReadBy(c) ==
  LET keys == IF c.op = "claim" THEN ClaimBatch ELSE c.keys
  IN  [c EXCEPT !.read = TRUE, !.keys = keys,
                !.snap = [m \in Keys |-> IF m \in keys THEN row[m] ELSE NoRow]]

Accepted(c) ==
  \A m \in c.keys : \/ c.op = "claim"
                    \/ c.op = "ack"  /\ AckAccepted(c.snap[m], c.worker)
                    \/ c.op = "nack" /\ RejectAccepted(c.snap[m], c.worker)

Written(c, m) ==
  CASE c.op = "claim" -> Claimed(row[m], c.snap[m], c.worker)
    [] c.op = "ack"   -> Acked(row[m], c.snap[m])
    [] c.op = "nack"  -> Rejected(row[m], c.snap[m])

Commit(c) ==
  /\ row' = [m \in Keys |->
               IF m \in c.keys /\ Accepted(c) THEN Written(c, m) ELSE row[m]]
  /\ claims' = [m \in Keys |->
               IF m \in c.keys /\ c.op = "claim" THEN claims[m] + 1 ELSE claims[m]]

ServerReads ==
  /\ call # NoCall /\ ~call.read
  /\ call' = ReadBy(call)
  /\ UNCHANGED <<row, pc, me, batch, current, strays, delivered, claims, faults>>

StrayReads(c) ==
  /\ ~c.read
  /\ strays' = (strays \ {c}) \cup {ReadBy(c)}
  /\ UNCHANGED <<row, bot, delivered, claims, faults>>

StrayCommits(c) ==
  /\ c.read
  /\ Commit(c)
  /\ strays' = strays \ {c}
  /\ UNCHANGED <<bot, delivered, faults>>

\* The handler of a stray ends without a commit: lock timeout, restart.
StrayLost(c) ==
  /\ strays' = strays \ {c}
  /\ UNCHANGED <<row, bot, delivered, claims, faults>>

-----------------------------------------------------------------------------
(* The loop of pollOutbox.                                                 *)

Send(from, op, keys, to) ==
  /\ pc = from
  /\ pc' = to
  /\ call' = NewCall(op, keys)
  /\ UNCHANGED <<row, me, batch, current, strays, delivered, claims, faults>>

SendClaim == Send("idle", "claim", {}, "claiming")

SendAck == Send("ack", "ack", current, "acking")

SendNack == Send("nack", "nack", current, "nacking")

Goto(next) == pc' = next /\ call' = NoCall

\* The loop ends with the message being handled, or is left by an exception.
Done == Goto("next") /\ current' = {} /\ UNCHANGED batch

Abandon == Goto("idle") /\ current' = {} /\ batch' = {}

\* The next message of the batch, in the order of the claim's query.
Turn ==
  /\ pc = "next"
  /\ \/ batch = {} /\ pc' = "idle" /\ UNCHANGED <<batch, current>>
     \/ \E m \in batch :
          /\ \A n \in batch \ {m} : Before(m, n)
          /\ pc' = "deliver" /\ current' = {m} /\ batch' = batch \ {m}
  /\ UNCHANGED <<row, me, call, strays, delivered, claims, faults>>

\* The commit of the handler, and its answer received by the bot.
Answered ==
  /\ call # NoCall /\ call.read
  /\ Commit(call)
  /\ CASE call.op = "claim" -> Goto("next") /\ batch' = call.keys /\ current' = {}
       [] call.op = "ack"   -> IF Accepted(call) THEN Done
                               ELSE Goto("nack") /\ UNCHANGED <<batch, current>>
       [] call.op = "nack"  -> IF Accepted(call) THEN Done ELSE Abandon
  /\ UNCHANGED <<me, strays, delivered, faults>>

Received ==
  delivered' = [m \in Keys |-> IF m \in current THEN delivered[m] + 1
                              ELSE delivered[m]]

\* Mutant of Delivers: the rejection is in a finally block.
DeliversAndRejects ==
  /\ pc = "deliver" /\ pc' = "nack" /\ Received
  /\ UNCHANGED <<row, me, batch, current, call, strays, claims, faults>>

\* transport.sendMessage resolves: the message reached the owner.
Delivers ==
  /\ pc = "deliver"
  /\ pc' = "ack"
  /\ Received
  /\ UNCHANGED <<row, me, batch, current, call, strays, claims, faults>>

\* Mutant of SendFails: the error is swallowed.
SendFailsUnseen ==
  /\ pc = "deliver" /\ pc' = "ack"
  /\ UNCHANGED <<row, me, batch, current, call, strays, delivered, claims, faults>>

\* transport.sendMessage rejects: not connected, or refused.
SendFails ==
  /\ pc = "deliver"
  /\ pc' = "nack"
  /\ UNCHANGED <<row, me, batch, current, call, strays, delivered, claims, faults>>

-----------------------------------------------------------------------------
(* Faults.                                                                 *)

Fault == faults < MaxFaults /\ faults' = faults + 1

\* What becomes of the request the bot no longer waits for: it is still on
\* its way or in its handler, or it is lost.
Leave ==
  \/ /\ call # NoCall
     /\ strays' = strays \cup {[call EXCEPT !.nr = faults + 1]}
  \/ strays' = strays

\* The send is reported as failed although the message got through.
SendFailsLate ==
  /\ pc = "deliver" /\ Fault
  /\ pc' = "nack"
  /\ Received
  /\ UNCHANGED <<row, me, batch, current, call, strays, claims>>

\* AbortSignal.timeout, a dropped connection, or an answer of status 500.
CallFails ==
  /\ call # NoCall /\ Fault /\ Leave
  /\ IF call.op = "ack" THEN Goto("nack") /\ UNCHANGED <<batch, current>>
     ELSE Abandon
  /\ UNCHANGED <<row, me, delivered, claims>>

BotCrashes ==
  /\ pc # "down" /\ Fault /\ Leave
  /\ batch' = {} /\ current' = {} /\ Goto("down")
  /\ UNCHANGED <<row, me, delivered, claims>>

\* supervisord restarts the bot: its name contains the process id, which may
\* or may not be that of an earlier bot.
BotStarts ==
  /\ pc = "down"
  /\ me' \in Workers
  /\ Goto("idle")
  /\ UNCHANGED <<row, batch, current, strays, delivered, claims, faults>>

-----------------------------------------------------------------------------
Others == <<bot, strays, delivered, claims, faults>>

Enqueues(m) == Enqueue(m) /\ UNCHANGED Others

TimePasses(m) ==
  \/ LeaseExpires(m) /\ UNCHANGED Others
  \/ BackoffElapses(m) /\ UNCHANGED Others

Strays ==
  \E c \in strays : StrayReads(c) \/ StrayCommits(c) \/ StrayLost(c)

BotStep ==
  \/ Turn \/ SendClaim \/ SendAck \/ SendNack \/ ServerReads \/ Answered
  \/ Delivers \/ SendFails

Faulty == SendFailsLate \/ CallFails \/ BotCrashes

Next ==
  \/ \E m \in Keys : Enqueues(m) \/ TimePasses(m)
  \/ BotStep \/ Strays \/ Faulty \/ BotStarts

Spec == Init /\ [][Next]_vars

\* The loop runs while the process lives, supervisord restarts it, a handler
\* is run by its thread, and time passes.  Sending may fail every time.
Fairness ==
  /\ WF_vars(BotStep) /\ WF_vars(BotStarts)
  /\ \A m \in Keys : WF_vars(TimePasses(m))

FairSpec == Spec /\ Fairness

-----------------------------------------------------------------------------
(* Properties.                                                             *)

\* A row is marked sent only if the owner received its message, however the
\* acknowledgements of slow, crashed and restarted bots interleave.
SentWasDelivered ==
  \A m \in Keys : row[m].state = "sent" => delivered[m] > 0

\* A message reaches the owner once more than needed only after a fault, and
\* one fault costs at most one repetition of each message, although a late
\* claim or rejection may put a row back that was already acknowledged.
RepeatsNeedFaults == \A m \in Keys : delivered[m] <= 1 + faults

\* A row goes dead only after MaxAttempts claims of it were committed, even
\* though a late claim may write an older count over a newer one.
DeadWasClaimedOften ==
  \A m \in Keys :
    /\ row[m].attempts <= claims[m]
    /\ row[m].state = "dead" => claims[m] >= MaxAttempts

Requests == strays \cup ({call} \ {NoCall})

\* A claim that read the row while it was pending, or a rejection that read it
\* while its worker held it.
Reopens(c, m) ==
  /\ c.read /\ m \in c.keys
  /\ \/ c.op = "claim" /\ c.snap[m].state = "pending"
     \/ c.op = "nack" /\ c.snap[m].owner = c.worker

\* Before the first fault a sent row is never written again.  Later a late claim
\* or rejection may open it again, nothing else does: no claim that found the row
\* leased, no acknowledgement, no lease that runs out, no second enqueue.
SentIsFinal ==
  [][\A m \in Keys :
       row[m].state = "sent" /\ row'[m] # row[m] =>
         /\ faults > 0
         /\ row'[m].state # "sent" =>
              \E c \in Requests : Commit(c) /\ Reopens(c, m)]_vars

\* Every message that was enqueued is sent or given up in the end, whichever
\* answers were late and however often the bot crashed on the way.
Settles ==
  \A m \in Keys :
    row[m].state \in {"pending", "leased"} ~> row[m].state \in {"sent", "dead"}

\* Refinement: seen through its rows and its deliveries, the system keeps the
\* promise of AtLeastOnce: without faults each message is received at most once
\* and given up only if it was never received.
Stage(m) ==
  IF row[m].state \in {"pending", "leased"} THEN "open" ELSE row[m].state

Promise == INSTANCE AtLeastOnce
  WITH stage <- [m \in Keys |-> Stage(m)], copies <- delivered,
       calm <- (faults = 0)

DeliversAtLeastOnce == Promise!Spec
=============================================================================
