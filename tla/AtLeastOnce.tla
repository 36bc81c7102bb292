---------------------------- MODULE AtLeastOnce ----------------------------
(***************************************************************************)
(* What the outbox promises: a message once accepted is not forgotten, and *)
(* is settled as sent only after it was received.  While nothing goes      *)
(* wrong it is received at most once, is settled for good, and is given up *)
(* only if it was never received.  After a fault the promise is weaker:    *)
(* copies may be repeated and settled messages opened again, but "sent"    *)
(* still means received.                                                   *)
(***************************************************************************)
EXTENDS Naturals

CONSTANT Keys

VARIABLES
  stage,    \* "absent", "open", "sent" or "dead", for each message
  copies,   \* how often each message was received
  calm      \* no fault so far

Init ==
  /\ stage = [m \in Keys |-> "absent"]
  /\ copies = [m \in Keys |-> 0]
  /\ calm = TRUE

Move(m, from, to) ==
  /\ stage[m] = from
  /\ stage' = [stage EXCEPT ![m] = to]
  /\ UNCHANGED <<copies, calm>>

Accept(m) == Move(m, "absent", "open")

Settle(m) == copies[m] > 0 /\ Move(m, "open", "sent")

GiveUp(m) == (calm => copies[m] = 0) /\ Move(m, "open", "dead")

Arrives(m) ==
  /\ stage[m] # "absent"
  /\ copies' = [copies EXCEPT ![m] = @ + 1]
  /\ UNCHANGED stage

Receive(m) ==
  /\ calm => stage[m] = "open" /\ copies[m] = 0
  /\ Arrives(m)
  /\ UNCHANGED calm

\* A fault, possibly a send that got through and was reported as failed.
Disturb ==
  /\ calm' = FALSE
  /\ (\E m \in Keys : Arrives(m)) \/ UNCHANGED <<stage, copies>>

\* After a fault a late request may overwrite what was settled, in every row
\* it is about.
Overwrite ==
  /\ ~calm
  /\ stage' \in [Keys -> {"absent", "open", "sent", "dead"}]
  /\ \A m \in Keys :
       /\ stage[m] = "absent" <=> stage'[m] = "absent"
       /\ stage'[m] = "sent" => copies[m] > 0
  /\ UNCHANGED <<copies, calm>>

Next ==
  \/ \E m \in Keys : Accept(m) \/ Receive(m) \/ Settle(m) \/ GiveUp(m)
  \/ Disturb \/ Overwrite

Spec == Init /\ [][Next]_<<stage, copies, calm>>
=============================================================================
