------------------------------ MODULE Resolver ------------------------------
(***************************************************************************)
(* services/cloud-playback/resolver.py: the process that exchanges a       *)
(* refresh token for a new one and asks the provider for playback links.   *)
(* A refresh token works once: whoever presents it gets its successor and  *)
(* the token itself is spent.                                              *)
(*                                                                         *)
(* One directory holds the token state, the refresh intent and, under one  *)
(* name for both, the temporary file of atomic_save.  A process may die    *)
(* between any two steps, and so may the power: the disk is then as it was *)
(* at some moment since the directory was last synchronised.  The server   *)
(* is single-threaded, so a process is at one place of ensure_token or     *)
(* resolve at a time; processes exclude each other by the lease.           *)
(*                                                                         *)
(* Tokens are numbered as the provider issues them.  Times (expiry,        *)
(* cooldown, cache) are facts that may become true or false at any moment. *)
(* The shape of a request and of a link is left out: a request either is   *)
(* refused before it starts or asks for one file.                          *)
(***************************************************************************)
EXTENDS Naturals

CONSTANTS
  Procs,         \* resolver processes that may be started on one state file
  MaxTokens,     \* bound on the tokens the provider issues
  MaxCrashes,    \* bound on deaths of a process and power losses
  MaxReconciles  \* bound on the operator's reconciliations

ASSUME ResolverAssumption == {MaxTokens, MaxCrashes, MaxReconciles} \subseteq Nat

VARIABLES
  dir,       \* the directory of the state file
  views,     \* what a power loss now may leave of it
  proc,      \* each process: its place and its memory
  current,   \* the provider's valid refresh token
  expired,   \* the tokens whose access token is about to expire
  times,     \* how often each token was presented since it was last reconciled
  used       \* crashes and reconciliations so far, against their bounds

vars == <<dir, views, proc, current, expired, times, used>>

Tokens == 0..MaxTokens

Dir == [state : Tokens, intent : BOOLEAN, pending : BOOLEAN]

PC == {"off", "ready", "token", "open", "write", "replace", "sync", "send",
       "readback", "unlink", "info", "link"}

\* mem: self.state; got: the candidate; saves: what atomic_save is writing.
Proc == [pc : PC, mem : Tokens, got : Tokens, saves : {"intent", "state"},
         cool : BOOLEAN, cached : BOOLEAN]

TypeOK ==
  /\ dir \in Dir /\ views \subseteq Dir /\ dir \in views
  /\ proc \in [Procs -> Proc]
  /\ \A p \in Procs : proc[p].pc = "send" => dir.intent
  /\ current \in Tokens /\ expired \subseteq Tokens
  /\ times \in [Tokens -> Nat]
  /\ used \in [crashes : 0..MaxCrashes, reconciles : 0..MaxReconciles]

Off == [pc |-> "off", mem |-> 0, got |-> 0, saves |-> "intent",
        cool |-> FALSE, cached |-> FALSE]

Init ==
  /\ dir = [state |-> 0, intent |-> FALSE, pending |-> FALSE]
  /\ views = {dir}
  /\ proc = [p \in Procs |-> Off]
  /\ current = 0 /\ expired = {}
  /\ times = [t \in Tokens |-> 0]
  /\ used = [crashes |-> 0, reconciles |-> 0]

-----------------------------------------------------------------------------
(* main: the lease, then the state file is read.                           *)

\* Mutant of Free: every socket has a lease of its own.
FreeAlways(p) == TRUE

\* Nobody holds the lease of the state file.
Free(p) == \A q \in Procs : proc[q].pc = "off"

Start(p) ==
  /\ proc[p].pc = "off" /\ Free(p)
  /\ proc' = [proc EXCEPT ![p] = [Off EXCEPT !.pc = "ready", !.mem = dir.state]]
  /\ UNCHANGED <<dir, views, current, expired, times, used>>

-----------------------------------------------------------------------------
(* resolve, up to ensure_token.                                            *)

Goto(p, pc) == proc' = [proc EXCEPT ![p].pc = pc]

\* A cached link is answered at once.
Resolve(p) ==
  /\ proc[p].pc = "ready" /\ ~proc[p].cached
  /\ Goto(p, "token")
  /\ UNCHANGED <<dir, views, current, expired, times, used>>

\* Mutant of Refused: the intent is not looked at.
RefusedNever == FALSE

Refused == dir.intent

CheckToken(p) ==
  /\ proc[p].pc = "token"
  /\ IF proc[p].mem \notin expired THEN Goto(p, "info")
     ELSE IF Refused THEN Goto(p, "ready")
     ELSE proc' = [proc EXCEPT ![p] = [@ EXCEPT !.pc = "open", !.saves = "intent"]]
  /\ UNCHANGED <<dir, views, current, expired, times, used>>

-----------------------------------------------------------------------------
(* atomic_save, of the intent and of the new state.                        *)

\* What the directory becomes may survive a power loss, or not yet.
Changes(d) == dir' = d /\ views' = views \cup {d}

\* The temporary file must not exist yet.
OpenTemp(p) ==
  /\ proc[p].pc = "open"
  /\ IF dir.pending
     THEN Goto(p, "ready") /\ UNCHANGED <<dir, views>>
     ELSE Goto(p, "write") /\ Changes([dir EXCEPT !.pending = TRUE])
  /\ UNCHANGED <<current, expired, times, used>>

WriteTemp(p) ==
  /\ proc[p].pc = "write"
  /\ Goto(p, "replace")
  /\ UNCHANGED <<dir, views, current, expired, times, used>>

Replace(p) ==
  /\ proc[p].pc = "replace"
  /\ Changes(IF proc[p].saves = "intent"
             THEN [dir EXCEPT !.pending = FALSE, !.intent = TRUE]
             ELSE [dir EXCEPT !.pending = FALSE, !.state = proc[p].got])
  /\ Goto(p, "sync")
  /\ UNCHANGED <<current, expired, times, used>>

\* Mutant of Durable: the directory is not synchronised.
DurableNot == views

Durable == {dir}

SyncDir(p) ==
  /\ proc[p].pc = "sync"
  /\ views' = Durable
  /\ Goto(p, IF proc[p].saves = "intent" THEN "send" ELSE "readback")
  /\ UNCHANGED <<dir, current, expired, times, used>>

\* A full disk, for instance: the request is answered with an error, and what
\* was written so far stays.
SaveFails(p) ==
  /\ proc[p].pc \in {"write", "replace", "sync"}
  /\ Goto(p, "ready")
  /\ UNCHANGED <<dir, views, current, expired, times, used>>

-----------------------------------------------------------------------------
(* request and the rest of ensure_token.                                   *)

\* The call ends in an error: an HTTP status or a rejection starts a cooldown,
\* a lost connection or a malformed answer does not.
CallFails(p) ==
  \E c \in {proc[p].cool, TRUE} :
    proc' = [proc EXCEPT ![p] = [@ EXCEPT !.pc = "ready", !.cool = c]]

CoolingDown(p) ==
  /\ proc[p].pc \in {"send", "info", "link"} /\ proc[p].cool
  /\ Goto(p, "ready")
  /\ UNCHANGED <<dir, views, current, expired, times, used>>

Presents(p) ==
  /\ proc[p].pc = "send" /\ ~proc[p].cool
  /\ times' = [times EXCEPT ![proc[p].mem] = @ + 1]
  /\ UNCHANGED <<dir, views, expired, used>>

\* The provider takes the token and issues the next one; the answer may get
\* lost, be malformed, or lack a field.
RefreshTaken(p) ==
  /\ Presents(p)
  /\ proc[p].mem = current /\ current < MaxTokens
  /\ current' = current + 1
  /\ \/ CallFails(p)
     \/ proc' = [proc EXCEPT ![p] = [@ EXCEPT !.pc = "open", !.saves = "state",
                                              !.got = current']]

\* The provider does not get the request, or refuses it.
RefreshNotTaken(p) ==
  /\ Presents(p)
  /\ CallFails(p)
  /\ UNCHANGED current

ReadBack(p) ==
  /\ proc[p].pc = "readback"
  /\ LET same == dir.state = proc[p].got
     IN  proc' = [proc EXCEPT ![p] =
           [@ EXCEPT !.mem = dir.state, !.pc = IF same THEN "unlink" ELSE "ready"]]
  /\ UNCHANGED <<dir, views, current, expired, times, used>>

UnlinkIntent(p) ==
  /\ proc[p].pc = "unlink"
  /\ Changes([dir EXCEPT !.intent = FALSE])
  /\ Goto(p, "info")
  /\ UNCHANGED <<current, expired, times, used>>

-----------------------------------------------------------------------------
(* The rest of resolve: the file must be the one of the receipt, and the   *)
(* link one of the provider's.                                             *)

GetInfo(p) ==
  /\ proc[p].pc = "info" /\ ~proc[p].cool
  /\ CallFails(p) \/ Goto(p, "link")
  /\ UNCHANGED <<dir, views, current, expired, times, used>>

GetLink(p) ==
  /\ proc[p].pc = "link" /\ ~proc[p].cool
  /\ \/ CallFails(p)
     \/ proc' = [proc EXCEPT ![p] = [@ EXCEPT !.pc = "ready", !.cached = TRUE]]
  /\ UNCHANGED <<dir, views, current, expired, times, used>>

-----------------------------------------------------------------------------
(* Time, deaths and the operator.                                          *)

Expires(t) ==
  /\ t \notin expired /\ t <= current
  /\ expired' = expired \cup {t}
  /\ UNCHANGED <<dir, views, proc, current, times, used>>

CooldownEnds(p) ==
  /\ proc[p].cool
  /\ proc' = [proc EXCEPT ![p].cool = FALSE]
  /\ UNCHANGED <<dir, views, current, expired, times, used>>

CacheEnds(p) ==
  /\ proc[p].cached
  /\ proc' = [proc EXCEPT ![p].cached = FALSE]
  /\ UNCHANGED <<dir, views, current, expired, times, used>>

CountCrash ==
  /\ used.crashes < MaxCrashes
  /\ used' = [used EXCEPT !.crashes = @ + 1]

Crash(p) ==
  /\ proc[p].pc # "off" /\ CountCrash
  /\ proc' = [proc EXCEPT ![p] = Off]
  /\ UNCHANGED <<dir, views, current, expired, times>>

PowerLoss ==
  /\ CountCrash
  /\ dir' \in views /\ views' = {dir'}
  /\ proc' = [p \in Procs |-> Off]
  /\ UNCHANGED <<current, expired, times>>

\* The operator stops the service, removes what blocks it, and either knows
\* that the stored token is still valid or obtains a new authorisation.
Reconcile ==
  /\ used.reconciles < MaxReconciles
  /\ \A p \in Procs : proc[p].pc = "off"
  /\ dir.intent \/ dir.pending
  /\ \/ dir.state = current /\ UNCHANGED current
     \/ current < MaxTokens /\ current' = current + 1
  /\ dir' = [state |-> current', intent |-> FALSE, pending |-> FALSE]
  /\ views' = {dir'}
  /\ times' = [times EXCEPT ![current'] = 0]
  /\ used' = [used EXCEPT !.reconciles = @ + 1]
  /\ UNCHANGED <<proc, expired>>

-----------------------------------------------------------------------------
Save(p) == OpenTemp(p) \/ WriteTemp(p) \/ Replace(p) \/ SyncDir(p) \/ SaveFails(p)

Refresh(p) ==
  CheckToken(p) \/ RefreshTaken(p) \/ RefreshNotTaken(p) \/ ReadBack(p)
    \/ UnlinkIntent(p)

Serve(p) == Resolve(p) \/ CoolingDown(p) \/ GetInfo(p) \/ GetLink(p)

Next ==
  \/ \E p \in Procs :
       Start(p) \/ Serve(p) \/ Save(p) \/ Refresh(p) \/ CooldownEnds(p)
         \/ CacheEnds(p) \/ Crash(p)
  \/ \E t \in Tokens : Expires(t)
  \/ PowerLoss \/ Reconcile

Spec == Init /\ [][Next]_vars

-----------------------------------------------------------------------------
(* Properties.                                                             *)

\* A refresh token is presented at most once, by whichever process and after
\* whatever crashes: no loop of restarts consumes tokens.
PresentedOnce == \A t \in Tokens : times[t] <= 1

\* Whatever a power loss leaves of the directory: when the stored token is
\* spent, the intent is there to say so.
LostTokenIsMarked == \A d \in views : d.state # current => d.intent

\* A running process works with the stored token; while it does not, the
\* intent keeps it from presenting its own.  (With the types.)
ServesStoredToken ==
  /\ TypeOK
  /\ \A p \in Procs :
       proc[p].pc # "off" /\ proc[p].mem # dir.state => dir.intent
=============================================================================
