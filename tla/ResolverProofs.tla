--------------------------- MODULE ResolverProofs ---------------------------
(***************************************************************************)
(* Proofs about Resolver, for any number of processes, tokens, crashes,    *)
(* power losses and reconciliations: a refresh token is presented at most  *)
(* once, a spent token on the disk is marked, and a running process works  *)
(* with the stored token.                                                  *)
(***************************************************************************)
EXTENDS Resolver, TLAPS

\* The lease lets one process run.
Alone ==
  \A p, q \in Procs : proc[p].pc # "off" /\ proc[q].pc # "off" => p = q

\* Who is not marked by an intent, now or after a power loss, was not
\* presented; nor was a token that does not exist yet.
Unspent ==
  /\ \A d \in views : times[current] > 0 => d.intent
  /\ \A t \in Tokens : t > current => times[t] = 0

\* Every state of the directory that may survive has the intent.
Marked == \A d \in views : d.intent

Saving(p) == proc[p].pc \in {"open", "write", "replace", "sync"}

\* Between its decision to refresh and its request: the token is the valid one.
Asking(p) ==
  (Saving(p) /\ proc[p].saves = "intent") \/ proc[p].pc = "send" =>
    proc[p].mem = current /\ dir.state = current /\ times[current] = 0

\* With a new token in its hands.
Holding(p) ==
  (Saving(p) /\ proc[p].saves = "state") \/ proc[p].pc \in {"readback", "unlink"} =>
    proc[p].got = current /\ times[current] = 0

\* What the places of a refresh say of the disk.
Placed(p) ==
  /\ (Saving(p) /\ proc[p].saves = "state") \/ proc[p].pc \in {"send", "readback"}
       => Marked
  /\ proc[p].pc = "sync" =>
       IF proc[p].saves = "intent" THEN dir.intent ELSE dir.state = proc[p].got
  /\ proc[p].pc \in {"readback", "unlink"} =>
       views = {dir} /\ dir.state = proc[p].got
  /\ proc[p].pc = "unlink" => proc[p].mem = dir.state

\* A process that does not work with the stored token is kept from its own; one
\* that does not run has no memory.
Own(p) ==
  /\ proc[p].pc = "off" => proc[p] = Off
  /\ proc[p].pc # "off" /\ proc[p].mem # dir.state => dir.intent
  /\ Asking(p) /\ Holding(p) /\ Placed(p)

Tokened == PresentedOnce /\ LostTokenIsMarked /\ Unspent

Stored ==
  /\ dir \in Dir /\ views \subseteq Dir /\ dir \in views
  /\ current \in Tokens /\ expired \subseteq Tokens
  /\ times \in [Tokens -> Nat]
  /\ used \in [crashes : 0..MaxCrashes, reconciles : 0..MaxReconciles]

Typed == Stored /\ proc \in [Procs -> Proc]

IInv == Typed /\ Tokened /\ Alone /\ \A p \in Procs : Own(p)

-----------------------------------------------------------------------------
(* The steps of a process.                                                 *)

\* A process that does not run is well formed.
LEMMA OffType == Off \in Proc
  BY ResolverAssumption DEF Off, Proc, PC, Tokens

\* Counting a crash keeps the count within its bound.
LEMMA CountType ==
  ASSUME Stored, CountCrash
  PROVE  used' \in [crashes : 0..MaxCrashes, reconciles : 0..MaxReconciles]
  BY ResolverAssumption DEF Stored, CountCrash

\* A directory that changes in one file is still one.
LEMMA DirType ==
  ASSUME Stored, NEW d \in Dir, Changes(d), UNCHANGED <<current, expired, times, used>>
  PROVE  Stored'
  BY DEF Stored, Changes

\* The others are off when one runs.
LEMMA OthersOff ==
  ASSUME IInv, NEW p \in Procs, proc[p].pc # "off"
  PROVE  \A q \in Procs \ {p} : proc[q].pc = "off"
  BY DEF IInv, Alone

\* What is proved about the process that moves, and about the disk, is enough:
\* the others are off.
LEMMA OneMoves ==
  ASSUME IInv, NEW p \in Procs, \A q \in Procs \ {p} : proc[q].pc = "off",
         NEW x \in Proc, proc' = [proc EXCEPT ![p] = x],
         Stored', Tokened', proc'[p] = x => Own(p)'
  PROVE  IInv'
<1>1. /\ proc' \in [Procs -> Proc] /\ proc'[p] = x
      /\ \A q \in Procs \ {p} : proc'[q] = proc[q]
  BY DEF IInv, Typed
<1>2. ASSUME NEW q \in Procs PROVE Own(q)'
  BY <1>1, <1>2 DEF IInv, Own, Asking, Holding, Placed, Saving
<1>3. Alone'
  BY <1>1 DEF Alone
<1> QED BY <1>1, <1>2, <1>3 DEF IInv, Typed

\* A process that changes only its place, to one outside of a refresh, its
\* cooldown or its cache keeps everything.
LEMMA Leaves ==
  ASSUME IInv, NEW p \in Procs, proc[p].pc # "off",
         NEW x \in Proc, proc' = [proc EXCEPT ![p] = x],
         x.mem = proc[p].mem,
         \/ x.pc \in {"ready", "token", "info", "link"}
         \/ x.pc = proc[p].pc /\ x.got = proc[p].got /\ x.saves = proc[p].saves,
         UNCHANGED <<dir, views, current, expired, times, used>>
  PROVE  IInv'
<1>1. Stored'
  BY DEF IInv, Typed, Stored
<1>2. Tokened'
  BY DEF IInv, Tokened, PresentedOnce, LostTokenIsMarked, Unspent
<1>3. proc'[p] = x => Own(p)'
  BY DEF IInv, Own, Asking, Holding, Placed, Saving, Marked
<1> QED BY <1>1, <1>2, <1>3, OneMoves, OthersOff

\* So does one whose call fails, whatever it did to the provider, unless it
\* works with a token that is no longer stored.
LEMMA CallFailed ==
  ASSUME IInv, NEW p \in Procs, proc[p].pc # "off", CallFails(p),
         Stored', Tokened', proc[p].mem # dir'.state => dir'.intent
  PROVE  IInv'
<1>1. PICK c \in {proc[p].cool, TRUE} :
        proc' = [proc EXCEPT ![p] = [@ EXCEPT !.pc = "ready", !.cool = c]]
  BY DEF CallFails
<1> DEFINE x == [proc[p] EXCEPT !.pc = "ready", !.cool = c]
<1>2. x \in Proc /\ x.pc = "ready" /\ x.mem = proc[p].mem
  BY DEF IInv, Typed, Proc, PC
<1>3. proc' = [proc EXCEPT ![p] = x]
  BY <1>1
<1> HIDE DEF x
<1>4. proc'[p] = x => Own(p)'
  BY <1>2 DEF Own, Asking, Holding, Placed, Saving
<1> QED BY <1>2, <1>3, <1>4, OneMoves, OthersOff

-----------------------------------------------------------------------------
(* The invariant.                                                          *)

\* It holds at the start.
LEMMA IInvInit == Init => IInv
  BY ResolverAssumption
     DEF Init, IInv, Typed, Stored, Tokened, PresentedOnce, LostTokenIsMarked, Unspent, Alone,
         Own, Asking, Holding, Placed, Saving, Off, Proc, PC, Dir, Tokens

\* Every action keeps it.
LEMMA IInvStep == IInv /\ [Next]_vars => IInv'
<1> SUFFICES ASSUME IInv, [Next]_vars PROVE IInv'
  OBVIOUS
<1> USE DEF Goto
<1>1. ASSUME NEW p \in Procs, Start(p) PROVE IInv'
  <2> DEFINE x == [Off EXCEPT !.pc = "ready", !.mem = dir.state]
  <2>1. x \in Proc
    BY OffType DEF IInv, Typed, Stored, Proc, PC, Dir
  <2>2. proc' = [proc EXCEPT ![p] = x] /\ \A q \in Procs : proc[q].pc = "off"
    BY <1>1 DEF Start, Free
  <2>3. Stored' /\ Tokened'
    BY <1>1 DEF Start, IInv, Typed, Stored, Tokened, PresentedOnce, LostTokenIsMarked,
                Unspent
  <2>4. x.pc = "ready" /\ x.mem = dir'.state
    BY <1>1 DEF Start, Off
  <2> HIDE DEF x
  <2>5. proc'[p] = x => Own(p)'
    BY <2>4 DEF Own, Asking, Holding, Placed, Saving
  <2> QED BY <2>1, <2>2, <2>3, <2>5, OneMoves
<1>2. ASSUME NEW p \in Procs, Resolve(p) PROVE IInv'
  BY <1>2, Leaves DEF Resolve, IInv, Typed, Proc, PC
<1>3. ASSUME NEW p \in Procs, CoolingDown(p) PROVE IInv'
  BY <1>3, Leaves DEF CoolingDown, IInv, Typed, Proc, PC
<1>4. ASSUME NEW p \in Procs, SaveFails(p) PROVE IInv'
  BY <1>4, Leaves DEF SaveFails, IInv, Typed, Proc, PC
<1>5. ASSUME NEW p \in Procs, CooldownEnds(p) PROVE IInv'
  <2>1. proc[p].pc # "off"
    BY <1>5 DEF CooldownEnds, IInv, Own, Off
  <2> QED BY <1>5, <2>1, Leaves DEF CooldownEnds, IInv, Typed, Proc, PC
<1>6. ASSUME NEW p \in Procs, CacheEnds(p) PROVE IInv'
  <2>1. proc[p].pc # "off"
    BY <1>6 DEF CacheEnds, IInv, Own, Off
  <2> QED BY <1>6, <2>1, Leaves DEF CacheEnds, IInv, Typed, Proc, PC
<1>7. ASSUME NEW p \in Procs, GetInfo(p) PROVE IInv'
  <2>1. CASE CallFails(p)
    <3>1. proc[p].pc # "off" /\ UNCHANGED <<dir, views, current, expired, times, used>>
      BY <1>7 DEF GetInfo
    <3>2. Stored' /\ Tokened' /\ (proc[p].mem # dir'.state => dir'.intent)
      BY <3>1 DEF IInv, Typed, Stored, Tokened, PresentedOnce, LostTokenIsMarked,
                  Unspent, Own
    <3> QED BY <2>1, <3>1, <3>2, CallFailed
  <2>2. CASE ~CallFails(p)
    BY <1>7, <2>2, Leaves DEF GetInfo, IInv, Typed, Proc, PC
  <2> QED BY <2>1, <2>2
<1>8. ASSUME NEW p \in Procs, GetLink(p) PROVE IInv'
  <2>1. CASE CallFails(p)
    <3>1. proc[p].pc # "off" /\ UNCHANGED <<dir, views, current, expired, times, used>>
      BY <1>8 DEF GetLink
    <3>2. Stored' /\ Tokened' /\ (proc[p].mem # dir'.state => dir'.intent)
      BY <3>1 DEF IInv, Typed, Stored, Tokened, PresentedOnce, LostTokenIsMarked,
                  Unspent, Own
    <3> QED BY <2>1, <3>1, <3>2, CallFailed
  <2>2. CASE ~CallFails(p)
    <3> DEFINE x == [proc[p] EXCEPT !.pc = "ready", !.cached = TRUE]
    <3>1. x \in Proc /\ x.pc = "ready" /\ x.mem = proc[p].mem
      BY DEF IInv, Typed, Proc, PC
    <3>2. /\ proc[p].pc # "off" /\ proc' = [proc EXCEPT ![p] = x]
          /\ UNCHANGED <<dir, views, current, expired, times, used>>
      BY <1>8, <2>2 DEF GetLink
    <3> HIDE DEF x
    <3> QED BY <3>1, <3>2, Leaves
  <2> QED BY <2>1, <2>2
<1>9. ASSUME NEW p \in Procs, CheckToken(p) PROVE IInv'
  <2>1. CASE proc[p].mem \notin expired \/ Refused
    BY <1>9, <2>1, Leaves DEF CheckToken, IInv, Typed, Proc, PC
  <2>2. CASE ~Refused /\ proc[p].mem \in expired
    <3> DEFINE x == [proc[p] EXCEPT !.pc = "open", !.saves = "intent"]
    <3>1. /\ x \in Proc /\ proc' = [proc EXCEPT ![p] = x] /\ proc[p].pc # "off"
          /\ UNCHANGED <<dir, views, current, expired, times, used>>
      BY <1>9, <2>2 DEF CheckToken, IInv, Typed, Proc, PC
    <3>2. proc[p].mem = dir.state /\ dir.state = current /\ times[current] = 0
      BY <1>9, <2>2 DEF CheckToken, Refused, IInv, Typed, Stored, Tokened,
                        LostTokenIsMarked, Unspent, Own
    <3>3. Stored' /\ Tokened'
      BY <3>1 DEF IInv, Typed, Stored, Tokened, PresentedOnce, LostTokenIsMarked, Unspent
    <3>4. x.mem = proc[p].mem /\ x.pc = "open" /\ x.saves = "intent"
      BY DEF IInv, Typed, Proc
    <3> HIDE DEF x
    <3>5. proc'[p] = x => Own(p)'
      BY <3>1, <3>2, <3>4 DEF Own, Asking, Holding, Placed, Saving
    <3> QED BY <3>1, <3>3, <3>5, OneMoves, OthersOff
  <2> QED BY <2>1, <2>2
<1>10. ASSUME NEW p \in Procs, OpenTemp(p) PROVE IInv'
  <2> DEFINE x == [proc[p] EXCEPT !.pc = IF dir.pending THEN "ready" ELSE "write"]
  <2>1. x \in Proc /\ proc' = [proc EXCEPT ![p] = x] /\ proc[p].pc # "off"
    BY <1>10 DEF OpenTemp, Changes, IInv, Typed, Stored, Proc, PC, Dir
  <2> HIDE DEF x
  <2>2. Stored'
    <3>1. [dir EXCEPT !.pending = TRUE] \in Dir
      BY DEF IInv, Typed, Stored, Dir
    <3>2. CASE dir.pending
      BY <1>10, <3>2 DEF OpenTemp, IInv, Typed, Stored
    <3>3. CASE ~dir.pending
      BY <1>10, <3>1, <3>3, DirType DEF OpenTemp, IInv, Typed
    <3> QED BY <3>2, <3>3
  <2>3. Tokened'
    BY <1>10 DEF OpenTemp, Changes, IInv, Typed, Stored, Tokened, PresentedOnce,
                LostTokenIsMarked, Unspent, Own, Asking, Holding, Placed, Saving,
                Marked, Dir, Tokens
  <2>4. proc'[p] = x => Own(p)'
    BY <1>10 DEF x, OpenTemp, Changes, IInv, Typed, Stored, Tokened, Unspent,
                LostTokenIsMarked, Own, Asking, Holding, Placed, Saving, Marked, Proc,
                Dir, Tokens, Off
  <2> QED BY <2>1, <2>2, <2>3, <2>4, OneMoves, OthersOff
<1>11. ASSUME NEW p \in Procs, WriteTemp(p) PROVE IInv'
  <2> DEFINE x == [proc[p] EXCEPT !.pc = "replace"]
  <2>1. x \in Proc /\ proc' = [proc EXCEPT ![p] = x] /\ proc[p].pc # "off"
    BY <1>11 DEF WriteTemp, IInv, Typed, Stored, Proc, PC, Dir
  <2> HIDE DEF x
  <2>2. Stored'
    BY <1>11 DEF WriteTemp, IInv, Typed, Stored
  <2>3. Tokened'
    BY <1>11 DEF WriteTemp, IInv, Typed, Stored, Tokened, PresentedOnce,
                LostTokenIsMarked, Unspent, Own, Asking, Holding, Placed, Saving,
                Marked, Dir, Tokens
  <2>4. proc'[p] = x => Own(p)'
    BY <1>11 DEF x, WriteTemp, IInv, Typed, Stored, Tokened, Unspent,
                LostTokenIsMarked, Own, Asking, Holding, Placed, Saving, Marked, Proc,
                Dir, Tokens, Off
  <2> QED BY <2>1, <2>2, <2>3, <2>4, OneMoves, OthersOff
<1>12. ASSUME NEW p \in Procs, Replace(p) PROVE IInv'
  <2> DEFINE x == [proc[p] EXCEPT !.pc = "sync"]
             d == IF proc[p].saves = "intent"
                  THEN [dir EXCEPT !.pending = FALSE, !.intent = TRUE]
                  ELSE [dir EXCEPT !.pending = FALSE, !.state = proc[p].got]
  <2>1. x \in Proc /\ proc' = [proc EXCEPT ![p] = x] /\ proc[p].pc = "replace"
    BY <1>12 DEF Replace, IInv, Typed, Proc, PC
  <2>2. Changes(d) /\ UNCHANGED <<current, expired, times, used>>
    BY <1>12 DEF Replace
  <2>3. /\ d \in Dir
        /\ proc[p].saves = "intent" => d.intent /\ d.state = dir.state
        /\ proc[p].saves = "state" => d.intent = dir.intent /\ d.state = proc[p].got
    BY DEF IInv, Typed, Stored, Proc, Dir
  <2>4. /\ x.pc = "sync" /\ x.mem = proc[p].mem /\ x.got = proc[p].got
        /\ x.saves = proc[p].saves /\ x.saves \in {"intent", "state"}
    BY DEF IInv, Typed, Proc
  <2> HIDE DEF x, d
  <2>5. Stored'
    BY <2>2, <2>3, DirType DEF IInv, Typed
  <2>6. Own(p) /\ dir \in views
    BY DEF IInv, Typed, Stored
  <2>7. Tokened'
    BY <2>1, <2>2, <2>3, <2>4, <2>6
       DEF Changes, IInv, Tokened, PresentedOnce, LostTokenIsMarked, Unspent, Own,
           Asking, Holding, Placed, Saving, Marked
  <2>8. proc'[p] = x => Own(p)'
    BY <2>1, <2>2, <2>3, <2>4, <2>6
       DEF Changes, Own, Asking, Holding, Placed, Saving, Marked
  <2> QED BY <2>1, <2>5, <2>7, <2>8, OneMoves, OthersOff
<1>13. ASSUME NEW p \in Procs, SyncDir(p) PROVE IInv'
  <2> DEFINE x == [proc[p] EXCEPT
                     !.pc = IF proc[p].saves = "intent" THEN "send" ELSE "readback"]
  <2>1. x \in Proc /\ proc' = [proc EXCEPT ![p] = x] /\ proc[p].pc # "off"
    BY <1>13 DEF SyncDir, Durable, IInv, Typed, Stored, Proc, PC, Dir
  <2> HIDE DEF x
  <2>2. Stored'
    BY <1>13 DEF SyncDir, Durable, IInv, Typed, Stored
  <2>3. Tokened'
    BY <1>13 DEF SyncDir, Durable, IInv, Typed, Stored, Tokened, PresentedOnce,
                LostTokenIsMarked, Unspent, Own, Asking, Holding, Placed, Saving,
                Marked, Dir, Tokens
  <2>4. proc'[p] = x => Own(p)'
    BY <1>13 DEF x, SyncDir, Durable, IInv, Typed, Stored, Tokened, Unspent,
                LostTokenIsMarked, Own, Asking, Holding, Placed, Saving, Marked, Proc,
                Dir, Tokens, Off
  <2> QED BY <2>1, <2>2, <2>3, <2>4, OneMoves, OthersOff
<1>14. ASSUME NEW p \in Procs, RefreshTaken(p) PROVE IInv'
  <2>1. /\ proc[p].pc = "send" /\ proc[p].mem = current /\ dir.state = current
        /\ times[current] = 0 /\ Marked
    BY <1>14 DEF RefreshTaken, Presents, IInv, Own, Asking, Placed
  <2>2. times' = [times EXCEPT ![current] = 1]
    BY <1>14, <2>1 DEF RefreshTaken, Presents
  <2>3. /\ current' = current + 1 /\ current < MaxTokens
        /\ UNCHANGED <<dir, views, expired, used>>
    BY <1>14 DEF RefreshTaken, Presents
  <2>4. Stored'
    BY <2>2, <2>3, ResolverAssumption DEF IInv, Typed, Stored, Tokens
  <2>5. Tokened'
    BY <2>1, <2>2, <2>3, <2>4
       DEF IInv, Typed, Stored, Tokened, PresentedOnce, LostTokenIsMarked, Unspent,
           Marked, Tokens
  <2>6. times'[current'] = 0 /\ current' \in Tokens
    BY <2>2, <2>3, <2>4 DEF IInv, Typed, Stored, Tokened, Unspent, Tokens
  <2>7. dir.intent
    BY <2>1 DEF IInv, Typed, Stored, Marked
  <2>8. CASE CallFails(p)
    BY <2>1, <2>3, <2>4, <2>5, <2>7, <2>8, CallFailed
  <2>9. CASE ~CallFails(p)
    <3> DEFINE x == [proc[p] EXCEPT !.pc = "open", !.saves = "state", !.got = current']
    <3>1. proc' = [proc EXCEPT ![p] = x]
      BY <1>14, <2>9 DEF RefreshTaken
    <3>2. x \in Proc /\ x.pc = "open" /\ x.saves = "state" /\ x.got = current'
      BY <2>6 DEF IInv, Typed, Proc, PC
    <3> HIDE DEF x
    <3>3. proc'[p] = x => Own(p)'
      BY <2>1, <2>3, <2>6, <2>7, <3>2
         DEF Own, Asking, Holding, Placed, Saving, Marked
    <3> QED BY <2>1, <2>4, <2>5, <3>1, <3>2, <3>3, OneMoves, OthersOff
  <2> QED BY <2>8, <2>9
<1>15. ASSUME NEW p \in Procs, RefreshNotTaken(p) PROVE IInv'
  <2>1. /\ proc[p].pc = "send" /\ proc[p].mem = current /\ dir.state = current
        /\ times[current] = 0 /\ Marked
    BY <1>15 DEF RefreshNotTaken, Presents, IInv, Own, Asking, Placed
  <2>2. times' = [times EXCEPT ![current] = 1]
    BY <1>15, <2>1 DEF RefreshNotTaken, Presents
  <2>3. CallFails(p) /\ UNCHANGED <<dir, views, expired, used, current>>
    BY <1>15 DEF RefreshNotTaken, Presents
  <2>4. Stored'
    BY <2>2, <2>3 DEF IInv, Typed, Stored
  <2>5. Tokened'
    BY <2>1, <2>2, <2>3
       DEF IInv, Typed, Stored, Tokened, PresentedOnce, LostTokenIsMarked, Unspent,
           Marked, Tokens
  <2>6. dir.intent
    BY <2>1 DEF IInv, Typed, Stored, Marked
  <2> QED BY <2>1, <2>3, <2>4, <2>5, <2>6, CallFailed
<1>16. ASSUME NEW p \in Procs, ReadBack(p) PROVE IInv'
  <2> DEFINE x == proc'[p]
  <2>1. x \in Proc /\ proc' = [proc EXCEPT ![p] = x] /\ proc[p].pc # "off"
    BY <1>16 DEF ReadBack, IInv, Typed, Stored, Proc, PC, Dir
  <2> HIDE DEF x
  <2>2. Stored'
    BY <1>16 DEF ReadBack, IInv, Typed, Stored
  <2>3. Tokened'
    BY <1>16 DEF ReadBack, IInv, Typed, Stored, Tokened, PresentedOnce,
                LostTokenIsMarked, Unspent, Own, Asking, Holding, Placed, Saving,
                Marked, Dir, Tokens
  <2>4. proc'[p] = x => Own(p)'
    BY <1>16 DEF x, ReadBack, IInv, Typed, Stored, Tokened, Unspent,
                LostTokenIsMarked, Own, Asking, Holding, Placed, Saving, Marked, Proc,
                Dir, Tokens, Off
  <2> QED BY <2>1, <2>2, <2>3, <2>4, OneMoves, OthersOff
<1>17. ASSUME NEW p \in Procs, UnlinkIntent(p) PROVE IInv'
  <2> DEFINE x == proc'[p]
  <2>1. x \in Proc /\ proc' = [proc EXCEPT ![p] = x] /\ proc[p].pc # "off"
    BY <1>17 DEF UnlinkIntent, Changes, IInv, Typed, Stored, Proc, PC, Dir
  <2> HIDE DEF x
  <2>2. Stored'
    <3>1. [dir EXCEPT !.intent = FALSE] \in Dir
      BY DEF IInv, Typed, Stored, Dir
    <3> QED BY <1>17, <3>1, DirType DEF UnlinkIntent, IInv, Typed
  <2>3. Tokened'
    BY <1>17 DEF UnlinkIntent, Changes, IInv, Typed, Stored, Tokened, PresentedOnce,
                LostTokenIsMarked, Unspent, Own, Asking, Holding, Placed, Saving,
                Marked, Dir, Tokens
  <2>4. proc'[p] = x => Own(p)'
    BY <1>17 DEF x, UnlinkIntent, Changes, IInv, Typed, Stored, Tokened, Unspent,
                LostTokenIsMarked, Own, Asking, Holding, Placed, Saving, Marked, Proc,
                Dir, Tokens, Off
  <2> QED BY <2>1, <2>2, <2>3, <2>4, OneMoves, OthersOff
<1>18. ASSUME NEW p \in Procs, Crash(p) PROVE IInv'
  <2>1. /\ proc[p].pc # "off" /\ proc' = [proc EXCEPT ![p] = Off]
        /\ CountCrash /\ UNCHANGED <<dir, views, current, expired, times>>
    BY <1>18 DEF Crash
  <2>2. Stored'
    BY <2>1, CountType DEF IInv, Typed, Stored
  <2>3. Tokened'
    BY <2>1 DEF IInv, Tokened, PresentedOnce, LostTokenIsMarked, Unspent
  <2>4. proc'[p] = Off => Own(p)'
    BY DEF Own, Asking, Holding, Placed, Saving, Off
  <2> QED BY <2>1, <2>2, <2>3, <2>4, OffType, OneMoves, OthersOff
<1>19. ASSUME NEW t \in Tokens, Expires(t) PROVE IInv'
  BY <1>19 DEF Expires, IInv, Typed, Stored, Tokened, PresentedOnce,
                LostTokenIsMarked, Unspent, Alone, Own, Asking, Holding, Placed, Saving,
                Marked
<1>20. CASE PowerLoss
  <2>1. CountCrash /\ dir' \in views /\ views' = {dir'}
        /\ UNCHANGED <<current, expired, times>>
    BY <1>20 DEF PowerLoss
  <2>2. Stored'
    BY <2>1, CountType DEF IInv, Typed, Stored
  <2>3. Tokened'
    BY <2>1 DEF IInv, Tokened, PresentedOnce, LostTokenIsMarked, Unspent
  <2>4. proc' \in [Procs -> Proc]
    BY <1>20, OffType DEF PowerLoss
  <2>5. ASSUME NEW p \in Procs PROVE Own(p)' /\ proc'[p].pc = "off"
    <3>1. proc'[p] = Off
      BY <1>20 DEF PowerLoss
    <3> QED BY <3>1 DEF Own, Asking, Holding, Placed, Saving, Off
  <2> QED BY <2>2, <2>3, <2>4, <2>5 DEF IInv, Typed, Alone
<1>21. CASE Reconcile
  <2>1. /\ current' \in Tokens /\ current <= current'
        /\ dir' = [state |-> current', intent |-> FALSE, pending |-> FALSE]
        /\ views' = {dir'} /\ times' = [times EXCEPT ![current'] = 0]
        /\ used' = [used EXCEPT !.reconciles = @ + 1] /\ used.reconciles < MaxReconciles
        /\ UNCHANGED <<proc, expired>> /\ \A p \in Procs : proc[p].pc = "off"
    BY <1>21, ResolverAssumption DEF Reconcile, IInv, Typed, Stored, Tokens
  <2>2. Stored'
    BY <2>1, ResolverAssumption DEF IInv, Typed, Stored, Dir
  <2>3. Tokened'
    BY <2>1, <2>2
       DEF IInv, Typed, Stored, Tokened, PresentedOnce, LostTokenIsMarked, Unspent, Tokens
  <2>4. ASSUME NEW p \in Procs PROVE Own(p)'
    BY <2>1 DEF IInv, Own, Asking, Holding, Placed, Saving
  <2> QED BY <2>1, <2>2, <2>3, <2>4 DEF IInv, Typed, Alone
<1>22. CASE UNCHANGED vars
  BY <1>22 DEF vars, IInv, Typed, Stored, Tokened, PresentedOnce, LostTokenIsMarked,
                Unspent, Alone, Own, Asking, Holding, Placed, Saving, Marked
<1> QED
  BY <1>1, <1>2, <1>3, <1>4, <1>5, <1>6, <1>7, <1>8, <1>9, <1>10, <1>11,
     <1>12, <1>13, <1>14, <1>15, <1>16, <1>17, <1>18, <1>19, <1>20, <1>21, <1>22
     DEF Next, Save, Refresh, Serve

-----------------------------------------------------------------------------
(* The theorems.                                                           *)

\* The invariant holds in every reachable state.
LEMMA Invariance == Spec => []IInv
  BY IInvInit, IInvStep, PTL DEF Spec

\* No refresh token is presented twice: PresentedOnce holds for any number of
\* processes, crashes, power losses and reconciliations.
THEOREM TokensPresentedOnce == Spec => []PresentedOnce
<1>1. IInv => PresentedOnce
  BY DEF IInv, Tokened
<1> QED BY <1>1, Invariance, PTL

\* LostTokenIsMarked holds: whatever a power loss leaves of the directory, a
\* spent token comes with an intent.
THEOREM SpentTokensMarked == Spec => []LostTokenIsMarked
<1>1. IInv => LostTokenIsMarked
  BY DEF IInv, Tokened
<1> QED BY <1>1, Invariance, PTL

\* ServesStoredToken holds, and with it type correctness.
THEOREM StoredTokenServed == Spec => []ServesStoredToken
<1>1. IInv => ServesStoredToken
  BY DEF IInv, Typed, Stored, Own, Placed, Marked, ServesStoredToken, TypeOK
<1> QED BY <1>1, Invariance, PTL
=============================================================================
