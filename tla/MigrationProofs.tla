-------------------------- MODULE MigrationProofs ---------------------------
(***************************************************************************)
(* Proofs about Migration, for any number of images, processes, runs and   *)
(* faults: no image is lost, rows and names agree, a rollback restores,    *)
(* and files of others stay.                                               *)
(***************************************************************************)
EXTENDS Migration, SequenceTheorems, TLAPS

Elements(seq) == {seq[k] : k \in 1..Len(seq)}
Distinct(seq) == \A j, k \in 1..Len(seq) : seq[j] = seq[k] => j = k

\* The images that p has renamed.
Done(p) == Elements(proc[p].done)

Stored ==
  /\ old \in [Images -> Images \cup {Nothing, Foreign}]
  /\ new \in [Images -> Images \cup {Nothing, Foreign}]
  /\ {migrated, lock, broken} \subseteq BOOLEAN
  /\ used \in [runs : 0..MaxRuns, faults : 0..MaxFaults]

Alone == \A p, q \in Procs : p # q /\ proc[p].pc # "idle" => proc[q].pc = "idle"

Settled == \A i \in Images : (IF migrated THEN new[i] ELSE old[i]) = i

\* Rows and names agree when nothing runs.
Rested ==
  (\A p \in Procs : proc[p].pc = "idle") /\ ~lock /\ ~broken => Settled

\* What a migration renamed has its new name, what it has not begun its old one,
\* and what it is about to remove a name of has both.
Own(p) ==
  /\ proc[p].pc = "idle" => proc[p] = Idle
  /\ proc[p].pc # "idle" => lock
  /\ proc[p].pc = "plan" => proc[p].done = <<>> /\ proc[p].item = Nothing
  /\ Distinct(proc[p].done) /\ Done(p) \cap proc[p].todo = {}
  /\ \A i \in Done(p) : new[i] = i
  /\ proc[p].pc \in {"link", "unlink"} => \A i \in proc[p].todo : old[i] = i
  /\ proc[p].pc = "link" => proc[p].item = Nothing
  /\ proc[p].pc = "unlink" =>
       LET i == proc[p].item
       IN  i \in Images /\ i \notin Done(p) \cup proc[p].todo
             /\ old[i] = i /\ new[i] = i
  /\ proc[p].pc = "undounlink" =>
       LET i == Last(proc[p].done) IN proc[p].done # <<>> /\ old[i] = i

Working == Renaming \cup Undoing \cup {"commit"}

\* An image without its old name is renamed, one with a new name is renamed or
\* linked.
Accounted(p) ==
  \A i \in Images :
    /\ old[i] = i \/ i \in Done(p)
    /\ new[i] = i => i \in Done(p) \/ i = proc[p].item

\* Where rows and names stand, unless something was interrupted.
Progress(p) ==
  ~broken =>
    /\ proc[p].pc \in PC \ (Working \cup {"idle"}) => Settled
    /\ proc[p].pc \in Working /\ migrated =>
         /\ Settled
         /\ proc[p].done = <<>> /\ proc[p].todo = {}
         /\ proc[p].pc \notin {"unlink", "undounlink"}
    /\ proc[p].pc \in Working /\ ~migrated => Accounted(p)
    /\ proc[p].pc \in {"link", "unlink"} /\ ~migrated =>
         Images \subseteq Done(p) \cup proc[p].todo \cup {proc[p].item}
    /\ proc[p].pc \in {"sync", "commit"} /\ ~migrated => Images \subseteq Done(p)

IInv ==
  /\ Stored /\ proc \in [Procs -> Proc]
  /\ ImagesExist /\ Alone /\ Rested
  /\ \A p \in Procs : Own(p) /\ Progress(p)

-----------------------------------------------------------------------------
(* Sequences.                                                              *)

\* An image joins the renamed ones.
LEMMA Appended ==
  ASSUME NEW s \in Seq(Images), Distinct(s), NEW i \in Images, i \notin Elements(s)
  PROVE  /\ Append(s, i) \in Seq(Images) /\ Distinct(Append(s, i))
         /\ Elements(Append(s, i)) = Elements(s) \cup {i}
<1> DEFINE t == Append(s, i)
<1>1. /\ t \in Seq(Images) /\ Len(t) = Len(s) + 1 /\ t[Len(s) + 1] = i
      /\ \A k \in 1..Len(s) : t[k] = s[k]
  OBVIOUS
<1>2. Len(s) \in Nat
  OBVIOUS
<1> HIDE DEF t
<1>3. Distinct(t)
  BY <1>1, <1>2 DEF Distinct, Elements
<1>4. Elements(t) = Elements(s) \cup {i}
  BY <1>1, <1>2 DEF Elements
<1> QED BY <1>1, <1>3, <1>4 DEF t

\* The last one leaves them.
LEMMA Shortened ==
  ASSUME NEW s \in Seq(Images), Distinct(s), s # <<>>
  PROVE  /\ Front(s) \in Seq(Images) /\ Distinct(Front(s))
         /\ Last(s) \in Elements(s) /\ Elements(Front(s)) = Elements(s) \ {Last(s)}
<1> DEFINE t == Front(s)
<1>1. Len(s) \in Nat \ {0}
  BY EmptySeq, LenProperties
<1>2. /\ t \in Seq(Images) /\ Len(t) = Len(s) - 1
      /\ \A k \in 1..(Len(s) - 1) : t[k] = s[k]
  <2> DEFINE n == Len(s) - 1
  <2>1. n \in Nat /\ 1 \in Int /\ n \in Int /\ \A k \in 1..n : s[k] \in Images
    BY <1>1, ElementOfSeq
  <2>2. t = SubSeq(s, 1, n)
    BY DEF Front
  <2> HIDE DEF n, t
  <2>3. /\ SubSeq(s, 1, n) \in Seq(Images)
        /\ Len(SubSeq(s, 1, n)) = IF 1 <= n THEN n - 1 + 1 ELSE 0
        /\ \A k \in 1..(n - 1 + 1) : SubSeq(s, 1, n)[k] = s[1 + k - 1]
    BY <2>1, SubSeqProperties
  <2>4. Len(SubSeq(s, 1, n)) = n /\ \A k \in 1..n : SubSeq(s, 1, n)[k] = s[k]
    BY <2>1, <2>3
  <2> QED BY <2>2, <2>3, <2>4 DEF n
<1> HIDE DEF t
<1>3. Distinct(t)
  BY <1>1, <1>2 DEF Distinct
<1>4. Last(s) \in Elements(s)
  BY <1>1 DEF Last, Elements
<1>5. Elements(t) = Elements(s) \ {Last(s)}
  BY <1>1, <1>2 DEF Elements, Last, Distinct
<1> QED BY <1>2, <1>3, <1>4, <1>5 DEF t

\* Nothing is renamed at the start of a migration, and after its rollback.
LEMMA NoneDone ==
  /\ Distinct(<<>>) /\ Elements(<<>>) = {}
  /\ \A s \in Seq(Images) : Elements(s) = {} => s = <<>>
<1>1. ASSUME NEW s \in Seq(Images), s # <<>> PROVE s[1] \in Elements(s)
  BY <1>1, EmptySeq, LenProperties DEF Elements
<1> QED BY <1>1 DEF Distinct, Elements

-----------------------------------------------------------------------------
(* The steps of a migration.                                               *)

LEMMA IdleType == Idle \in Proc
  BY DEF Idle, Proc, PC

\* Counting a fault keeps the count within its bound.
LEMMA CountType ==
  ASSUME Stored, CountFault
  PROVE  used' \in [runs : 0..MaxRuns, faults : 0..MaxFaults]
  BY MigrationAssumption DEF Stored, CountFault

\* The others are idle when one runs.
LEMMA OthersIdle ==
  ASSUME IInv, NEW p \in Procs, proc[p].pc # "idle"
  PROVE  \A q \in Procs \ {p} : proc[q].pc = "idle"
  BY DEF IInv, Alone

\* An idle process is in order, whatever the names are.
LEMMA IdleOwn ==
  ASSUME NEW p \in Procs, proc[p] = Idle
  PROVE  Own(p) /\ Progress(p)
  BY NoneDone DEF Own, Progress, Done, Idle, Working, Renaming, Undoing

\* What is proved about the process that moves, and about the names, is enough.
LEMMA OneMoves ==
  ASSUME IInv, NEW p \in Procs, \A q \in Procs \ {p} : proc[q].pc = "idle",
         NEW x \in Proc, proc' = [proc EXCEPT ![p] = x],
         Stored', ImagesExist', x.pc = "idle" => Rested',
         proc'[p] = x => Own(p)' /\ Progress(p)'
  PROVE  IInv'
<1>1. /\ proc' \in [Procs -> Proc] /\ proc'[p] = x
      /\ \A q \in Procs \ {p} : proc'[q] = proc[q]
  BY DEF IInv
<1>2. ASSUME NEW q \in Procs PROVE Own(q)' /\ Progress(q)'
  <2>1. CASE q = p
    BY <2>1, <1>1
  <2>2. CASE q # p
    <3>1. proc[q] = Idle
      BY <2>2 DEF IInv, Own
    <3>2. proc'[q] = Idle
      BY <2>2, <1>1, <3>1
    <3> QED BY <3>2, NoneDone DEF Own, Progress, Done, Idle, Working, Renaming, Undoing
  <2> QED BY <2>1, <2>2
<1>3. Alone'
  BY <1>1 DEF Alone
<1>4. Rested'
  BY <1>1 DEF Rested
<1> QED BY <1>1, <1>2, <1>3, <1>4 DEF IInv

\* A migration goes to another place and leaves names, rows and lock alone.
LEMMA Moves ==
  ASSUME IInv, NEW p \in Procs, proc[p].pc # "idle",
         NEW c \in PC \ {"idle", "plan", "link", "unlink", "undounlink"},
         Goto(p, c), UNCHANGED <<old, new, migrated, lock>>,
         used' \in [runs : 0..MaxRuns, faults : 0..MaxFaults],
         broken' \in BOOLEAN,
         ~broken' =>
           /\ ~broken
           /\ c \notin Working => Settled
           /\ c \in Working /\ migrated =>
                Settled /\ proc[p].done = <<>> /\ proc[p].todo = {}
           /\ c \in Working /\ ~migrated => Accounted(p)
           /\ c \in {"sync", "commit"} /\ ~migrated => Images \subseteq Done(p)
  PROVE  IInv'
<1> DEFINE x == [proc[p] EXCEPT !.pc = c]
<1>1. x \in Proc /\ proc' = [proc EXCEPT ![p] = x]
  BY DEF IInv, Proc, Goto
<1>2. /\ x.pc = c /\ x.done = proc[p].done /\ x.todo = proc[p].todo
      /\ x.item = proc[p].item
  BY DEF IInv, Proc
<1> HIDE DEF x
<1>3. Stored' /\ ImagesExist'
  BY DEF IInv, Stored, ImagesExist
<1>4. proc'[p] = x => Own(p)'
  BY <1>2 DEF IInv, Own, Done
<1>5. proc'[p] = x => Progress(p)'
  BY <1>2 DEF Progress, Done, Settled, Accounted
<1> QED BY <1>1, <1>2, <1>3, <1>4, <1>5, OneMoves, OthersIdle

-----------------------------------------------------------------------------
(* The invariant.                                                          *)

\* It holds at the start.
LEMMA IInvInit == Init => IInv
<1> SUFFICES ASSUME Init PROVE IInv
  OBVIOUS
<1>1. Stored /\ proc \in [Procs -> Proc]
  <2>1. used \in [runs : 0..MaxRuns, faults : 0..MaxFaults]
    BY MigrationAssumption DEF Init
  <2> QED BY <2>1, IdleType DEF Init, Stored
<1>2. ImagesExist /\ Alone /\ Rested
  BY DEF Init, ImagesExist, Alone, Rested, Settled, Idle
<1>3. ASSUME NEW p \in Procs PROVE Own(p) /\ Progress(p)
  BY IdleOwn DEF Init
<1> QED BY <1>1, <1>2, <1>3 DEF IInv

\* Every action keeps it.
LEMMA IInvStep == IInv /\ [Next]_vars => IInv'
<1> SUFFICES ASSUME IInv, [Next]_vars PROVE IInv'
  OBVIOUS
<1>1. ASSUME NEW p \in Procs, TakeLock(p) PROVE IInv'
  <2>1. CASE lock
    <3>1. /\ UNCHANGED <<old, new, migrated, lock, proc, broken>>
          /\ used' \in [runs : 0..MaxRuns, faults : 0..MaxFaults]
      BY <1>1, <2>1, MigrationAssumption DEF TakeLock, Names, IInv, Stored
    <3> QED BY <3>1 DEF IInv, Stored, ImagesExist, Alone, Rested, Settled, Own, Done,
                        Progress, Accounted
  <2>2. CASE ~lock
    <3> DEFINE x == [proc[p] EXCEPT !.pc = "plan"]
    <3>1. /\ proc' = [proc EXCEPT ![p] = x] /\ lock'
          /\ UNCHANGED <<old, new, migrated, broken>>
          /\ used' \in [runs : 0..MaxRuns, faults : 0..MaxFaults]
      BY <1>1, <2>2, MigrationAssumption DEF TakeLock, Goto, Names, IInv, Stored
    <3>2. \A q \in Procs : proc[q].pc = "idle"
      BY <2>2 DEF IInv, Own
    <3>3. x \in Proc /\ x.pc = "plan" /\ x.done = <<>> /\ x.todo = {}
          /\ x.item = Nothing
      BY <3>2, IdleType DEF IInv, Own, Idle, Proc, PC
    <3> HIDE DEF x
    <3>4. Stored' /\ ImagesExist'
      BY <3>1, <1>1 DEF TakeLock, Goto, IInv, Stored, ImagesExist
    <3>5. proc'[p] = x => Own(p)' /\ Progress(p)'
      BY <2>2, <3>1, <3>2, <3>3, NoneDone
         DEF IInv, Rested, Own, Progress, Done, Settled, Working, Renaming, Undoing
    <3> QED BY <3>1, <3>2, <3>3, <3>4, <3>5, OneMoves
  <2> QED BY <2>1, <2>2
<1>2. ASSUME NEW p \in Procs, End(p) PROVE IInv'
  <2>1. /\ proc[p].pc = "end" /\ proc' = [proc EXCEPT ![p] = Idle] /\ ~lock'
        /\ UNCHANGED <<old, new, migrated, broken, used>>
    BY <1>2 DEF End, Names
  <2>2. Stored' /\ ImagesExist'
    BY <1>2, <2>1 DEF End, IInv, Stored, ImagesExist
  <2>3. Rested'
    BY <2>1 DEF IInv, Progress, Working, Renaming, Undoing, PC, Rested, Settled
  <2>4. proc'[p] = Idle => Own(p)' /\ Progress(p)'
    BY NoneDone DEF Own, Progress, Done, Idle, Working, Renaming, Undoing
  <2> QED BY <2>1, <2>2, <2>3, <2>4, IdleType, OneMoves, OthersIdle
<1>3. ASSUME NEW p \in Procs, Plan(p) PROVE IInv'
  <2>1. /\ proc[p].pc = "plan"
        /\ UNCHANGED <<old, new, migrated, lock, broken, used>>
    BY <1>3 DEF Plan, Names
  <2>2. ~broken => Settled
    BY <2>1 DEF IInv, Progress, Working, Renaming, Undoing, PC
  <2>3. CASE Goto(p, "end")
    BY <2>1, <2>2, <2>3, Moves DEF IInv, Stored, PC, Working, Renaming, Undoing
  <2>4. CASE ~Goto(p, "end")
    <3> DEFINE x == [proc[p] EXCEPT !.pc = "link",
                                    !.todo = IF migrated THEN {} ELSE Images]
    <3>1. /\ proc' = [proc EXCEPT ![p] = x]
          /\ \A i \in Images : migrated \/ Renamable(i)
      BY <1>3, <2>4 DEF Plan
    <3>2. /\ x \in Proc /\ x.pc = "link"
          /\ x.todo = IF migrated THEN {} ELSE Images
          /\ x.done = proc[p].done /\ x.item = proc[p].item
      BY DEF IInv, Proc, PC, Renaming
    <3> HIDE DEF x
    <3>3. proc[p].done = <<>> /\ proc[p].item = Nothing /\ lock
      BY <2>1 DEF IInv, Own
    <3>4. Stored' /\ ImagesExist'
      BY <2>1 DEF IInv, Stored, ImagesExist
    <3>5. proc'[p] = x => Own(p)'
      BY <2>1, <3>1, <3>2, <3>3, NoneDone DEF Own, Done, Renamable
    <3>6. proc'[p] = x => Progress(p)'
      BY <2>1, <2>2, <3>1, <3>2, <3>3, NoneDone, MigrationAssumption
         DEF Progress, Done, Renamable, Accounted, Settled, Working, Renaming, Undoing,
             PC
    <3> QED BY <2>1, <3>1, <3>2, <3>4, <3>5, <3>6, OneMoves, OthersIdle
  <2> QED BY <2>3, <2>4
<1>4. ASSUME NEW p \in Procs, Link(p) PROVE IInv'
  <2>1. /\ proc[p].pc = "link" /\ proc[p].item = Nothing
        /\ UNCHANGED <<old, migrated, lock, broken, used>>
    BY <1>4 DEF Link, IInv, Own
  <2>2. PICK i \in proc[p].todo :
          \/ Linked(i) /\ Taken(p, i)
          \/ new[i] # Nothing /\ Goto(p, "undo") /\ UNCHANGED new
    BY <1>4 DEF Link
  <2>3. CASE Linked(i) /\ Taken(p, i)
    <3> DEFINE x == proc'[p]
    <3>1. i \in Images /\ old[i] = i /\ i \notin Done(p)
      BY <2>1 DEF IInv, Own, Proc
    <3>2. /\ x \in Proc /\ x.pc = "unlink" /\ x.item = i
          /\ x.todo = proc[p].todo \ {i} /\ x.done = proc[p].done
      BY <2>3, <3>1 DEF Taken, IInv, Proc, PC, Renaming
    <3>3. proc' = [proc EXCEPT ![p] = x]
      BY <2>3 DEF Taken, IInv
    <3> HIDE DEF x
    <3>4. /\ new[i] = Nothing /\ new' = [new EXCEPT ![i] = i]
          /\ new' \in [Images -> Images \cup {Nothing, Foreign}] /\ new'[i] = i
          /\ \A j \in Images \ {i} : new'[j] = new[j]
      BY <2>3, <3>1 DEF Linked, IInv, Stored
    <3>5. Stored' /\ ImagesExist'
      BY <2>1, <3>4 DEF IInv, Stored, ImagesExist
    <3>6. Own(p) /\ Progress(p)
      BY DEF IInv
    <3>7. Done(p) \subseteq Images /\ proc[p].todo \subseteq Images
      BY DEF IInv, Done, Elements, Proc
    <3>8. proc'[p] = x => Own(p)'
      BY <2>1, <3>1, <3>2, <3>4, <3>6, <3>7 DEF Own, Done
    <3>9. proc'[p] = x => Progress(p)'
      BY <2>1, <3>1, <3>2, <3>4, <3>6, <3>7, MigrationAssumption
         DEF Progress, Done, Accounted, Settled, Working, Renaming, Undoing, PC
    <3> QED BY <2>1, <3>2, <3>3, <3>5, <3>8, <3>9, OneMoves, OthersIdle
  <2>4. CASE Goto(p, "undo") /\ UNCHANGED new
    BY <2>1, <2>4, Moves
       DEF IInv, Stored, Progress, Working, Renaming, Undoing, PC
  <2> QED BY <2>2, <2>3, <2>4
<1>5. ASSUME NEW p \in Procs, Unlink(p) PROVE IInv'
  <2> DEFINE i == proc[p].item
             x == proc'[p]
  <2>1. /\ proc[p].pc = "unlink" /\ proc' = [proc EXCEPT ![p] = x]
        /\ old' = [old EXCEPT ![i] = Nothing]
        /\ UNCHANGED <<new, migrated, lock, broken, used>>
    BY <1>5 DEF Unlink, IInv
  <2>2. /\ i \in Images /\ i \notin Done(p) \cup proc[p].todo
        /\ old[i] = i /\ new[i] = i
        /\ Own(p) /\ Progress(p) /\ proc[p] \in Proc
    BY <2>1 DEF IInv, Own
  <2>3. /\ Append(proc[p].done, i) \in Seq(Images) /\ Distinct(Append(proc[p].done, i))
        /\ Elements(Append(proc[p].done, i)) = Done(p) \cup {i}
    BY <2>2, Appended DEF Own, Done, Proc
  <2>4. /\ x \in Proc /\ x.pc = "link" /\ x.item = Nothing
        /\ x.todo = proc[p].todo /\ x.done = Append(proc[p].done, i)
    BY <1>5, <2>2, <2>3 DEF Unlink, IInv, Proc, PC, Renaming
  <2>5. /\ old' \in [Images -> Images \cup {Nothing, Foreign}] /\ old'[i] = Nothing
        /\ \A j \in Images \ {i} : old'[j] = old[j]
    BY <2>1, <2>2 DEF IInv, Stored
  <2>6. Done(p) \subseteq Images /\ proc[p].todo \subseteq Images
    BY <2>2 DEF Done, Elements, Proc
  <2>7. Stored' /\ ImagesExist'
    BY <2>1, <2>2, <2>5 DEF IInv, Stored, ImagesExist
  <2> HIDE DEF x, i
  <2>8. ASSUME proc'[p] = x PROVE Own(p)'
    <3>1. Done(p)' = Done(p) \cup {i}
      BY <2>3, <2>4, <2>8 DEF Done
    <3>2. \A j \in Done(p) : new[j] = j
      BY <2>2 DEF Own
    <3>3. \A j \in proc[p].todo : old'[j] = j
      BY <2>1, <2>2, <2>5, <2>6 DEF Own
    <3> QED BY <2>1, <2>2, <2>3, <2>4, <2>8, <3>1, <3>2, <3>3 DEF Own
  <2>9. proc'[p] = x => Progress(p)'
    BY <2>1, <2>2, <2>3, <2>4, <2>5, <2>6
       DEF Progress, Done, Accounted, Settled, Working, Renaming, Undoing, PC, i
  <2> QED BY <2>1, <2>4, <2>7, <2>8, <2>9, OneMoves, OthersIdle
<1>6. ASSUME NEW p \in Procs, AllRenamed(p) PROVE IInv'
  <2>1. ~broken /\ ~migrated => Images \subseteq Done(p)
    BY <1>6, MigrationAssumption DEF AllRenamed, IInv, Own, Progress
  <2> QED
    BY <1>6, <2>1, Moves
       DEF AllRenamed, Names, IInv, Stored, Progress, Working, Renaming, Undoing, PC
<1>7. ASSUME NEW p \in Procs, SyncParents(p) PROVE IInv'
  BY <1>7, Moves
     DEF SyncParents, Names, IInv, Stored, Progress, Working, Renaming, Undoing, PC
<1>8. ASSUME NEW p \in Procs, Commit(p) PROVE IInv'
  <2> DEFINE x == [proc[p] EXCEPT !.pc = "committed"]
  <2>1. /\ proc[p].pc = "commit" /\ proc' = [proc EXCEPT ![p] = x] /\ migrated'
        /\ UNCHANGED <<old, new, lock, broken, used>>
    BY <1>8 DEF Commit, Goto, Names
  <2>2. /\ x \in Proc /\ x.pc = "committed" /\ x.done = proc[p].done
        /\ x.todo = proc[p].todo
    BY DEF IInv, Proc, PC
  <2> HIDE DEF x
  <2>3. Stored' /\ ImagesExist'
    BY <1>8, <2>1 DEF Commit, IInv, Stored, ImagesExist
  <2>4. proc'[p] = x => Own(p)'
    BY <2>1, <2>2 DEF IInv, Own, Done
  <2>5. ~broken => \A i \in Images : new[i] = i
    BY <2>1 DEF IInv, Own, Progress, Settled, Working
  <2>6. proc'[p] = x => Progress(p)'
    BY <2>1, <2>2, <2>5 DEF Progress, Settled, Working, Renaming, Undoing
  <2> QED BY <2>1, <2>2, <2>3, <2>4, <2>6, OneMoves, OthersIdle
<1>9. ASSUME NEW p \in Procs, SetCommitted(p) PROVE IInv'
  BY <1>9, Moves
     DEF SetCommitted, Proceed, Names, IInv, Stored, Progress, Working, Renaming,
         Undoing, PC
<1>10. ASSUME NEW p \in Procs, Export(p) PROVE IInv'
  BY <1>10, Moves
     DEF Export, Proceed, Names, IInv, Stored, Progress, Working, Renaming,
         Undoing, PC
<1>11. ASSUME NEW p \in Procs, VerifyCompleted(p) PROVE IInv'
  BY <1>11, Moves
     DEF VerifyCompleted, Proceed, Names, IInv, Stored, Progress, Working, Renaming,
         Undoing, PC
<1>12. ASSUME NEW p \in Procs, Undone(p) PROVE IInv'
  <2>1. ~broken => Settled
    BY <1>12, NoneDone
       DEF Undone, IInv, Progress, Settled, Accounted, Done, Working, Undoing
  <2> QED
    BY <1>12, <2>1, Moves DEF Undone, Names, IInv, Stored, Working, Renaming, Undoing, PC
<1>13. ASSUME NEW p \in Procs, Undo(p) PROVE IInv'
  <2> DEFINE i == Last(proc[p].done)
             x == [proc[p] EXCEPT !.pc = "undounlink"]
  <2>1. /\ proc[p].pc = "undo" /\ proc[p].done # <<>> /\ proc' = [proc EXCEPT ![p] = x]
        /\ old' = [old EXCEPT ![i] = new[i]]
        /\ UNCHANGED <<new, migrated, lock, broken, used>>
    BY <1>13 DEF Undo, Goto
  <2>2. Own(p) /\ Progress(p) /\ proc[p] \in Proc
    BY DEF IInv
  <2>3. i \in Done(p) /\ Done(p) \subseteq Images /\ new[i] = i
    BY <2>1, <2>2, Shortened DEF Own, Done, Elements, Proc
  <2>4. /\ x \in Proc /\ x.pc = "undounlink" /\ x.done = proc[p].done
        /\ x.todo = proc[p].todo /\ x.item = proc[p].item
    BY <2>2 DEF Proc, PC, Undoing
  <2>5. /\ old' \in [Images -> Images \cup {Nothing, Foreign}] /\ old'[i] = i
        /\ \A j \in Images \ {i} : old'[j] = old[j]
    BY <2>1, <2>3 DEF IInv, Stored
  <2>6. Stored' /\ ImagesExist'
    BY <2>1, <2>3, <2>5 DEF IInv, Stored, ImagesExist
  <2>7. x.done # <<>> /\ Last(x.done) = i
    BY <2>1, <2>4
  <2> HIDE DEF x, i
  <2>8. proc'[p] = x => Own(p)'
    BY <2>1, <2>2, <2>3, <2>4, <2>5, <2>7 DEF Own, Done
  <2>9. proc'[p] = x => Progress(p)'
    BY <2>1, <2>2, <2>3, <2>4, <2>5
       DEF Progress, Done, Accounted, Settled, Working, Renaming, Undoing, PC
  <2> QED BY <2>1, <2>4, <2>6, <2>8, <2>9, OneMoves, OthersIdle
<1>14. ASSUME NEW p \in Procs, UndoUnlink(p) PROVE IInv'
  <2> DEFINE i == Last(proc[p].done)
             x == proc'[p]
  <2>1. /\ proc[p].pc = "undounlink" /\ proc' = [proc EXCEPT ![p] = x]
        /\ new' = [new EXCEPT ![i] = Nothing]
        /\ UNCHANGED <<old, migrated, lock, broken, used>>
    BY <1>14 DEF UndoUnlink, IInv
  <2>2. Own(p) /\ Progress(p) /\ proc[p] \in Proc
    BY DEF IInv
  <2>3. /\ i \in Done(p) /\ Done(p) \subseteq Images /\ old[i] = i
        /\ Front(proc[p].done) \in Seq(Images) /\ Distinct(Front(proc[p].done))
        /\ Elements(Front(proc[p].done)) = Done(p) \ {i}
    <3>1. /\ proc[p].done # <<>> /\ old[i] = i /\ Distinct(proc[p].done)
          /\ proc[p].done \in Seq(Images)
      BY <2>1, <2>2 DEF Own, Proc
    <3>2. Done(p) \subseteq Images
      BY <3>1 DEF Done, Elements
    <3> QED BY <3>1, <3>2, Shortened DEF Done
  <2>4. /\ x \in Proc /\ x.pc = "undo" /\ x.done = Front(proc[p].done)
        /\ x.todo = proc[p].todo /\ x.item = proc[p].item
    BY <1>14, <2>2, <2>3 DEF UndoUnlink, IInv, Proc, PC, Undoing
  <2>5. /\ new' \in [Images -> Images \cup {Nothing, Foreign}] /\ new'[i] = Nothing
        /\ \A j \in Images \ {i} : new'[j] = new[j]
    BY <2>1, <2>3 DEF IInv, Stored
  <2>6. Stored' /\ ImagesExist'
    BY <2>1, <2>3, <2>5 DEF IInv, Stored, ImagesExist
  <2> HIDE DEF x, i
  <2>7. proc'[p] = x => Own(p)'
    BY <2>1, <2>2, <2>3, <2>4, <2>5 DEF Own, Done
  <2>8. proc'[p] = x => Progress(p)'
    BY <2>1, <2>2, <2>3, <2>4, <2>5, MigrationAssumption
       DEF Progress, Done, Accounted, Settled, Working, Renaming, Undoing, PC
  <2> QED BY <2>1, <2>4, <2>6, <2>7, <2>8, OneMoves, OthersIdle
<1>15. ASSUME NEW p \in Procs, UndoConflicts(p) PROVE IInv'
  BY <1>15, Moves
     DEF UndoConflicts, Names, IInv, Stored, PC, Working, Renaming, Undoing
<1>16. ASSUME NEW p \in Procs, Fails(p) PROVE IInv'
  <2> DEFINE c == AfterFailure(proc[p].pc)
  <2>1. /\ proc[p].pc \in PC \ {"idle", "plan", "committed", "end"} /\ Goto(p, c)
        /\ broken' = (broken \/ proc[p].pc \in Undoing)
        /\ UNCHANGED <<old, new, migrated, lock>> /\ CountFault
    BY <1>16 DEF Fails, Names
  <2>2. c = IF proc[p].pc \in Renaming \cup {"commit"} THEN "undo" ELSE "end"
    BY DEF AfterFailure
  <2> HIDE DEF c
  <2>3. /\ used' \in [runs : 0..MaxRuns, faults : 0..MaxFaults]
        /\ broken' \in BOOLEAN /\ Progress(p)
    BY <2>1, CountType DEF IInv, Stored
  <2> QED
    BY <2>1, <2>2, <2>3, Moves DEF Progress, Working, Renaming, Undoing, PC
<1>17. ASSUME NEW p \in Procs, Interrupted(p) PROVE IInv'
  <2>1. /\ proc[p].pc # "idle" /\ CountFault /\ broken'
        /\ UNCHANGED <<old, new, migrated, lock>>
        /\ Goto(p, "undo") \/ Goto(p, "end")
    BY <1>17 DEF Interrupted, Names
  <2>2. used' \in [runs : 0..MaxRuns, faults : 0..MaxFaults] /\ broken' \in BOOLEAN
    BY <1>17, <2>1, CountType DEF Interrupted, IInv
  <2> QED BY <2>1, <2>2, Moves DEF PC, Undoing
<1>18. ASSUME NEW p \in Procs, Killed(p) PROVE IInv'
  <2>1. /\ proc[p].pc # "idle" /\ proc' = [proc EXCEPT ![p] = Idle] /\ CountFault
        /\ UNCHANGED <<old, new, migrated, lock, broken>>
    BY <1>18 DEF Killed, Names
  <2>2. Stored' /\ ImagesExist'
    BY <2>1, CountType DEF IInv, Stored, ImagesExist
  <2>3. Rested'
    BY <2>1 DEF IInv, Own, Rested
  <2>4. proc'[p] = Idle => Own(p)' /\ Progress(p)'
    BY NoneDone DEF Own, Progress, Done, Idle, Working, Renaming, Undoing
  <2> QED BY <2>1, <2>2, <2>3, <2>4, IdleType, OneMoves, OthersIdle
<1>19. ASSUME NEW i \in Images, Intrude(i) PROVE IInv'
  <2>1. /\ UNCHANGED <<migrated, lock, proc, broken>> /\ CountFault
        /\ \A j \in Images : /\ old'[j] = old[j] \/ (old[j] = Nothing /\ old'[j] = Foreign)
                             /\ new'[j] = new[j] \/ (new[j] = Nothing /\ new'[j] = Foreign)
    BY <1>19 DEF Intrude, IInv, Stored
  <2>2. Stored'
    BY <1>19, <2>1, CountType DEF Intrude, IInv, Stored
  <2>3. \A j \in Images : (old'[j] = j <=> old[j] = j) /\ (new'[j] = j <=> new[j] = j)
    BY <2>1, MigrationAssumption
  <2>4. ImagesExist'
    BY <2>3 DEF IInv, ImagesExist
  <2>5. Settled' <=> Settled
    BY <2>1, <2>3 DEF Settled
  <2>6. Rested' /\ Alone'
    BY <2>1, <2>5 DEF IInv, Rested, Alone
  <2>7. ASSUME NEW p \in Procs PROVE Own(p)' /\ Progress(p)'
    <3>1. Own(p) /\ Progress(p) /\ proc[p] \in Proc
      BY DEF IInv
    <3>2. Done(p)' = Done(p) /\ Done(p) \subseteq Images /\ proc[p].todo \subseteq Images
      BY <2>1, <3>1 DEF Done, Elements, Proc
    <3>3. proc[p].pc = "undounlink" => Last(proc[p].done) \in Images
      BY <3>1, <3>2, Shortened DEF Own, Proc, Done
    <3>4. Own(p)'
      BY <2>1, <2>3, <3>1, <3>2, <3>3 DEF Own
    <3>5. Accounted(p)' <=> Accounted(p)
      BY <2>1, <2>3, <3>2 DEF Accounted
    <3>6. Progress(p)'
      BY <2>1, <2>5, <3>1, <3>2, <3>5 DEF Progress
    <3> QED BY <3>4, <3>6
  <2> QED BY <2>1, <2>2, <2>4, <2>6, <2>7 DEF IInv
<1>20. CASE Repair
  <2>1. /\ \A p \in Procs : proc[p].pc = "idle"
        /\ old' = [i \in Images |-> IF migrated THEN Nothing ELSE i]
        /\ new' = [i \in Images |-> IF migrated THEN i ELSE Nothing]
        /\ ~lock' /\ ~broken' /\ UNCHANGED <<migrated, proc, used>>
    BY <1>20 DEF Repair
  <2>2. Stored'
    <3>1. migrated \in BOOLEAN /\ used \in [runs : 0..MaxRuns, faults : 0..MaxFaults]
      BY DEF IInv, Stored
    <3>2. /\ old' \in [Images -> Images \cup {Nothing, Foreign}]
          /\ new' \in [Images -> Images \cup {Nothing, Foreign}]
      BY <2>1
    <3>3. {migrated, lock, broken}' \subseteq BOOLEAN
      BY <1>20, <3>1 DEF Repair
    <3> QED BY <2>1, <3>1, <3>2, <3>3 DEF Stored
  <2>3. ImagesExist' /\ Rested' /\ Alone'
    BY <2>1 DEF IInv, Stored, ImagesExist, Rested, Settled, Alone
  <2>4. ASSUME NEW p \in Procs PROVE Own(p)' /\ Progress(p)'
    <3>1. proc'[p] = Idle
      BY <2>1 DEF IInv, Own
    <3> QED BY <3>1, NoneDone DEF Own, Progress, Done, Idle, Working, Renaming, Undoing
  <2> QED BY <2>1, <2>2, <2>3, <2>4 DEF IInv
<1>21. CASE UNCHANGED vars
  BY <1>21 DEF vars, IInv, Stored, ImagesExist, Alone, Rested, Settled, Own, Done,
               Progress, Accounted
<1> QED
  BY <1>1, <1>2, <1>3, <1>4, <1>5, <1>6, <1>7, <1>8, <1>9, <1>10, <1>11,
     <1>12, <1>13, <1>14, <1>15, <1>16, <1>17, <1>18, <1>19, <1>20, <1>21
     DEF Next, Rename, Finish, RollBack

-----------------------------------------------------------------------------
(* The theorems.                                                           *)

\* The invariant holds in every reachable state.
LEMMA Invariance == Spec => []IInv
  BY IInvInit, IInvStep, PTL DEF Spec

\* ImagesExist holds for any number of images, migrations and faults.
THEOREM NoImageLost == Spec => []ImagesExist
<1>1. IInv => ImagesExist
  BY DEF IInv
<1> QED BY <1>1, Invariance, PTL

\* RowsNameImages holds, and with it type correctness and that only one migration
\* runs at a time.
THEOREM RowsAgree == Spec => []RowsNameImages
<1>1. IInv => RowsNameImages
  BY DEF IInv, Stored, Own, Alone, Rested, Settled, RowsNameImages, TypeOK
<1> QED BY <1>1, Invariance, PTL

\* A rollback that ends without being broken off has nothing left to undo.
LEMMA RollbackEnds ==
  ASSUME IInv, Next, NEW p \in Procs,
         proc[p].pc = "undo", proc'[p].pc = "end", ~broken'
  PROVE  Undone(p)
<1>1. \A q \in Procs : proc[q].pc # "idle" => q = p
  BY DEF IInv, Alone
<1>2. proc' # proc /\ lock
  BY DEF IInv, Own
<1>3. PICK q \in Procs :
        \/ TakeLock(q) \/ Plan(q) \/ Rename(q) \/ Finish(q) \/ RollBack(q)
        \/ Fails(q) \/ Interrupted(q) \/ Killed(q)
  BY <1>2 DEF Next, Intrude, Repair
<1>4. CASE TakeLock(q)
  BY <1>2, <1>4 DEF TakeLock
<1>5. CASE q = p
  <2>1. ~ (TakeLock(p) \/ Plan(p) \/ Rename(p) \/ Finish(p))
    BY DEF TakeLock, Plan, Rename, Link, Unlink, AllRenamed, SyncParents, Finish, Commit,
           SetCommitted, Export, VerifyCompleted, Proceed, End
  <2>2. ~UndoUnlink(p) /\ ~Undo(p)
    BY DEF IInv, UndoUnlink, Undo, Goto, Proc
  <2>3. ~UndoConflicts(p) /\ ~Interrupted(p) /\ ~Fails(p)
    BY DEF UndoConflicts, Interrupted, Fails, Undoing
  <2>4. ~Killed(p)
    BY DEF IInv, Killed, Idle
  <2> QED BY <1>3, <1>5, <2>1, <2>2, <2>3, <2>4 DEF RollBack
<1>6. CASE ~TakeLock(q)
  <2>1. proc[q].pc # "idle"
    BY <1>3, <1>6
       DEF Plan, Rename, Link, Unlink, AllRenamed, SyncParents, Finish, Commit,
           SetCommitted, Export, VerifyCompleted, Proceed, End, RollBack, Undone, Undo,
           UndoUnlink, UndoConflicts, Fails, Interrupted, Killed
  <2> QED BY <1>1, <1>5, <2>1
<1> QED BY <1>4, <1>6

\* RollbackRestores holds.
THEOREM RollbacksRestore == Spec => RollbackRestores
<1> DEFINE A == \A p \in Procs :
                  proc[p].pc = "undo" /\ proc'[p].pc = "end" /\ ~broken' /\ ~migrated =>
                    \A i \in Images :
                      old'[i] = i /\ (new'[i] = i => i = proc[p].item)
<1>1. ASSUME IInv, [Next]_vars PROVE A
  <2> SUFFICES ASSUME NEW p \in Procs, proc[p].pc = "undo", proc'[p].pc = "end",
                      ~broken', ~migrated, NEW i \in Images
               PROVE  old'[i] = i /\ (new'[i] = i => i = proc[p].item)
    OBVIOUS
  <2>1. Next
    BY <1>1 DEF vars
  <2>2. Undone(p)
    BY <1>1, <2>1, RollbackEnds
  <2>3. Accounted(p) /\ Done(p) = {}
    BY <1>1, <2>2, NoneDone DEF Undone, IInv, Progress, Done, Working, Undoing
  <2> QED BY <2>2, <2>3 DEF Undone, Names, Accounted
<1>2. ASSUME IInv, [Next]_vars PROVE [A]_vars
  BY <1>1, <1>2
<1> QED BY <1>2, Invariance, PTL DEF Spec, RollbackRestores

\* Names change only where a migration has one of its own images, or nothing.
LEMMA OwnNamesChange ==
  ASSUME IInv, Next, NEW p \in Procs, proc[p].pc # "idle", NEW i \in Images
  PROVE  (old[i] = Foreign => old'[i] = Foreign) /\ (new[i] = Foreign => new'[i] = Foreign)
<1>1. CASE UNCHANGED <<old, new>>
  BY <1>1
<1>2. ASSUME NEW q \in Procs, Link(q) PROVE new[i] = Foreign => new'[i] = Foreign
  BY <1>2, MigrationAssumption DEF Link, Linked, IInv, Stored
<1>3. ASSUME NEW q \in Procs, Unlink(q) PROVE old[i] = Foreign => old'[i] = Foreign
  BY <1>3, MigrationAssumption DEF Unlink, IInv, Stored, Own
<1>4. ASSUME NEW q \in Procs, Undo(q) PROVE old[i] = Foreign => old'[i] = Foreign
  <2>1. Last(proc[q].done) \in Done(q) /\ Done(q) \subseteq Images
    BY <1>4, Shortened DEF Undo, IInv, Own, Done, Elements, Proc
  <2>2. new[Last(proc[q].done)] \in Images
    BY <2>1 DEF IInv, Own
  <2> QED BY <1>4, <2>1, <2>2, MigrationAssumption DEF Undo, IInv, Stored
<1>5. ASSUME NEW q \in Procs, UndoUnlink(q) PROVE new[i] = Foreign => new'[i] = Foreign
  <2>1. Last(proc[q].done) \in Done(q) /\ Done(q) \subseteq Images
    BY <1>5, Shortened DEF UndoUnlink, IInv, Own, Done, Elements, Proc
  <2>2. new[Last(proc[q].done)] \in Images
    BY <2>1 DEF IInv, Own
  <2> QED BY <1>5, <2>1, <2>2, MigrationAssumption DEF UndoUnlink, IInv, Stored
<1>6. ASSUME NEW j \in Images, Intrude(j)
      PROVE  (old[i] = Foreign => old'[i] = Foreign)
               /\ (new[i] = Foreign => new'[i] = Foreign)
  BY <1>6, MigrationAssumption DEF Intrude, IInv, Stored
<1>7. ~Repair
  BY DEF Repair
<1>8. ASSUME NEW q \in Procs,
             \/ TakeLock(q) \/ Plan(q) \/ AllRenamed(q) \/ SyncParents(q) \/ Finish(q)
             \/ Undone(q) \/ UndoConflicts(q) \/ Fails(q) \/ Interrupted(q) \/ Killed(q)
      PROVE  UNCHANGED <<old, new>>
  BY <1>8 DEF TakeLock, Plan, AllRenamed, SyncParents, Finish, Commit, SetCommitted,
              Export, VerifyCompleted, Proceed, End, Undone, UndoConflicts, Fails,
              Interrupted, Killed, Names
<1>9. ASSUME NEW q \in Procs, Link(q) \/ UndoUnlink(q) PROVE UNCHANGED old
  BY <1>9 DEF Link, UndoUnlink
<1>10. ASSUME NEW q \in Procs, Unlink(q) \/ Undo(q) PROVE UNCHANGED new
  BY <1>10 DEF Unlink, Undo
<1> QED
  BY <1>1, <1>2, <1>3, <1>4, <1>5, <1>6, <1>7, <1>8, <1>9, <1>10
     DEF Next, Rename, RollBack

\* ForeignFilesStay holds.
THEOREM ForeignFilesKept == Spec => ForeignFilesStay
<1> DEFINE A == (\E p \in Procs : proc[p].pc # "idle") =>
                  \A i \in Images :
                    /\ old[i] = Foreign => old'[i] = Foreign
                    /\ new[i] = Foreign => new'[i] = Foreign
<1>1. ASSUME IInv, [Next]_vars PROVE A
  BY <1>1, OwnNamesChange DEF vars
<1>2. ASSUME IInv, [Next]_vars PROVE [A]_vars
  BY <1>1, <1>2
<1> QED BY <1>2, Invariance, PTL DEF Spec, ForeignFilesStay
=============================================================================
