---------------------------- MODULE KeyLockProofs ----------------------------
(***************************************************************************)
(* Proofs about KeyLock for any number of programs, keys and kills: the    *)
(* lock keeps the programs of a host apart, each request carries the key   *)
(* the server gave last, and semaphores and counters keep their bounds.    *)
(***************************************************************************)
EXTENDS KeyLock, FiniteSetTheorems, WellFoundedInduction, TLAPS

(* The programs are records with the fields of New. *)
Record(V) == [pc : V, fd : V, ipc : V, shm : V, sem : V, key : V, undo : V, counted : V]
Shape == \E V : proc \in [Procs -> Record(V)]

(* A program that has not started has nothing. *)
NothingYet == \A q \in Procs : proc[q].pc = "new" => proc[q] = New

Alone == \A p, q \in Holders : p = q

(* With the lock on a file: a program past Open has the file open that the *)
(* name stands for.                                                        *)
HasFile == {"opened", "asking", "waiting", "answered", "bye"}
OnFile == \/ variant \in {"lockf", "shm"}
          \/ variant = "flock" /\ ~removed
FileOpen(q) == /\ proc[q].pc \in {"new", "done"} \cup HasFile
               /\ proc[q].pc \in HasFile => proc[q].fd = file /\ file # None
               /\ proc[q].pc = "opened" => variant = "shm"
FileInv == OnFile => Alone /\ \A q \in Procs : FileOpen(q)

(* With the semaphore: a program past Attach made its key of the inode     *)
(* that the name stands for; one past the first semget() has its           *)
(* semaphores, the only ones; the lock is free when nobody has it, and     *)
(* taken back from who does; whoever sets the first value is               *)
(* alone with it.                                                          *)
HasSem == {"setval", "setkey", "count", "asking", "waiting", "answered", "bye", "rmsem"}
Attached == {"attached", "create"} \cup HasSem
OnSem == variant = "sem" /\ ~removed /\ ~raced
SemOpen(q) ==
    /\ proc[q].pc \in {"new", "opened", "done"} \cup Attached
    /\ proc[q].pc \in Attached => proc[q].ipc = file /\ file # None
    /\ proc[q].pc \in HasSem => proc[q].sem = semOf[file] /\ proc[q].sem \in Objs
    /\ proc[q].pc \notin HasSem => proc[q].sem = None
    /\ proc[q].undo = IF proc[q].pc \in Holding THEN 1 ELSE 0
    /\ proc[q].pc \in Holding => val[proc[q].sem] = 0
    /\ proc[q].pc \in {"setval", "setkey"} => \A r \in Procs \ {q} : proc[r].sem = None
SemTables ==
    /\ semOf \in [Objs -> Objs \cup {None}]
    /\ \A i \in Objs : i # file => semOf[i] = None
    /\ val \in [Objs -> {0, 1}]
SemInv == OnSem => SemTables /\ Alone /\ \A q \in Procs : SemOpen(q)
-----------------------------------------------------------------------------
(* A set of numbers that is not empty has a lowest one. *)
LEMMA LowestIn == ASSUME NEW S \in SUBSET Nat, S # {} PROVE Lowest(S) \in S
<1>1. \E x \in S : \A y \in S : ~ (<<y, x>> \in OpToRel(<, Nat))
  <2>1. S \subseteq Nat OBVIOUS
  <2> DEFINE R == OpToRel(<, Nat)
  <2>2. IsWellFoundedOn(R, Nat) BY NatLessThanWellFounded
  <2> HIDE DEF R
  <2>3. \E x \in S : \A y \in S : ~ (<<y, x>> \in R)
    BY <2>1, <2>2, WFMin, Zenon
  <2> QED BY <2>3 DEF R
<1>2. \E x \in S : \A y \in S : x <= y
  <2>1. PICK x \in S : \A y \in S : ~ (<<y, x>> \in OpToRel(<, Nat))
    BY <1>1
  <2>2. \A y \in S : ~ (y < x)
    BY <2>1 DEF OpToRel
  <2> QED BY <2>2
<1> QED BY <1>2 DEF Lowest

(* While one program has nothing, the others leave a number to use. *)
LEMMA Fresh ==
    ASSUME NEW f, f = [q \in Procs |-> f[q]], NEW p \in Procs, f[p] = None
    PROVE  LET used == {f[q] : q \in Procs} IN Lowest(Objs \ used) \in Objs \ used
<1> DEFINE T == {f[q] : q \in Procs}
<1>1. f \in Surjection(Procs, T)
  <2>1. f \in [Procs -> T] OBVIOUS
  <2> QED BY <2>1 DEF Surjection
<1>2. IsFiniteSet(T) /\ Cardinality(T) <= Cardinality(Procs)
  BY <1>1, FS_Surjection, KeyLockAssumption
<1>3. Cardinality(Procs) \in Nat /\ Cardinality(T) \in Nat
  BY <1>2, FS_CardinalityType, KeyLockAssumption
<1>4. IsFiniteSet(T \ {None}) /\ Cardinality(T \ {None}) = Cardinality(T) - 1
  <2>1. None \in T OBVIOUS
  <2> QED BY <2>1, <1>2, FS_RemoveElement
<1>5. Cardinality(Objs) = Cardinality(Procs)
  BY <1>3, FS_Interval DEF Objs
<1>6. Objs \ T # {}
  <2>1. SUFFICES ASSUME Objs \subseteq T PROVE FALSE
    OBVIOUS
  <2>2. Objs \in SUBSET (T \ {None})
    BY <2>1 DEF Objs, None
  <2>3. Cardinality(Objs) <= Cardinality(T \ {None})
    BY <1>4, <2>2, FS_Subset
  <2> HIDE DEF T
  <2> QED BY <2>3, <1>2, <1>3, <1>4, <1>5
<1>7. Objs \ T \in SUBSET Nat
  BY DEF Objs
<1> QED BY <1>6, <1>7, LowestIn
-----------------------------------------------------------------------------
LEMMA ShapeStep == ASSUME Shape, NEW p \in Procs, Step(p) \/ Leave(p) \/ Kill(p) PROVE Shape'
<1>1. PICK V : proc \in [Procs -> Record(V)]
  BY DEF Shape
<1> USE <1>1 DEF Goes, Record, Done, New, None
<1>2. CASE Open(p)
  <2>1. proc' \in [Procs -> Record(V \cup {"asking", "opened", None, file'})]
    BY <1>2 DEF Open
  <2> QED BY <2>1 DEF Shape
<1>3. CASE Attach(p)
  <2> DEFINE s == Named(shmOf, file, {proc[q].shm : q \in Procs})
  <2>1. proc' \in [Procs -> Record(V \cup {"asking", "attached", "done", 0, file, s})]
    BY <1>3 DEF Attach
  <2> QED BY <2>1 DEF Shape
<1>4. CASE SemGet(p)
  <2>1. proc' \in [Procs -> Record(V \cup {"create", "count", semOf[proc[p].ipc]})]
    BY <1>4 DEF SemGet
  <2> QED BY <2>1 DEF Shape
<1>5. CASE SemCreate(p)
  <2>1. PICK s : proc' = [proc EXCEPT ![p].pc = "setval", ![p].sem = s]
    BY <1>5 DEF SemCreate
  <2>2. proc' \in [Procs -> Record(V \cup {"setval", s})]
    BY <2>1
  <2> QED BY <2>2 DEF Shape
<1>6. CASE SemSet(p)
  <2>1. proc' \in [Procs -> Record(V \cup {"setkey", "done", 0})]
    BY <1>6 DEF SemSet
  <2> QED BY <2>1 DEF Shape
<1>7. CASE SetShare(p)
  <2>1. proc' \in [Procs -> Record(V \cup {"count"})]
    BY <1>7 DEF SetShare
  <2> QED BY <2>1 DEF Shape
<1>8. CASE Count(p)
  <2>1. proc' \in [Procs -> Record(V \cup {"asking", "done", 0, 1})]
    BY <1>8 DEF Count
  <2> QED BY <2>1 DEF Shape
<1>9. CASE Acquire(p)
  <2> DEFINE k == IF variant = "none" THEN proc[p].key ELSE word[Place(p)]
             u == IF variant = "sem" THEN proc[p].undo + 1 ELSE proc[p].undo
             r == [proc[p] EXCEPT !.pc = "waiting", !.key = k, !.undo = u]
             W == V \cup {"waiting", k, u}
  <2>1. proc' = [proc EXCEPT ![p] = r]
    BY <1>9 DEF Acquire, Holds
  <2>2. r \in Record(W)
    <3> HIDE DEF k, u
    <3> QED OBVIOUS
  <2>3. proc \in [Procs -> Record(W)]
    <3> HIDE DEF k, u
    <3> QED OBVIOUS
  <2> HIDE DEF r, W
  <2>4. proc' \in [Procs -> Record(W)]
    BY <2>1, <2>2, <2>3
  <2> QED BY <2>4 DEF Shape
<1>10. CASE AcquireFails(p) \/ Leave(p) \/ Kill(p) \/ Unlink(p)
  <2>1. proc' \in [Procs -> Record(V \cup {"done", 0})]
    BY <1>10 DEF AcquireFails, Leave, Kill, Gone, Unlink, Ends
  <2> QED BY <2>1 DEF Shape
<1>11. CASE Store(p)
  <2>1. proc' \in [Procs -> Record(V \cup {"done", 0, "bye", "asking", proc[p].undo - 1})]
    BY <1>11 DEF Store, Ends
  <2> QED BY <2>1 DEF Shape
<1>13. CASE Give(p)
  <2>1. proc' \in [Procs -> Record(V \cup {"answered", given'})]
    BY <1>13 DEF Give
  <2> QED BY <2>1 DEF Shape
<1>12. CASE Destroy(p) \/ RemoveSem(p) \/ RemoveShm(p)
  <2>1. proc' \in [Procs -> Record(V \cup {"done", 0, "rmsem", "rmshm", "unlink"})]
    BY <1>12 DEF Destroy, RemoveSem, RemoveShm, Ends
  <2> QED BY <2>1 DEF Shape
<1> QED BY <1>2, <1>3, <1>4, <1>5, <1>6, <1>7, <1>8, <1>9, <1>10, <1>11, <1>12, <1>13 DEF Step

(* A step of p concerns p, but for the first value of a semaphore. *)
LEMMA Others ==
    ASSUME Shape, NEW p \in Procs, Step(p) \/ Leave(p) \/ Kill(p), ~SemSet(p), NEW q \in Procs, q # p
    PROVE  proc'[q] = proc[q]
<1>1. PICK V : proc \in [Procs -> Record(V)]
  BY DEF Shape
<1> QED BY <1>1 DEF Step, Open, Attach, SemGet, SetShare, Count, SemCreate, Acquire, Holds, AcquireFails,
     Leave, Kill, Gone, Unlink, Ends, Give, Store, Destroy, RemoveSem, RemoveShm, Goes, Record

(* A program that has not started has nothing; a step starts it. *)
LEMMA NothingStep ==
    ASSUME Shape, NothingYet, NEW p \in Procs, Step(p) \/ Leave(p) \/ Kill(p)
    PROVE  NothingYet'
<1>1. PICK V : proc \in [Procs -> Record(V)]
  BY DEF Shape
<1>2. proc'[p].pc # "new"
  <2> USE <1>1 DEF Goes, Record, Done, New
  <2>1. CASE Open(p) \/ Attach(p) \/ SemGet(p) \/ SetShare(p) \/ Count(p)
    BY <2>1 DEF Open, Attach, SemGet, SetShare, Count
  <2>2. CASE SemCreate(p)
    BY <2>2 DEF SemCreate
  <2>3. CASE SemSet(p)
    BY <2>3 DEF SemSet
  <2>4. CASE Acquire(p)
    BY <2>4 DEF Acquire, Holds
  <2>5. CASE AcquireFails(p) \/ Leave(p) \/ Kill(p) \/ Unlink(p)
    BY <2>5 DEF AcquireFails, Leave, Kill, Gone, Unlink, Ends
  <2>6. CASE Give(p) \/ Store(p)
    BY <2>6 DEF Give, Store, Ends
  <2>7. CASE Destroy(p) \/ RemoveSem(p) \/ RemoveShm(p)
    BY <2>7 DEF Destroy, RemoveSem, RemoveShm, Ends
  <2> QED BY <2>1, <2>2, <2>3, <2>4, <2>5, <2>6, <2>7 DEF Step
<1>3. ASSUME NEW q \in Procs, q # p, proc'[q].pc = "new" PROVE proc'[q] = New
  <2>1. CASE SemSet(p)
    BY <2>1, <1>1, <1>3 DEF SemSet, NothingYet, Record, New, None, Done
  <2>2. CASE ~SemSet(p)
    <3>1. proc'[q] = proc[q]
      BY <1>3, <2>2, Others
    <3> QED BY <3>1, <1>3 DEF NothingYet
  <2> QED BY <2>1, <2>2
<1> QED BY <1>2, <1>3 DEF NothingYet

(* open() names an inode there is, or one nobody has open. *)
LEMMA FileStep ==
    ASSUME Shape, NothingYet, file \in Objs \cup {None}, NEW p \in Procs, Step(p) \/ Leave(p) \/ Kill(p)
    PROVE  /\ file' \in Objs \cup {None}
           /\ Open(p) /\ variant # "none" => file' \in Objs
<1>1. PICK V : proc \in [Procs -> Record(V)]
  BY DEF Shape
<1>2. CASE Open(p)
  <2>1. proc[p].fd = None
    BY <1>2 DEF Open, NothingYet, New
  <2> DEFINE f == [q \in Procs |-> proc[q].fd]
  <2>2. {f[q] : q \in Procs} = {proc[q].fd : q \in Procs} /\ f[p] = None
    BY <2>1
  <2>3. f = [q \in Procs |-> f[q]]
    OBVIOUS
  <2> HIDE DEF f
  <2>4. Lowest(Objs \ {proc[q].fd : q \in Procs}) \in Objs
    BY <2>2, <2>3, Fresh
  <2> QED BY <1>2, <2>4 DEF Open
<1>3. CASE ~Open(p)
  <2>1. file' = file \/ file' = None
    BY <1>3 DEF Step, Attach, SemGet, SetShare, Count, SemCreate, SemSet, Acquire, Holds, AcquireFails,
       Leave, Kill, Gone, Unlink, Give, Store, Destroy, RemoveSem, RemoveShm
  <2> QED BY <2>1, <1>3
<1> QED BY <1>2, <1>3
-----------------------------------------------------------------------------
(* The lock on a file. *)

(* No step changes the way of locking, or forgets a removal. *)
LEMMA VariantStays ==
    ASSUME NEW p \in Procs, Step(p) \/ Leave(p) \/ Kill(p)
    PROVE  variant' = variant /\ (removed => removed') /\ (raced => raced')
<1>1. CASE Open(p) BY <1>1 DEF Open
<1>2. CASE Attach(p) BY <1>2 DEF Attach
<1>3. CASE SemGet(p) BY <1>3 DEF SemGet
<1>4. CASE SemCreate(p) BY <1>4 DEF SemCreate
<1>5. CASE SemSet(p) BY <1>5 DEF SemSet
<1>6. CASE SetShare(p) BY <1>6 DEF SetShare
<1>7. CASE Count(p) BY <1>7 DEF Count
<1>8. CASE Acquire(p) BY <1>8 DEF Acquire, Holds
<1>9. CASE AcquireFails(p) BY <1>9 DEF AcquireFails
<1>10. CASE Give(p) \/ Store(p) BY <1>10 DEF Give, Store
<1>11. CASE Leave(p) BY <1>11 DEF Leave, Gone
<1>12. CASE Kill(p) BY <1>12 DEF Kill, Gone
<1>13. CASE Destroy(p) BY <1>13 DEF Destroy
<1>14. CASE RemoveSem(p) BY <1>14 DEF RemoveSem
<1>15. CASE RemoveShm(p) BY <1>15 DEF RemoveShm
<1>16. CASE Unlink(p) BY <1>16 DEF Unlink
<1> QED BY <1>1, <1>2, <1>3, <1>4, <1>5, <1>6, <1>7, <1>8, <1>9, <1>10, <1>11, <1>12,
           <1>13, <1>14, <1>15, <1>16 DEF Step

(* Every step is taken somewhere. *)
LEMMA NotDone ==
    ASSUME NEW p \in Procs, Step(p) \/ Leave(p) \/ Kill(p)
    PROVE  proc[p].pc # "done"
BY DEF Step, Open, Attach, SemGet, SetShare, Count, SemCreate, SemSet, Acquire, AcquireFails,
   Leave, Kill, Holding, Unlink, Give, Store, Destroy, RemoveSem, RemoveShm

(* What a step does to the file and to the place and the file of p.        *)
LEMMA FileMove ==
    ASSUME Shape, NothingYet, file \in Objs \cup {None}, OnFile', FileInv,
           NEW p \in Procs, Step(p) \/ Leave(p) \/ Kill(p)
    PROVE  /\ OnFile
           /\ \A q \in Procs \ {p} : proc'[q] = proc[q]
           /\ file' # file => file = None /\ proc[p].pc = "new"
           /\ \/ proc'[p].pc = "done"
              \/ /\ proc'[p].pc \in HasFile
                 /\ proc'[p].fd = IF proc[p].pc = "new" THEN file' ELSE proc[p].fd
                 /\ proc[p].pc = "new" => file' # None
                 /\ proc'[p].pc = "opened" => variant = "shm"
           /\ proc'[p].pc \in Holding => Acquire(p) \/ proc[p].pc \in Holding
<1>1. PICK V : proc \in [Procs -> Record(V)]
  BY DEF Shape
<1>2. variant' = variant /\ OnFile
  BY VariantStays DEF OnFile
<1>3. FileOpen(p) /\ proc[p].pc \in {"new"} \cup HasFile
  BY <1>2, NotDone DEF FileInv, FileOpen
<1>4. Open(p) \/ Attach(p) \/ Acquire(p) \/ Give(p) \/ Store(p) \/ Destroy(p) \/ Leave(p) \/ Kill(p)
  BY <1>2, <1>3 DEF OnFile, HasFile, Step, SemGet, SetShare, Count, SemCreate, SemSet, AcquireFails,
     Unlink, RemoveSem, RemoveShm
<1>5. \A q \in Procs \ {p} : proc'[q] = proc[q]
  BY <1>4, Others, <1>1 DEF SemSet, Open, Attach, Acquire, Give, Store, Destroy, Leave, Kill, Gone, Ends, Holds, Goes, Record
<1>6. file' # file => file = None /\ proc[p].pc = "new"
  BY <1>2, <1>4 DEF OnFile, Open, Attach, Acquire, Holds, Give, Store, Destroy, Leave, Kill, Gone
<1>7. /\ \/ proc'[p].pc = "done"
         \/ /\ proc'[p].pc \in HasFile
            /\ proc'[p].fd = IF proc[p].pc = "new" THEN file' ELSE proc[p].fd
            /\ proc[p].pc = "new" => file' # None
            /\ proc'[p].pc = "opened" => variant = "shm"
      /\ proc'[p].pc \in Holding => Acquire(p) \/ proc[p].pc \in Holding
  <2> USE <1>1, <1>2 DEF OnFile, HasFile, Holding, Record, Goes, Done, New
  <2>1. CASE Open(p)
    <3>1. file' # None
      BY <2>1, FileStep DEF Objs, None
    <3> QED BY <2>1, <3>1 DEF Open
  <2>2. CASE Attach(p)
    BY <2>2, <1>3 DEF Attach, FileOpen
  <2>3. CASE Acquire(p)
    <3>1. proc[p].pc = "asking" /\ proc'[p].pc = "waiting" /\ proc'[p].fd = proc[p].fd
      BY <2>3 DEF Acquire, Holds
    <3> QED BY <2>3, <3>1
  <2>4. CASE Give(p) \/ Store(p)
    BY <2>4 DEF Give, Store, Ends, Holding
  <2>5. CASE Destroy(p)
    BY <2>5 DEF Destroy, Ends
  <2>6. CASE Leave(p) \/ Kill(p)
    BY <2>6 DEF Leave, Kill, Gone, Ends
  <2> QED BY <1>4, <2>1, <2>2, <2>3, <2>4, <2>5, <2>6
<1> QED BY <1>2, <1>5, <1>6, <1>7

(* Who gets the lock shares the file with whoever would have it. *)
LEMMA FileNext ==
    ASSUME Shape, NothingYet, file \in Objs \cup {None}, FileInv,
           NEW p \in Procs, Step(p) \/ Leave(p) \/ Kill(p)
    PROVE  FileInv'
<1> SUFFICES ASSUME OnFile' PROVE Alone' /\ \A q \in Procs : FileOpen(q)'
  BY DEF FileInv
<1>1. /\ OnFile
      /\ \A q \in Procs \ {p} : proc'[q] = proc[q]
      /\ file' # file => file = None /\ proc[p].pc = "new"
      /\ \/ proc'[p].pc = "done"
         \/ /\ proc'[p].pc \in HasFile
            /\ proc'[p].fd = IF proc[p].pc = "new" THEN file' ELSE proc[p].fd
            /\ proc[p].pc = "new" => file' # None
            /\ proc'[p].pc = "opened" => variant = "shm"
      /\ proc'[p].pc \in Holding => Acquire(p) \/ proc[p].pc \in Holding
  BY FileMove
<1>2. Alone /\ \A q \in Procs : FileOpen(q)
  BY <1>1 DEF FileInv
<1>3. ASSUME NEW q \in Procs PROVE FileOpen(q)'
  <2>1. variant' = variant
    BY VariantStays
  <2>2. CASE q = p
    BY <2>1, <2>2, <1>1, <1>2, NotDone DEF HasFile, FileOpen
  <2>3. CASE q # p
    BY <2>1, <2>3, <1>1, <1>2 DEF FileOpen
  <2> QED BY <2>2, <2>3
<1>4. Alone'
  <2>1. CASE Acquire(p)
    <3>1. proc[p].pc = "asking"
      BY <2>1 DEF Acquire
    <3>2. \A q \in Procs \ {p} : proc[q].pc \in Holding => proc[q].fd # proc[p].fd
      BY <1>1, <2>1 DEF Acquire, Free, OnFile, Holders
    <3>3. \A q \in Procs \ {p} : proc[q].pc \notin Holding
      BY <1>2, <3>1, <3>2 DEF HasFile, FileOpen, Holding
    <3> QED BY <1>1, <3>3 DEF Alone, Holders
  <2>2. CASE ~Acquire(p)
    BY <1>1, <1>2, <2>2 DEF Alone, Holders
  <2> QED BY <2>1, <2>2
<1> QED BY <1>3, <1>4
-----------------------------------------------------------------------------
(* The semaphore. *)

(* A step that leaves the file and the semaphores what they are. *)
LEMMA SemMove ==
    ASSUME SemTables, Alone, \A q \in Procs : SemOpen(q), NEW p \in Procs,
           \A q \in Procs \ {p} : proc'[q] = proc[q],
           file' = file, semOf' = semOf, val' \in [Objs -> {0, 1}],
           SemOpen(p)',
           \A q \in Procs \ {p} : proc[q].pc \in Holding => val'[proc[q].sem] = 0,
           \A q \in Procs \ {p} : proc[q].pc \in {"setval", "setkey"} => proc'[p].sem = None,
           proc'[p].pc \in Holding => \A q \in Procs \ {p} : proc[q].pc \notin Holding
    PROVE  SemTables' /\ Alone' /\ \A q \in Procs : SemOpen(q)'
<1>1. SemTables'
  BY DEF SemTables
<1>2. Alone'
  BY DEF Alone, Holders, Holding
<1>3. ASSUME NEW q \in Procs \ {p} PROVE SemOpen(q)'
  BY DEF SemOpen
<1> QED BY <1>1, <1>2, <1>3

(* A program with the semaphores finds them. *)
LEMMA SemExists ==
    ASSUME SemTables, file \in Objs \cup {None}, NEW p \in Procs, SemOpen(p), proc[p].pc \in HasSem
    PROVE  Exists(p) /\ file \in Objs
BY DEF SemTables, SemOpen, Attached, Exists

(* The kernel gives back what a program that ends still holds. *)
LEMMA SemEnds ==
    ASSUME Shape, SemTables, file \in Objs \cup {None}, Alone, \A q \in Procs : SemOpen(q),
           NEW p \in Procs, Ends(p), file' = file, semOf' = semOf
    PROVE  SemTables' /\ Alone' /\ \A q \in Procs : SemOpen(q)'
<1>1. PICK V : proc \in [Procs -> Record(V)]
  BY DEF Shape
<1>2. \A q \in Procs \ {p} : proc'[q] = proc[q]
  BY <1>1 DEF Ends, Record
<1>3. proc'[p] = Done
  BY <1>1 DEF Ends, Record
<1>4. SemOpen(p)'
  BY <1>3 DEF SemOpen, Done, New, HasSem, Attached, Holding
<1>5. /\ val' \in [Objs -> {0, 1}]
      /\ \A q \in Procs \ {p} : proc[q].pc \in Holding => val'[proc[q].sem] = 0
  <2>1. CASE proc[p].sem # None /\ Exists(p)
    <3>1. proc[p].pc \in HasSem /\ proc[p].sem \in Objs
      BY <2>1 DEF SemOpen
    <3>2. CASE proc[p].pc \in Holding
      <4>1. val' = [val EXCEPT ![proc[p].sem] = 1]
        BY <2>1, <3>1, <3>2 DEF Ends, SemOpen
      <4> QED BY <3>2, <4>1 DEF SemTables, Alone, Holders, Holding
    <3>3. CASE proc[p].pc \notin Holding
      <4>1. val' = val
        BY <2>1, <3>1, <3>3 DEF Ends, SemOpen, SemTables
      <4> QED BY <4>1 DEF SemTables, SemOpen
    <3> QED BY <3>2, <3>3
  <2>2. CASE ~ (proc[p].sem # None /\ Exists(p))
    BY <2>2 DEF Ends, SemTables, SemOpen
  <2> QED BY <2>1, <2>2
<1> QED BY <1>2, <1>3, <1>4, <1>5, SemMove DEF Done, New, None, Holding

SemBody == SemTables /\ Alone /\ \A q \in Procs : SemOpen(q)

(* open(), ftok() and the first semget(). *)
LEMMA SemStart ==
    ASSUME Shape, NothingYet, file \in Objs \cup {None}, OnSem', SemBody,
           NEW p \in Procs, Open(p) \/ Attach(p) \/ SemGet(p)
    PROVE  SemBody'
<1>1. PICK V : proc \in [Procs -> Record(V)]
  BY DEF Shape
<1>2. \A q \in Procs \ {p} : proc'[q] = proc[q]
  BY <1>1 DEF Open, Attach, SemGet, Record, Goes
<1>3. variant = "sem" /\ variant' = "sem"
  BY VariantStays DEF OnSem, Step
<1>4. SemOpen(p)
  BY DEF SemBody
<1>5. CASE Open(p)
  <2>1. proc[p] = New /\ file' \in Objs /\ (file # None => file' = file)
    BY <1>5, <1>3, FileStep DEF Open, NothingYet, Step
  <2>2. proc'[p] = [New EXCEPT !.pc = "opened"]
    BY <1>1, <1>3, <1>5, <2>1 DEF Open, Record, New
  <2>3. semOf' = semOf /\ val' = val
    BY <1>5 DEF Open
  <2>4. SemTables'
    BY <2>1, <2>3 DEF SemBody, SemTables, Objs, None
  <2>5. Alone'
    BY <1>2, <2>2 DEF SemBody, Alone, Holders, Holding, New
  <2>6. SemOpen(p)'
    BY <2>2 DEF SemOpen, New, HasSem, Attached, Holding
  <2>7. ASSUME NEW q \in Procs \ {p} PROVE SemOpen(q)'
    <3>1. proc'[p].sem = None
      BY <2>2 DEF New
    <3>2. proc[q].pc \in Attached => file' = file
      BY <2>1 DEF SemBody, SemOpen
    <3> QED BY <1>2, <2>3, <3>1, <3>2 DEF SemBody, SemOpen, Attached
  <2> QED BY <2>4, <2>5, <2>6, <2>7 DEF SemBody
<1>6. CASE Attach(p)
  <2>1. file' = file /\ semOf' = semOf /\ val' = val /\ proc[p].pc = "opened"
    BY <1>6 DEF Attach
  <2>2. SemOpen(p)' /\ proc'[p].sem = None /\ proc'[p].pc \notin Holding
    BY <1>1, <1>3, <1>4, <1>6, <2>1 DEF Attach, SemOpen, Record, Done, New, Attached, HasSem, Holding
  <2> QED BY <1>2, <2>1, <2>2, SemMove DEF SemBody, SemTables, SemOpen
<1>7. CASE SemGet(p)
  <2>1. file' = file /\ semOf' = semOf /\ val' = val /\ proc[p].pc = "attached"
    BY <1>7 DEF SemGet
  <2>2. proc[p].ipc = file /\ file \in Objs /\ proc[p].sem = None /\ proc[p].undo = 0
    BY <1>4, <2>1 DEF SemOpen, Attached, HasSem, Holding
  <2>3. CASE semOf[file] = None
    <3>1. SemOpen(p)' /\ proc'[p].sem = None /\ proc'[p].pc \notin Holding
      BY <1>1, <1>4, <1>7, <2>1, <2>2, <2>3 DEF SemGet, Goes, SemOpen, Record, Attached, HasSem, Holding
    <3> QED BY <1>2, <2>1, <3>1, SemMove DEF SemBody, SemTables, SemOpen
  <2>4. CASE semOf[file] # None
    <3>1. ~Unready(semOf[file])
      BY <1>7, <2>2 DEF SemGet, OnSem
    <3>2. \A q \in Procs : proc[q].pc \notin {"setval", "setkey"}
      BY <2>4, <3>1 DEF Unready, SemBody, SemOpen, HasSem
    <3>3. proc' = [proc EXCEPT ![p].pc = "count", ![p].sem = semOf[file]]
      BY <1>7, <2>2, <2>4 DEF SemGet
    <3>4. SemOpen(p)' /\ proc'[p].pc = "count"
      BY <1>1, <1>4, <2>1, <2>2, <2>4, <3>3 DEF SemOpen, Record, Attached, HasSem, SemBody, SemTables, Holding
    <3> QED BY <1>2, <2>1, <3>2, <3>4, SemMove DEF SemBody, SemTables, SemOpen, Holding
  <2> QED BY <2>3, <2>4
<1> QED BY <1>5, <1>6, <1>7

(* The first value of new semaphores, and the counter. *)
LEMMA SemFirst ==
    ASSUME Shape, NothingYet, file \in Objs \cup {None}, OnSem', SemBody,
           NEW p \in Procs, SemCreate(p) \/ SemSet(p) \/ SetShare(p) \/ Count(p)
    PROVE  SemBody'
<1>1. PICK V : proc \in [Procs -> Record(V)]
  BY DEF Shape
<1>2. variant = "sem" /\ variant' = "sem"
  BY VariantStays DEF OnSem, Step
<1>3. SemOpen(p)
  BY DEF SemBody
<1>4. CASE SemCreate(p)
  <2> DEFINE users == {proc[q].sem : q \in Procs}
             s == Named(semOf, file, users)
  <2>1. proc[p].pc = "create" /\ proc[p].ipc = file /\ file \in Objs /\ proc[p].sem = None /\ proc[p].undo = 0
    BY <1>3, <1>4 DEF SemCreate, SemOpen, Attached, HasSem, Holding
  <2>2. semOf[file] = None
    BY <1>4, <2>1 DEF SemCreate, OnSem
  <2>3. \A i \in Objs : semOf[i] = None
    BY <2>2 DEF SemBody, SemTables
  <2>4. s \in Objs
    <3>1. s = Lowest(Objs \ ({semOf[o] : o \in Objs} \cup users))
      BY <2>1, <2>2 DEF Named
    <3>2. {semOf[o] : o \in Objs} = {None}
      BY <2>1, <2>3
    <3>3. Objs \ ({None} \cup users) = Objs \ users
      BY DEF Objs, None
    <3> DEFINE f == [q \in Procs |-> proc[q].sem]
    <3>4. f = [q \in Procs |-> f[q]] /\ {f[q] : q \in Procs} = users /\ f[p] = None
      BY <2>1
    <3> HIDE DEF f, users
    <3>5. Lowest(Objs \ users) \in Objs
      BY <3>4, Fresh
    <3> QED BY <3>1, <3>2, <3>3, <3>5
  <2>5. \A q \in Procs : proc[q].pc \notin HasSem
    BY <2>1, <2>2 DEF SemBody, SemOpen, Objs, None
  <2>6. /\ proc' = [proc EXCEPT ![p].pc = "setval", ![p].sem = s]
        /\ semOf' = [semOf EXCEPT ![file] = s]
        /\ val' = [val EXCEPT ![s] = 0] /\ file' = file
    BY <1>4, <2>1, <2>2 DEF SemCreate
  <2> HIDE DEF s, users
  <2>7. SemTables'
    BY <2>1, <2>4, <2>6 DEF SemBody, SemTables
  <2>8. /\ \A q \in Procs \ {p} : proc'[q] = proc[q]
        /\ proc'[p].pc = "setval" /\ proc'[p].sem = s /\ proc'[p].ipc = file /\ proc'[p].undo = 0
    BY <1>1, <2>1, <2>6 DEF Record
  <2>9. Alone'
    BY <2>5, <2>8 DEF Alone, Holders, Holding, HasSem
  <2>10. ASSUME NEW q \in Procs \ {p} PROVE SemOpen(q)'
    <3>1. proc'[q] = proc[q] /\ SemOpen(q) /\ proc[q].pc \notin HasSem /\ file' = file
      BY <2>5, <2>6, <2>8 DEF SemBody
    <3> QED BY <3>1 DEF SemOpen, HasSem, Attached, Holding
  <2>11. SemOpen(p)'
    <3>1. \A r \in Procs \ {p} : proc'[r].sem = None
      BY <2>5, <2>8 DEF SemBody, SemOpen
    <3>2. semOf'[file'] = s /\ file' # None
      BY <2>1, <2>6 DEF SemBody, SemTables, Objs, None
    <3> QED BY <2>1, <2>4, <2>6, <2>8, <3>1, <3>2 DEF SemOpen, Attached, HasSem, Holding
  <2> QED BY <2>7, <2>9, <2>10, <2>11 DEF SemBody
<1>5. CASE SemSet(p)
  <2>1. proc[p].pc = "setval" /\ Exists(p) /\ file \in Objs
    BY <1>3, <1>5, SemExists DEF SemSet, HasSem, SemBody
  <2>2. \A q \in Procs \ {p} : proc[q].sem = None /\ proc[p].sem \in Objs
    BY <1>3, <2>1 DEF SemOpen, HasSem
  <2>3. /\ \A q \in Procs \ {p} : proc'[q] = proc[q]
        /\ proc'[p] = [proc[p] EXCEPT !.pc = "setkey"]
        /\ val' = [val EXCEPT ![proc[p].sem] = 1] /\ semOf' = semOf /\ file' = file
    BY <1>5, <2>1, <2>2 DEF SemSet, Objs, None
  <2>4. SemOpen(p)' /\ proc'[p].pc = "setkey"
    BY <1>1, <1>3, <2>1, <2>3 DEF SemOpen, Record, Attached, HasSem, Holding
  <2>5. \A q \in Procs \ {p} : proc[q].pc \notin HasSem
    BY <2>2 DEF SemBody, SemOpen, Objs, None
  <2> QED BY <2>2, <2>3, <2>4, <2>5, SemMove DEF SemBody, SemTables, HasSem, Holding
<1>6. CASE SetShare(p) \/ Count(p)
  <2>1. /\ proc[p].pc \in {"setkey", "count"} /\ Exists(p)
        /\ file' = file /\ semOf' = semOf /\ val' = val
    BY <1>3, <1>6, SemExists DEF SetShare, Count, HasSem, SemBody
  <2>2. \A q \in Procs \ {p} : proc'[q] = proc[q]
    BY <1>1, <1>6, <2>1 DEF SetShare, Count, Goes, Record
  <2>3. /\ proc'[p].pc \in {"count", "asking"} /\ proc'[p].sem = proc[p].sem
        /\ proc'[p].ipc = proc[p].ipc /\ proc'[p].undo = proc[p].undo
    BY <1>1, <1>6, <2>1 DEF SetShare, Count, Goes, Record
  <2>4. SemOpen(p)'
    BY <1>3, <2>1, <2>3 DEF SemOpen, Attached, HasSem, Holding
  <2>5. \A q \in Procs \ {p} : proc[q].pc \notin {"setval", "setkey"}
    BY <1>3, <2>1 DEF SemBody, SemOpen, HasSem, Objs, None
  <2> QED BY <2>1, <2>2, <2>3, <2>4, <2>5, SemMove DEF SemBody, SemTables, SemOpen, Holding
<1> QED BY <1>4, <1>5, <1>6

(* The lock taken and given back, and the end of a program. *)
LEMMA SemUse ==
    ASSUME Shape, NothingYet, file \in Objs \cup {None}, OnSem', SemBody,
           NEW p \in Procs, Acquire(p) \/ AcquireFails(p) \/ Give(p) \/ Store(p) \/ Leave(p) \/ Kill(p) \/ Destroy(p)
    PROVE  SemBody'
<1>1. PICK V : proc \in [Procs -> Record(V)]
  BY DEF Shape
<1>2. variant = "sem" /\ variant' = "sem"
  BY VariantStays DEF OnSem, Step
<1>3. SemOpen(p)
  BY DEF SemBody
<1>4. CASE Ends(p) /\ file' = file /\ semOf' = semOf
  BY <1>4, SemEnds DEF SemBody
<1>5. CASE Acquire(p)
  <2>1. proc[p].pc = "asking" /\ Exists(p) /\ val[proc[p].sem] = 1 /\ proc[p].sem \in Objs /\ proc[p].undo = 0
    BY <1>2, <1>3, <1>5 DEF Acquire, Free, SemOpen, HasSem, SemBody, SemTables, Holding
  <2>2. \A q \in Procs : proc[q].pc \notin Holding
    BY <1>3, <2>1 DEF SemBody, SemOpen, HasSem, Holding
  <2> DEFINE r == [proc[p] EXCEPT !.pc = "waiting", !.key = word[Place(p)], !.undo = 1]
  <2>3. /\ proc' = [proc EXCEPT ![p] = r]
        /\ val' = [val EXCEPT ![proc[p].sem] = 0] /\ file' = file /\ semOf' = semOf
    BY <1>1, <1>2, <1>5, <2>1 DEF Acquire, Holds, Record
  <2>4. /\ r.pc = "waiting" /\ r.sem = proc[p].sem /\ r.ipc = proc[p].ipc /\ r.undo = 1
    BY <1>1 DEF Record
  <2> HIDE DEF r
  <2>5. proc'[p] = r /\ \A q \in Procs \ {p} : proc'[q] = proc[q]
    BY <1>1, <2>3
  <2>6. val' \in [Objs -> {0, 1}] /\ val'[proc[p].sem] = 0
    BY <2>1, <2>3 DEF SemBody, SemTables
  <2>7. SemOpen(p)'
    BY <1>3, <2>1, <2>3, <2>4, <2>5, <2>6 DEF SemOpen, Attached, HasSem, Holding
  <2>8. \A q \in Procs \ {p} : proc[q].pc \notin {"setval", "setkey"}
    BY <1>3, <2>1 DEF SemBody, SemOpen, HasSem, Objs, None
  <2> QED BY <2>2, <2>3, <2>5, <2>6, <2>7, <2>8, SemMove DEF SemBody
<1>6. CASE AcquireFails(p)
  BY <1>3, <1>6, SemExists DEF AcquireFails, HasSem, SemBody
<1>7. CASE Store(p)
  <2>1. proc[p].pc = "answered" /\ file' = file /\ semOf' = semOf /\ proc[p].sem \in Objs
    BY <1>3, <1>7 DEF Store, SemOpen, HasSem
  <2>2. CASE ~Ends(p)
    <3>1. PICK c \in {"bye", "asking"} : proc' = [proc EXCEPT ![p] = [proc[p] EXCEPT !.pc = c, !.undo = 0]]
      BY <1>1, <1>2, <1>3, <1>7, <2>1, <2>2 DEF Store, SemOpen, Record, Holding
    <3>2. val' = [val EXCEPT ![proc[p].sem] = 1]
      BY <1>2, <1>3, <1>7, <2>1, <2>2 DEF Store, SemOpen, Holding
    <3>3. /\ \A q \in Procs \ {p} : proc'[q] = proc[q]
          /\ proc'[p].pc = c /\ proc'[p].sem = proc[p].sem /\ proc'[p].ipc = proc[p].ipc /\ proc'[p].undo = 0
      BY <1>1, <3>1 DEF Record
    <3>4. val' \in [Objs -> {0, 1}]
      BY <2>1, <3>2 DEF SemBody, SemTables
    <3>5. \A q \in Procs \ {p} : proc[q].pc \notin Holding \cup {"setval", "setkey"}
      BY <1>3, <2>1 DEF SemBody, Alone, Holders, Holding, SemOpen, Objs, None
    <3>6. SemOpen(p)'
      BY <1>3, <2>1, <3>1, <3>3 DEF SemOpen, Attached, HasSem, Holding
    <3> QED BY <2>1, <3>1, <3>3, <3>4, <3>5, <3>6, SemMove DEF SemBody
  <2> QED BY <1>4, <2>1, <2>2
<1>10. CASE Give(p)
  <2>1. /\ proc[p].pc = "waiting" /\ file' = file /\ semOf' = semOf /\ val' = val /\ proc[p].sem \in Objs
    BY <1>3, <1>10 DEF Give, SemOpen, HasSem
  <2>2. /\ \A q \in Procs \ {p} : proc'[q] = proc[q]
        /\ proc'[p].pc = "answered" /\ proc'[p].sem = proc[p].sem /\ proc'[p].ipc = proc[p].ipc
        /\ proc'[p].undo = proc[p].undo
    BY <1>1, <1>10 DEF Give, Record
  <2>3. \A q \in Procs \ {p} : proc[q].pc \notin Holding \cup {"setval", "setkey"}
    BY <1>3, <2>1 DEF SemBody, Alone, Holders, Holding, SemOpen, Objs, None
  <2>4. SemOpen(p)'
    BY <1>3, <2>1, <2>2 DEF SemOpen, Attached, HasSem, Holding
  <2> QED BY <2>1, <2>2, <2>3, <2>4, SemMove DEF SemBody, SemTables
<1>8. CASE Leave(p) \/ Kill(p)
  BY <1>4, <1>8 DEF Leave, Kill, Gone
<1>9. CASE Destroy(p)
  <2>1. proc[p].pc = "bye" /\ file' = file /\ semOf' = semOf
    BY <1>2, <1>9 DEF Destroy
  <2>2. CASE ~Ends(p)
    <3>1. proc' = [proc EXCEPT ![p].pc = "rmsem"] /\ val' = val
      BY <1>9, <2>2 DEF Destroy, Goes
    <3>2. /\ \A q \in Procs \ {p} : proc'[q] = proc[q]
          /\ proc'[p].pc = "rmsem" /\ proc'[p].sem = proc[p].sem /\ proc'[p].ipc = proc[p].ipc
          /\ proc'[p].undo = proc[p].undo
      BY <1>1, <3>1 DEF Record
    <3>3. \A q \in Procs \ {p} : proc[q].pc \notin {"setval", "setkey"}
      BY <1>3, <2>1 DEF SemBody, SemOpen, HasSem, Objs, None
    <3>4. SemOpen(p)'
      BY <1>3, <2>1, <3>1, <3>2 DEF SemOpen, Attached, HasSem, Holding
    <3> QED BY <2>1, <3>1, <3>2, <3>3, <3>4, SemMove DEF SemBody, SemTables, SemOpen, Holding
  <2> QED BY <1>4, <2>1, <2>2
<1> QED BY <1>5, <1>6, <1>7, <1>8, <1>9, <1>10

LEMMA SemNext ==
    ASSUME Shape, NothingYet, file \in Objs \cup {None}, SemInv,
           NEW p \in Procs, Step(p) \/ Leave(p) \/ Kill(p)
    PROVE  SemInv'
<1> SUFFICES ASSUME OnSem' PROVE SemBody'
  BY DEF SemInv, SemBody
<1>1. SemBody /\ ~removed'
  BY VariantStays DEF OnSem, SemInv, SemBody
<1>2. SemOpen(p)
  BY <1>1 DEF SemBody
<1>3. ~RemoveSem(p) /\ ~RemoveShm(p) /\ ~Unlink(p)
  BY <1>1, <1>2 DEF RemoveSem, RemoveShm, Unlink, SemOpen, Attached, HasSem
<1> QED BY <1>1, <1>3, SemStart, SemFirst, SemUse DEF Step
-----------------------------------------------------------------------------
LockInv == Shape /\ NothingYet /\ file \in Objs \cup {None} /\ FileInv /\ SemInv

LEMMA LockInit == Init => LockInv
<1> SUFFICES ASSUME Init PROVE LockInv
  OBVIOUS
<1>1. proc \in [Procs -> Record({"new", None, 0})]
  BY DEF Init, New, Record
<1>2. Shape /\ NothingYet /\ file \in Objs \cup {None}
  BY <1>1 DEF Shape, NothingYet, Init
<1>3. \A q \in Procs : proc[q] = New
  BY DEF Init
<1>4. Alone
  BY <1>3 DEF Alone, Holders, Holding, New
<1>5. FileInv
  BY <1>3, <1>4 DEF FileInv, FileOpen, HasFile, New
<1>6. SemInv
  <2>1. SemTables
    BY DEF SemTables, Init
  <2>2. \A q \in Procs : SemOpen(q)
    BY <1>3 DEF SemOpen, New, HasSem, Attached, Holding
  <2> QED BY <1>4, <2>1, <2>2 DEF SemInv
<1> QED BY <1>2, <1>5, <1>6 DEF LockInv

LEMMA LockNext == LockInv /\ [Next]_vars => LockInv'
<1> SUFFICES ASSUME LockInv, [Next]_vars PROVE LockInv'
  OBVIOUS
<1>1. ASSUME NEW p \in Procs, Step(p) \/ Leave(p) \/ Kill(p) PROVE LockInv'
  BY <1>1, ShapeStep, NothingStep, FileStep, FileNext, SemNext DEF LockInv
<1>2. CASE UNCHANGED vars
  <2>1. Shape' /\ NothingYet' /\ file' \in Objs \cup {None}
    BY <1>2 DEF vars, LockInv, Shape, NothingYet
  <2>2. Alone' <=> Alone
    BY <1>2 DEF vars, Alone, Holders, Holding
  <2>3. FileInv'
    BY <1>2, <2>2 DEF vars, LockInv, FileInv, OnFile, FileOpen
  <2>4. SemInv'
    BY <1>2, <2>2 DEF vars, LockInv, SemInv, OnSem, SemTables, SemOpen
  <2> QED BY <2>1, <2>3, <2>4 DEF LockInv
<1> QED BY <1>1, <1>2 DEF Next

(* The inductive invariant of the lock. *)
THEOREM LockInvariant == Spec => []LockInv
BY LockInit, LockNext, PTL DEF Spec

(* client_get_key(): with lockf() and the segment always, with flock() and *)
(* the semaphore until an fbye removes the key or a semaphore is met that  *)
(* has no value yet, one program of the host at most is between its        *)
(* request and the answer.                                                 *)
THEOREM LockKeepsApart == Spec => []OneHolder
<1>1. LockInv => OneHolder
  BY DEF LockInv, FileInv, OnFile, SemInv, OnSem, Alone, Apart, OneHolder
<1> QED BY <1>1, LockInvariant, PTL
-----------------------------------------------------------------------------
(***************************************************************************)
(* As long as no program has removed the key, each request carries the key *)
(* the server gave this host last.                                         *)
(***************************************************************************)
Kept == Apart /\ ~removed
Files == {"flock", "lockf"}
Segments == {"shm", "sem"}

(* Where the key is, None before it is anywhere: in the file, or in the    *)
(* segment of the file.                                                    *)
Cell == IF file = None THEN None ELSE IF variant \in Files THEN file ELSE shmOf[file]

(* A program was given a key it has not stored, or will not store.         *)
Pending == lost \/ \E q \in Procs : proc[q].pc = "answered"

(* The word there is the last key the server gave, or, while it is pending *)
(* that it is stored, the key of the request the server answered; the last *)
(* key is the first, 0, as long as the word or the semaphores are still to *)
(* be made.                                                                *)
KeyTables ==
    /\ given \in Nat
    /\ word \in [Objs -> Nat]
    /\ shmOf \in [Objs -> Objs \cup {None}]
    /\ variant \in Segments => \A i \in Objs : i # file => shmOf[i] = None
    /\ Cell = None => given = 0
    /\ Cell # None => word[Cell] = given \/ (last \in {word[Cell], NoKey} /\ Pending)
    /\ variant = "sem" /\ file # None /\ semOf[file] = None => given = 0

(* A program past Attach has the segment of the file; its request carries  *)
(* the word; the answer to it has the last key.                            *)
KeyOpen(q) ==
    /\ variant \in Segments /\ proc[q].pc \in Attached => proc[q].shm = shmOf[file] /\ proc[q].shm # None
    /\ variant \in Segments /\ proc[q].pc \notin Attached => proc[q].shm = None
    /\ proc[q].pc = "waiting" => Cell # None /\ proc[q].key = word[Cell]
    /\ proc[q].pc = "answered" => proc[q].key = given
    /\ proc[q].pc \in {"setval", "setkey"} => given = 0

KeyBody == KeyTables /\ \A q \in Procs : KeyOpen(q)
KeyInv == Kept => KeyBody
-----------------------------------------------------------------------------
(* As long as the key is kept the lock does what it should. *)
LEMMA KeptLocks ==
    ASSUME LockInv, Kept
    PROVE  /\ Alone /\ variant \in Files \cup Segments
           /\ variant # "sem" => \A q \in Procs : FileOpen(q)
           /\ variant = "sem" => SemBody
BY DEF Kept, Apart, LockInv, FileInv, OnFile, SemInv, OnSem, SemBody, Files, Segments

(* Where a program with the lock, or about to have it, finds the key. *)
LEMMA KeyPlace ==
    ASSUME LockInv, Kept, KeyBody, NEW p \in Procs, proc[p].pc \in {"asking", "waiting", "answered", "setkey"}
    PROVE  Place(p) = Cell /\ Cell \in Objs
<1>1. CASE variant \in Files
  BY <1>1, KeptLocks DEF FileOpen, HasFile, Place, Cell, KeyBody, KeyTables, Files, LockInv
<1>2. CASE variant \in Segments
  <2>1. KeyOpen(p) /\ proc[p].pc \in Attached
    BY DEF KeyBody, Attached, HasSem
  <2>2. file \in Objs
    <3>1. CASE variant = "shm"
      BY <3>1, KeptLocks DEF FileOpen, HasFile, LockInv
    <3>2. CASE variant = "sem"
      BY <3>2, <2>1, KeptLocks DEF SemBody, SemOpen, LockInv
    <3> QED BY <1>2, <3>1, <3>2 DEF Segments
  <2> QED BY <1>2, <2>1, <2>2 DEF KeyOpen, Place, Cell, KeyBody, KeyTables, Segments, Files, Objs, None
<1> QED BY <1>1, <1>2, KeptLocks

(* What is pending stays so in a step of a program that has no answer, or  *)
(* loses it.                                                               *)
LEMMA PendingStays ==
    ASSUME NEW p \in Procs, \A q \in Procs \ {p} : proc'[q] = proc[q],
           lost \/ proc[p].pc = "answered" => lost'
    PROVE  Pending => Pending'
BY DEF Pending

(* A step that leaves the keys where and what they are. *)
LEMMA KeyMove ==
    ASSUME KeyBody, NEW p \in Procs,
           \A q \in Procs \ {p} : proc'[q] = proc[q],
           variant' = variant, file' = file, shmOf' = shmOf, semOf' = semOf, word' = word, given' = given,
           last' = last, lost \/ proc[p].pc = "answered" => lost',
           KeyOpen(p)'
    PROVE  KeyBody'
<1>1. Cell' = Cell
  BY DEF Cell
<1>2. KeyTables'
  BY <1>1, PendingStays DEF KeyBody, KeyTables
<1>3. ASSUME NEW q \in Procs \ {p} PROVE KeyOpen(q)'
  BY <1>1 DEF KeyBody, KeyOpen
<1> QED BY <1>2, <1>3 DEF KeyBody

(* A program that ends takes no key along but the answer it has. *)
LEMMA KeyEnds ==
    ASSUME Shape, KeyBody, NEW p \in Procs, Ends(p), variant' = variant,
           file' = file, shmOf' = shmOf, semOf' = semOf, word' = word, given' = given,
           last' = last, lost \/ proc[p].pc = "answered" => lost'
    PROVE  KeyBody'
<1>1. PICK V : proc \in [Procs -> Record(V)]
  BY DEF Shape
<1>2. proc'[p] = Done /\ \A q \in Procs \ {p} : proc'[q] = proc[q]
  BY <1>1 DEF Ends, Record
<1>3. KeyOpen(p)'
  BY <1>2 DEF KeyOpen, Done, New, Attached, HasSem
<1> QED BY <1>2, <1>3, KeyMove

(* open(), ftok() and shmget(): the first program finds nothing, and 0.    *)
LEMMA KeyStart ==
    ASSUME LockInv, Kept, KeyBody, Kept', NEW p \in Procs, Open(p) \/ Attach(p)
    PROVE  KeyBody'
<1>1. PICK V : proc \in [Procs -> Record(V)]
  BY DEF LockInv, Shape
<1>2. \A q \in Procs \ {p} : proc'[q] = proc[q]
  BY <1>1 DEF Open, Attach, Record, Goes
<1>3. variant' = variant /\ variant \in Files \cup Segments
  BY KeptLocks, VariantStays DEF Step
<1>6. last' = last /\ lost' = lost /\ proc[p].pc # "answered" /\ (Pending => Pending')
  <2>1. last' = last /\ lost' = lost /\ proc[p].pc # "answered"
    BY DEF Open, Attach
  <2> QED BY <1>2, <2>1, PendingStays
<1>4. CASE Open(p)
  <2>1. proc[p] = New /\ file' \in Objs /\ (file # None => file' = file)
    BY <1>3, <1>4, FileStep DEF Open, LockInv, NothingYet, Step, Files, Segments
  <2>2. /\ word' = IF file = None /\ variant \in Files THEN [word EXCEPT ![file'] = 0] ELSE word
        /\ shmOf' = shmOf /\ semOf' = semOf /\ given' = given
    BY <1>3, <1>4 DEF Open, Files, Segments
  <2>3. KeyTables'
    <3>1. CASE file # None
      <4>1. file' = file /\ word' = word /\ Cell' = Cell
        BY <2>1, <2>2, <1>3, <3>1 DEF Cell
      <4> QED BY <1>3, <1>6, <2>2, <4>1 DEF KeyBody, KeyTables
    <3>2. CASE file = None
      <4>1. given = 0
        BY <3>2 DEF KeyBody, KeyTables, Cell
      <4>2. CASE variant \in Files
        <5>1. Cell' = file' /\ variant \notin Segments
          BY <1>3, <2>1, <4>2 DEF Cell, Objs, None, Files, Segments
        <5>2. word' \in [Objs -> Nat] /\ word'[file'] = 0
          BY <2>1, <2>2, <3>2, <4>2 DEF KeyBody, KeyTables
        <5> QED BY <1>3, <2>2, <4>1, <5>1, <5>2 DEF KeyBody, KeyTables, Segments
      <4>3. CASE variant \in Segments
        <5>1. \A i \in Objs : shmOf[i] = None
          BY <3>2, <4>3 DEF KeyBody, KeyTables, Objs, None
        <5>2. Cell' = None /\ word' = word
          BY <1>3, <2>1, <2>2, <4>3, <5>1 DEF Cell, Files, Segments, Objs, None
        <5> QED BY <1>3, <2>2, <4>1, <5>1, <5>2 DEF KeyBody, KeyTables
      <4> QED BY <1>3, <4>2, <4>3
    <3> QED BY <3>1, <3>2
  <2>4. /\ proc'[p].pc \in {"asking", "opened"}
        /\ proc'[p].pc = "asking" => variant \in Files
        /\ proc'[p].shm = None
    BY <1>1, <1>3, <1>4, <2>1 DEF Open, Record, New, Files, Segments
  <2>5. KeyOpen(p)'
    BY <1>3, <2>4 DEF KeyOpen, Files, Segments, Attached, HasSem
  <2>6. ASSUME NEW q \in Procs \ {p} PROVE KeyOpen(q)'
    <3>1. variant \in Segments /\ proc[q].pc \in Attached => file' = file
      <4>1. CASE variant = "shm"
        BY <2>1, <4>1, KeptLocks DEF FileOpen, HasFile, Attached, HasSem
      <4>2. CASE variant = "sem"
        BY <2>1, <4>2, KeptLocks DEF SemBody, SemOpen
      <4> QED BY <4>1, <4>2 DEF Segments
    <3>2. Cell # None => Cell' = Cell /\ word' = word
      BY <1>3, <2>1, <2>2 DEF Cell
    <3> QED BY <1>2, <1>3, <2>2, <3>1, <3>2 DEF KeyBody, KeyOpen
  <2> QED BY <2>3, <2>5, <2>6 DEF KeyBody
<1>5. CASE Attach(p)
  <2>1. proc[p].pc = "opened" /\ file' = file /\ semOf' = semOf /\ given' = given
    BY <1>5 DEF Attach
  <2>2. variant \in Segments /\ proc[p].shm = None
    <3>1. variant \notin Files
      BY <2>1, KeptLocks DEF FileOpen, Files
    <3> QED BY <1>3, <2>1, <3>1 DEF KeyBody, KeyOpen, Attached, HasSem
  <2>3. CASE file = None
    <3>1. proc'[p] = Done /\ shmOf' = shmOf /\ word' = word
      BY <1>1, <1>5, <2>3 DEF Attach
    <3>2. KeyOpen(p)'
      BY <3>1 DEF KeyOpen, Done, New, Attached, HasSem
    <3> QED BY <1>2, <1>3, <1>6, <2>1, <3>1, <3>2, KeyMove
  <2>4. CASE file # None
    <3> DEFINE users == {proc[q].shm : q \in Procs}
               s == Named(shmOf, file, users)
    <3>1. file \in Objs
      BY <2>4 DEF LockInv
    <3>2. CASE shmOf[file] # None
      <4>1. s = shmOf[file]
        BY <3>2 DEF Named
      <4>2. shmOf' = shmOf /\ word' = word
        BY <1>5, <2>4, <3>1, <3>2, <4>1 DEF Attach, KeyBody, KeyTables
      <4>3. proc'[p].shm = shmOf[file] /\ proc'[p].pc \in {"asking", "attached"}
        BY <1>1, <1>5, <2>4, <4>1 DEF Attach, Record
      <4>4. KeyOpen(p)'
        BY <2>1, <3>2, <4>2, <4>3 DEF KeyOpen, Attached, HasSem
      <4> QED BY <1>2, <1>3, <1>6, <2>1, <4>2, <4>4, KeyMove
    <3>3. CASE shmOf[file] = None
      <4>1. \A i \in Objs : shmOf[i] = None
        BY <2>2, <3>3 DEF KeyBody, KeyTables
      <4>2. s \in Objs
        <5>1. s = Lowest(Objs \ ({shmOf[o] : o \in Objs} \cup users))
          BY <3>3 DEF Named
        <5>2. {shmOf[o] : o \in Objs} = {None}
          BY <3>1, <4>1
        <5>3. Objs \ ({None} \cup users) = Objs \ users
          BY DEF Objs, None
        <5> DEFINE f == [q \in Procs |-> proc[q].shm]
        <5>4. f = [q \in Procs |-> f[q]] /\ {f[q] : q \in Procs} = users /\ f[p] = None
          BY <2>2
        <5> HIDE DEF f, users
        <5>5. Lowest(Objs \ users) \in Objs
          BY <5>4, Fresh
        <5> QED BY <5>1, <5>2, <5>3, <5>5
      <4>3. /\ shmOf' = [shmOf EXCEPT ![file] = s]
            /\ word' = [word EXCEPT ![s] = 0]
            /\ proc'[p].shm = s /\ proc'[p].pc \in {"asking", "attached"}
        BY <1>1, <1>5, <2>4, <3>3 DEF Attach, Record
      <4>4. given = 0
        BY <2>2, <3>3 DEF KeyBody, KeyTables, Cell, Segments, Files
      <4> HIDE DEF s, users
      <4>5. shmOf' \in [Objs -> Objs \cup {None}] /\ shmOf'[file] = s /\ s # None
        BY <3>1, <4>2, <4>3 DEF KeyBody, KeyTables, Objs, None
      <4>6. Cell' = s
        BY <1>3, <2>1, <2>2, <2>4, <4>5 DEF Cell, Files, Segments
      <4>7. KeyTables'
        <5>1. word' \in [Objs -> Nat] /\ word'[s] = 0
          BY <4>2, <4>3 DEF KeyBody, KeyTables
        <5>2. \A i \in Objs : i # file => shmOf'[i] = None
          BY <4>1, <4>3
        <5> QED BY <1>3, <2>1, <4>4, <4>5, <4>6, <5>1, <5>2 DEF KeyBody, KeyTables
      <4>8. KeyOpen(p)'
        BY <2>1, <4>3, <4>5 DEF KeyOpen, Attached, HasSem
      <4>9. ASSUME NEW q \in Procs \ {p} PROVE KeyOpen(q)'
        <5>1. proc[q].pc \notin Attached
          BY <2>2, <3>3 DEF KeyBody, KeyOpen
        <5>2. proc[q].pc \notin {"waiting", "answered", "setval", "setkey"}
          BY <5>1 DEF Attached, HasSem
        <5> QED BY <1>2, <1>3, <2>1, <5>1, <5>2 DEF KeyBody, KeyOpen
      <4> QED BY <4>7, <4>8, <4>9 DEF KeyBody
    <3> QED BY <3>2, <3>3
  <2> QED BY <2>3, <2>4
<1> QED BY <1>4, <1>5

(* The semaphores before their first value: there has been no answer.      *)
LEMMA KeyFirst ==
    ASSUME LockInv, Kept, KeyBody, Kept',
           NEW p \in Procs, SemGet(p) \/ SemCreate(p) \/ SemSet(p) \/ SetShare(p) \/ Count(p)
    PROVE  KeyBody'
<1>1. PICK V : proc \in [Procs -> Record(V)]
  BY DEF LockInv, Shape
<1>2. variant = "sem" /\ variant' = "sem" /\ SemBody /\ SemOpen(p)
  <2>1. proc[p].pc \in {"attached", "create", "setval", "setkey", "count"}
    BY DEF SemGet, SemCreate, SemSet, SetShare, Count
  <2>2. variant = "sem"
    BY <2>1, KeptLocks DEF FileOpen, HasFile
  <2> QED BY <2>2, KeptLocks, VariantStays DEF SemBody, Step
<1>3. proc[p].pc \in Attached /\ file' = file /\ shmOf' = shmOf /\ given' = given
  BY DEF SemGet, SemCreate, SemSet, SetShare, Count, Attached, HasSem
<1>9. last' = last /\ lost' = lost /\ proc[p].pc # "answered"
  BY DEF SemGet, SemCreate, SemSet, SetShare, Count
<1>4. KeyOpen(p) /\ proc[p].ipc = file /\ file \in Objs
  BY <1>2, <1>3 DEF KeyBody, SemOpen, LockInv
<1>5. CASE SemGet(p) \/ Count(p)
  <2>1. word' = word /\ semOf' = semOf
    BY <1>5 DEF SemGet, Count
  <2>2. \A q \in Procs \ {p} : proc'[q] = proc[q]
    BY <1>1, <1>5 DEF SemGet, Count, Goes, Record
  <2>3. \/ proc'[p].shm = proc[p].shm /\ proc'[p].pc \in {"create", "count", "asking"}
        \/ proc'[p] = Done
    BY <1>1, <1>5 DEF SemGet, Count, Goes, Record
  <2>4. KeyOpen(p)'
    BY <1>2, <1>3, <1>4, <2>3 DEF KeyOpen, Attached, HasSem, Done, New
  <2> QED BY <1>2, <1>3, <1>9, <2>1, <2>2, <2>4, KeyMove
<1>6. CASE SemCreate(p)
  <2>1. word' = word /\ proc[p].pc = "create"
    BY <1>6 DEF SemCreate
  <2>2. semOf[file] = None
    BY <1>4, <1>2, <1>6 DEF SemCreate, Kept, Apart
  <2>3. given = 0
    BY <1>2, <1>4, <2>2 DEF KeyBody, KeyTables, Objs, None
  <2>4. /\ \A q \in Procs \ {p} : proc'[q] = proc[q]
        /\ proc'[p].shm = proc[p].shm /\ proc'[p].pc = "setval"
    <3>1. PICK s : proc' = [proc EXCEPT ![p].pc = "setval", ![p].sem = s]
      BY <1>6 DEF SemCreate
    <3> QED BY <1>1, <3>1 DEF Record
  <2>5. KeyOpen(p)'
    BY <1>2, <1>3, <1>4, <2>3, <2>4 DEF KeyOpen, Attached, HasSem
  <2>6. ASSUME NEW q \in Procs \ {p} PROVE KeyOpen(q)'
    <3>1. Cell' = Cell
      BY <1>2, <1>3 DEF Cell
    <3> QED BY <1>2, <1>3, <2>1, <2>4, <3>1 DEF KeyBody, KeyOpen
  <2>7. KeyTables'
    <3>1. Cell' = Cell
      BY <1>2, <1>3 DEF Cell
    <3> QED BY <1>2, <1>3, <1>9, <2>1, <2>3, <2>4, <3>1, PendingStays DEF KeyBody, KeyTables
  <2> QED BY <2>5, <2>6, <2>7 DEF KeyBody
<1>7. CASE SemSet(p)
  <2>1. /\ proc[p].pc = "setval" /\ Exists(p) /\ word' = word /\ semOf' = semOf
    BY <1>2, <1>7, SemExists DEF SemSet, HasSem, SemBody, LockInv
  <2>2. \A q \in Procs \ {p} : proc[q].sem # proc[p].sem
    BY <1>2, <2>1 DEF SemOpen, HasSem, Objs, None
  <2>3. /\ \A q \in Procs \ {p} : proc'[q] = proc[q]
        /\ proc'[p] = [proc[p] EXCEPT !.pc = "setkey"]
    BY <1>7, <2>1, <2>2 DEF SemSet
  <2>4. KeyOpen(p)'
    BY <1>1, <1>2, <1>3, <1>4, <2>1, <2>3 DEF KeyOpen, Attached, HasSem, Record
  <2> QED BY <1>2, <1>3, <1>9, <2>1, <2>3, <2>4, KeyMove
<1>8. CASE SetShare(p)
  <2>1. proc[p].pc = "setkey" /\ semOf' = semOf /\ given = 0
    BY <1>4, <1>8 DEF SetShare, KeyOpen
  <2>2. Place(p) = Cell /\ Cell \in Objs /\ word' = [word EXCEPT ![Cell] = 0]
    BY <1>2, <1>8, <2>1, KeyPlace DEF SetShare, Stored
  <2>3. /\ \A q \in Procs \ {p} : proc'[q] = proc[q]
        /\ proc'[p].shm = proc[p].shm /\ proc'[p].pc = "count"
    BY <1>1, <1>8 DEF SetShare, Goes, Record
  <2>4. KeyOpen(p)'
    BY <1>2, <1>3, <1>4, <2>3 DEF KeyOpen, Attached, HasSem
  <2>5. ASSUME NEW q \in Procs \ {p} PROVE KeyOpen(q)'
    <3>1. proc[q].pc # "waiting"
      BY <1>2, <2>1 DEF SemBody, SemOpen, HasSem, Objs, None
    <3> QED BY <1>2, <1>3, <2>3, <3>1 DEF KeyBody, KeyOpen
  <2>6. KeyTables'
    <3>1. Cell' = Cell
      BY <1>2, <1>3 DEF Cell
    <3>2. word' \in [Objs -> Nat] /\ word'[Cell] = 0
      BY <2>2 DEF KeyBody, KeyTables
    <3> QED BY <1>2, <1>3, <2>1, <3>1, <3>2 DEF KeyBody, KeyTables
  <2> QED BY <2>4, <2>5, <2>6 DEF KeyBody
<1> QED BY <1>5, <1>6, <1>7, <1>8

(* client_get_key() reads the word, client_set_key() writes it, and nobody *)
(* else is between the two.                                                *)
LEMMA KeyUse ==
    ASSUME LockInv, Kept, KeyBody, Kept',
           NEW p \in Procs, Acquire(p) \/ AcquireFails(p) \/ Give(p) \/ Store(p) \/ Leave(p) \/ Kill(p) \/ Destroy(p)
    PROVE  KeyBody'
<1>1. PICK V : proc \in [Procs -> Record(V)]
  BY DEF LockInv, Shape
<1>2. variant' = variant /\ variant \in Files \cup Segments /\ KeyOpen(p)
  BY KeptLocks, VariantStays DEF Step, KeyBody
<1>3. CASE Acquire(p)
  <2>1. /\ proc[p].pc = "asking" /\ variant # "none"
        /\ file' = file /\ shmOf' = shmOf /\ semOf' = semOf /\ word' = word /\ given' = given
        /\ last' = last /\ lost' = lost
    BY <1>2, <1>3 DEF Acquire, Holds, Files, Segments
  <2> DEFINE u == IF variant = "sem" THEN proc[p].undo + 1 ELSE proc[p].undo
             r == [proc[p] EXCEPT !.pc = "waiting", !.key = word[Place(p)], !.undo = u]
  <2>2. proc' = [proc EXCEPT ![p] = r]
    BY <1>1, <1>3, <2>1 DEF Acquire, Holds, Record
  <2>3. r.pc = "waiting" /\ r.shm = proc[p].shm /\ r.key = word[Place(p)]
    <3> HIDE DEF u
    <3> QED BY <1>1 DEF Record
  <2> HIDE DEF r
  <2>4. proc'[p] = r /\ \A q \in Procs \ {p} : proc'[q] = proc[q]
    BY <1>1, <2>2
  <2>5. KeyOpen(p)'
    <3>1. Place(p) = Cell /\ Cell # None /\ Cell' = Cell
      BY <2>1, <1>2, KeyPlace DEF Cell, Objs, None
    <3> QED BY <1>2, <2>1, <2>3, <2>4, <3>1 DEF KeyOpen, Attached, HasSem
  <2> QED BY <1>2, <2>1, <2>4, <2>5, KeyMove
<1>4. CASE AcquireFails(p)
  BY <1>4, KeptLocks, SemExists DEF AcquireFails, SemBody, HasSem, LockInv
<1>8. ASSUME proc[p].pc \in Holding, NEW q \in Procs \ {p}
      PROVE  proc[q].pc \notin Holding \cup {"setval", "setkey"}
  <2>1. proc[q].pc \notin Holding
    BY <1>8, KeptLocks DEF Alone, Holders
  <2>2. CASE variant = "sem"
    BY <1>8, <2>1, <2>2, KeptLocks DEF SemBody, SemOpen, HasSem, Holding, Objs, None
  <2>3. CASE variant # "sem"
    BY <2>1, <2>3, KeptLocks DEF FileOpen, HasFile
  <2> QED BY <2>2, <2>3
<1>9. ASSUME proc[p].pc \in Holding
      PROVE  /\ Place(p) = Cell /\ Cell \in Objs /\ Cell # None
             /\ variant = "sem" => semOf[file] # None
  BY <1>9, KeyPlace, KeptLocks DEF Holding, Objs, None, SemBody, SemOpen, HasSem
<1>5. CASE Give(p)
  <2>1. /\ proc[p].pc = "waiting" /\ proc[p].pc \in Holding
        /\ file' = file /\ shmOf' = shmOf /\ semOf' = semOf /\ word' = word
        /\ given' \in {given, given + 1} /\ last' \in {NoKey, proc[p].key} /\ proc[p].key = word[Cell]
    BY <1>2, <1>5 DEF Give, Holding, KeyOpen
  <2>2. /\ \A q \in Procs \ {p} : proc'[q] = proc[q]
        /\ proc'[p].shm = proc[p].shm /\ proc'[p].pc = "answered" /\ proc'[p].key = given'
    BY <1>1, <1>5 DEF Give, Record
  <2>3. Cell' = Cell
    BY <1>2, <2>1 DEF Cell
  <2>4. KeyTables'
    <3>1. given' \in Nat
      BY <2>1 DEF KeyBody, KeyTables
    <3>2. Pending'
      BY <2>2 DEF Pending
    <3> QED BY <1>2, <1>9, <2>1, <2>3, <3>1, <3>2 DEF KeyBody, KeyTables
  <2>5. KeyOpen(p)'
    BY <1>2, <2>1, <2>2 DEF KeyOpen, Attached, HasSem
  <2>6. ASSUME NEW q \in Procs \ {p} PROVE KeyOpen(q)'
    <3>1. proc[q].pc \notin {"waiting", "answered", "setval", "setkey"}
      BY <1>8, <2>1 DEF Holding
    <3> QED BY <1>2, <2>1, <2>2, <3>1 DEF KeyBody, KeyOpen
  <2> QED BY <2>4, <2>5, <2>6 DEF KeyBody
<1>10. CASE Store(p)
  <2>1. /\ proc[p].pc = "answered" /\ proc[p].pc \in Holding /\ proc[p].key = given
        /\ file' = file /\ shmOf' = shmOf /\ semOf' = semOf /\ given' = given
    BY <1>2, <1>10 DEF Store, Holding, KeyOpen
  <2>2. word' = [word EXCEPT ![Cell] = given]
    BY <1>2, <1>9, <1>10, <2>1 DEF Store, Stored, Files, Segments
  <2>3. Cell' = Cell
    BY <1>2, <2>1 DEF Cell
  <2>4. KeyTables'
    <3>1. word' \in [Objs -> Nat] /\ word'[Cell] = given
      BY <1>9, <2>1, <2>2 DEF KeyBody, KeyTables
    <3> QED BY <1>2, <1>9, <2>1, <2>3, <3>1 DEF KeyBody, KeyTables
  <2>5. /\ \A q \in Procs \ {p} : proc'[q] = proc[q]
        /\ \/ proc'[p] = Done
           \/ proc'[p].shm = proc[p].shm /\ proc'[p].pc \in {"bye", "asking"}
    BY <1>1, <1>10 DEF Store, Ends, Record
  <2>6. KeyOpen(p)'
    BY <1>2, <2>1, <2>5 DEF KeyOpen, Done, New, Attached, HasSem
  <2>7. ASSUME NEW q \in Procs \ {p} PROVE KeyOpen(q)'
    <3>1. proc[q].pc \notin {"waiting", "answered", "setval", "setkey"}
      BY <1>8, <2>1 DEF Holding
    <3> QED BY <1>2, <2>1, <2>5, <3>1 DEF KeyBody, KeyOpen
  <2> QED BY <2>4, <2>6, <2>7 DEF KeyBody
<1>6. CASE Leave(p) \/ Kill(p)
  BY <1>2, <1>6, KeyEnds DEF Leave, Kill, Gone, LockInv
<1>7. CASE Destroy(p)
  <2>1. /\ proc[p].pc = "bye" /\ variant \notin {"flock", "shm"}
        /\ file' = file /\ shmOf' = shmOf /\ semOf' = semOf /\ word' = word /\ given' = given
        /\ last' = last /\ lost' = lost
    BY <1>7 DEF Destroy, Kept
  <2>2. CASE Ends(p)
    BY <1>2, <2>1, <2>2, KeyEnds DEF LockInv
  <2>3. CASE ~Ends(p)
    <3>1. proc' = [proc EXCEPT ![p].pc = "rmsem"]
      BY <1>7, <2>3 DEF Destroy, Goes
    <3>2. /\ \A q \in Procs \ {p} : proc'[q] = proc[q]
          /\ proc'[p].shm = proc[p].shm /\ proc'[p].pc = "rmsem"
      BY <1>1, <3>1 DEF Record
    <3>3. KeyOpen(p)'
      BY <1>2, <2>1, <3>2 DEF KeyOpen, Attached, HasSem
    <3> QED BY <1>2, <2>1, <3>2, <3>3, KeyMove
  <2> QED BY <2>2, <2>3
<1> QED BY <1>3, <1>4, <1>5, <1>6, <1>7, <1>10
-----------------------------------------------------------------------------
LEMMA KeyInit == Init => KeyInv
<1> SUFFICES ASSUME Init PROVE KeyBody
  BY DEF KeyInv
<1>1. KeyTables
  BY DEF Init, KeyTables, Cell
<1>2. \A q \in Procs : KeyOpen(q)
  BY DEF Init, KeyOpen, New, Attached, HasSem
<1> QED BY <1>1, <1>2 DEF KeyBody

LEMMA KeyNext == LockInv /\ KeyInv /\ [Next]_vars => KeyInv'
<1> SUFFICES ASSUME LockInv, KeyInv, [Next]_vars, Kept' PROVE KeyBody'
  BY DEF KeyInv
<1>1. ASSUME NEW p \in Procs, Step(p) \/ Leave(p) \/ Kill(p) PROVE KeyBody'
  <2>1. Kept /\ ~removed'
    BY <1>1, VariantStays DEF Kept, Apart
  <2>2. KeyBody
    BY <2>1 DEF KeyInv
  <2>3. ~RemoveSem(p) /\ ~RemoveShm(p) /\ ~Unlink(p)
    <3>1. proc[p].pc \notin {"rmshm", "unlink"}
      <4>1. CASE variant = "sem"
        BY <2>1, <4>1, KeptLocks DEF SemBody, SemOpen, Attached, HasSem
      <4>2. CASE variant # "sem"
        BY <2>1, <4>2, KeptLocks DEF FileOpen, HasFile
      <4> QED BY <4>1, <4>2
    <3> QED BY <2>1, <3>1 DEF RemoveSem, RemoveShm, Unlink
  <2> QED BY <1>1, <2>1, <2>2, <2>3, KeyStart, KeyFirst, KeyUse DEF Step
<1>2. CASE UNCHANGED vars
  <2>1. Kept
    BY <1>2 DEF vars, Kept, Apart
  <2>2. Cell' = Cell
    BY <1>2 DEF vars, Cell
  <2> QED BY <1>2, <2>1, <2>2 DEF vars, KeyInv, KeyBody, KeyTables, KeyOpen, Pending
<1> QED BY <1>1, <1>2 DEF Next

THEOREM KeyInvariant == Spec => []KeyInv
<1>1. Init => KeyInv BY KeyInit
<1>2. LockInv /\ KeyInv /\ [Next]_vars => KeyInv' BY KeyNext
<1> QED BY <1>1, <1>2, LockInvariant, PTL DEF Spec

(* client_get_key() and client_set_key(): whichever program of the host    *)
(* the last answer went to, the next request carries the key of that       *)
(* answer, as long as no fbye has removed the key and no semaphore was met *)
(* that has no value yet.  If that program was killed, or gave up, before  *)
(* it stored the key, the next request carries the key of its request, by  *)
(* which the server knows what it has answered (unless that was CC_BYE).   *)
THEOREM LastKeyInRequest == Spec => []LastKeyUsed
<1>1. LockInv /\ KeyInv => LastKeyUsed
  <2> SUFFICES ASSUME LockInv, KeyInv, Kept, NEW p \in Procs, proc[p].pc = "waiting"
               PROVE  proc[p].key = given \/ (lost /\ last \in {proc[p].key, NoKey})
    BY DEF LastKeyUsed, Kept
  <2>1. Cell # None /\ proc[p].key = word[Cell] /\ KeyTables
    BY DEF KeyInv, KeyBody, KeyOpen
  <2>2. \A q \in Procs : proc[q].pc # "answered"
    BY KeptLocks DEF Alone, Holders, Holding
  <2> QED BY <2>1, <2>2 DEF KeyTables, Pending
<1> QED BY <1>1, LockInvariant, KeyInvariant, PTL
-----------------------------------------------------------------------------
(***************************************************************************)
(* The types.  Two bounds are about all programs: the counter of a set of  *)
(* semaphores is the number of programs it counts, and what the lock is    *)
(* above 1 was given back by programs that did not take it.                *)
(***************************************************************************)
Places == {"new", "opened", "attached", "create", "setval", "setkey", "count",
           "asking", "waiting", "answered", "bye", "rmsem", "rmshm", "unlink", "done"}
Programs == [pc : Places, fd : Objs \cup {None}, ipc : Objs \cup {None}, shm : Objs \cup {None},
             sem : Objs \cup {None}, key : 0..MaxKeys, undo : -1..1, counted : 0..1]

Tables == /\ variant \in Variants
          /\ file \in Objs \cup {None}
          /\ shmOf \in [Objs -> Objs \cup {None}] /\ semOf \in [Objs -> Objs \cup {None}]
          /\ word \in [Objs -> 0..MaxKeys] /\ given \in 0..MaxKeys
          /\ last \in -1..MaxKeys /\ lost \in BOOLEAN
          /\ val \in [Objs -> Nat] /\ uses \in [Objs -> Int]
          /\ proc \in [Procs -> Programs]

(* Where the segment and the semaphores are used, one inode is enough: the *)
(* file is removed by the last program only, and its number used again.    *)
OneInode == variant \in Segments =>
                /\ file \in {None, 1}
                /\ \A i \in Objs : i # 1 => shmOf[i] = None /\ semOf[i] = None

(* What a program has where. *)
Bare == {"new", "opened"}
Early == Bare \cup {"attached", "create", "setval", "setkey", "count"}
OnlySem == {"attached", "create", "setval", "setkey", "count", "rmsem", "rmshm", "unlink"}
Stands(q) ==
    /\ proc[q].pc \in Bare => proc[q].shm = None
    /\ proc[q].pc \in Bare \cup {"attached", "create", "done"} => proc[q].sem = None
    /\ proc[q].pc \in Early \cup {"done"} => proc[q].undo = 0 /\ proc[q].counted = 0
    /\ proc[q].undo \in IF proc[q].pc \in Holding THEN {0, 1} ELSE {-1, 0}
    /\ proc[q].pc = "opened" => variant \in Segments
    /\ variant # "sem" => proc[q].sem = None /\ proc[q].undo = 0 /\ proc[q].pc \notin OnlySem
    /\ variant = "sem" /\ proc[q].pc \notin Bare \cup {"attached", "create", "done"} => proc[q].sem \in Objs
    /\ variant \in Files /\ proc[q].pc \in {"asking", "waiting", "answered", "bye"} => proc[q].fd \in Objs
    /\ variant \in Segments /\ proc[q].pc \notin Bare \cup {"done"} => proc[q].ipc = 1 /\ proc[q].shm \in Objs
    /\ variant = "sem" \/ (variant = "shm" /\ file = None) => proc[q].fd = None

PlaceInv == Tables /\ OneInode /\ \A q \in Procs : Stands(q)

(* The programs a set of semaphores counts; those that have its lock; and  *)
(* those that gave it back without, or are gone.                           *)
Counted(s) == {q \in Procs : proc[q].sem = s /\ proc[q].counted = 1}
Owing(s) == {q \in Procs : proc[q].sem = s /\ proc[q].undo = 1}
Owed(s) == {q \in Procs : proc[q].pc = "done" \/ (proc[q].sem = s /\ proc[q].undo = -1)}

CountAt(s) ==
    /\ uses[s] \in 0..Cardinality(Procs)
    /\ (\E i \in Objs : semOf[i] = s) => uses[s] = Cardinality(Counted(s))
ValAt(s) == val[s] + Cardinality(Owing(s)) <= 1 + Cardinality(Owed(s))

(* Semaphores being removed do not come back.                              *)
Removed(q) == proc[q].pc \in {"rmshm", "unlink"} => ~Exists(q)

TypeInv == /\ PlaceInv
           /\ \A q \in Procs : Removed(q)
           /\ \A s \in Objs : CountAt(s) /\ ValAt(s)
-----------------------------------------------------------------------------
LEMMA OneIsLowest == ASSUME NEW p \in Procs PROVE 1 \in Objs /\ Lowest(Objs \ {None}) = 1
<1>1. Cardinality(Procs) \in Nat /\ Cardinality(Procs) # 0
  BY FS_CardinalityType, FS_EmptySet, KeyLockAssumption
<1>2. Objs \ {None} = Objs /\ 1 \in Objs /\ \A r \in Objs : 1 <= r /\ r \in Nat
  BY <1>1 DEF Objs, None
<1>3. Lowest(Objs) = 1
  <2>1. \A o \in Objs : (\A r \in Objs : o <= r) <=> o = 1
    BY <1>2
  <2> QED BY <1>2, <2>1 DEF Lowest
<1> QED BY <1>2, <1>3

(* What ftok() makes of the one inode is a segment or semaphores: those    *)
(* there are, or new ones nobody has.                                      *)
LEMMA NamedIn ==
    ASSUME NEW table \in [Objs -> Objs \cup {None}], \A i \in Objs : i # 1 => table[i] = None, 1 \in Objs,
           NEW f, f = [q \in Procs |-> f[q]], NEW p \in Procs, f[p] = None
    PROVE  LET s == Named(table, 1, {f[q] : q \in Procs})
           IN  /\ s \in Objs
               /\ table[1] # None => s = table[1]
               /\ table[1] = None => \A q \in Procs : f[q] # s
<1> DEFINE users == {f[q] : q \in Procs}
           s == Named(table, 1, users)
<1>1. CASE table[1] # None
  BY <1>1 DEF Named
<1>2. CASE table[1] = None
  <2>1. {table[o] : o \in Objs} = {None}
    BY <1>2
  <2>2. {None} \cup users = users
    BY DEF users
  <2>3. s = Lowest(Objs \ users)
    BY <1>2, <2>1, <2>2 DEF Named
  <2>4. Lowest(Objs \ users) \in Objs \ users
    BY Fresh
  <2> QED BY <1>2, <2>3, <2>4
<1> QED BY <1>1, <1>2

(* A step that moves p only. *)
LEMMA PlaceMove ==
    ASSUME PlaceInv, NEW p \in Procs, NEW r \in Programs, proc' = [proc EXCEPT ![p] = r],
           variant' = variant, file' \in Objs \cup {None}, variant = "shm" /\ file' = None => file = None,
           word' \in [Objs -> 0..MaxKeys], given' \in 0..MaxKeys, last' \in -1..MaxKeys, lost' \in BOOLEAN,
           val' \in [Objs -> Nat], uses' \in [Objs -> Int],
           shmOf' \in [Objs -> Objs \cup {None}], semOf' \in [Objs -> Objs \cup {None}],
           OneInode', Stands(p)'
    PROVE  PlaceInv'
<1>1. Tables'
  BY DEF PlaceInv, Tables
<1>2. ASSUME NEW q \in Procs, q # p PROVE Stands(q)'
  <2>1. proc'[q] = proc[q]
    BY <1>2 DEF PlaceInv, Tables
  <2> QED BY <2>1 DEF PlaceInv, Stands
<1> QED BY <1>1, <1>2 DEF PlaceInv

LEMMA DoneHere == Done \in Programs /\ Done.pc = "done" /\ Done.sem = None /\ Done.undo = 0
                     /\ Done.counted = 0 /\ Done.fd = None /\ Done.shm = None
<1>1. 0 \in 0..MaxKeys
  BY KeyLockAssumption
<1> QED BY <1>1 DEF Done, New, Programs, Places

(* One that ends p. *)
LEMMA PlaceEnds ==
    ASSUME PlaceInv, NEW p \in Procs, proc' = [proc EXCEPT ![p] = Done],
           variant' = variant, file' \in Objs \cup {None}, variant = "shm" /\ file' = None => file = None,
           word' \in [Objs -> 0..MaxKeys], given' \in 0..MaxKeys, last' \in -1..MaxKeys, lost' \in BOOLEAN,
           val' \in [Objs -> Nat], uses' \in [Objs -> Int],
           shmOf' \in [Objs -> Objs \cup {None}], semOf' \in [Objs -> Objs \cup {None}],
           OneInode'
    PROVE  PlaceInv'
<1>1. proc'[p] = Done
  BY DEF PlaceInv, Tables
<1>2. Stands(p)'
  BY <1>1, DoneHere DEF Stands, Bare, Early, OnlySem, Files, Segments, Holding
<1> QED BY <1>2, DoneHere, PlaceMove

LEMMA EndsTyped ==
    ASSUME PlaceInv, NEW p \in Procs, Ends(p)
    PROVE  /\ proc' = [proc EXCEPT ![p] = Done]
           /\ val' \in [Objs -> Nat] /\ uses' \in [Objs -> Int]
<1>1. proc[p] \in Programs /\ val \in [Objs -> Nat] /\ uses \in [Objs -> Int]
  BY DEF PlaceInv, Tables
<1>2. proc[p].sem \in Objs \cup {None} /\ proc[p].undo \in Int /\ proc[p].counted \in Int
  BY <1>1 DEF Programs
<1>3. CASE proc[p].sem # None /\ Exists(p)
  <2>1. proc[p].sem \in Objs
    BY <1>2, <1>3
  <2> DEFINE v == IF val[proc[p].sem] + proc[p].undo < 0 THEN 0 ELSE val[proc[p].sem] + proc[p].undo
             u == uses[proc[p].sem] - proc[p].counted
  <2>2. v \in Nat /\ u \in Int
    BY <1>1, <1>2, <2>1
  <2>3. val' = [val EXCEPT ![proc[p].sem] = v] /\ uses' = [uses EXCEPT ![proc[p].sem] = u]
    BY <1>1, <1>3, <2>1 DEF Ends
  <2> HIDE DEF v, u
  <2> QED BY <1>1, <2>2, <2>3 DEF Ends
<1>4. CASE ~(proc[p].sem # None /\ Exists(p))
  BY <1>1, <1>4 DEF Ends
<1> QED BY <1>3, <1>4

(* semget(IPC_CREAT): the semaphores there are, or new ones.               *)
LEMMA SemCreated ==
    ASSUME PlaceInv, NEW p \in Procs, SemCreate(p)
    PROVE  \E s \in Objs :
             /\ proc' = [proc EXCEPT ![p].pc = "setval", ![p].sem = s]
             /\ semOf' = [semOf EXCEPT ![1] = s]
             /\ \/ semOf[1] = s /\ val' = val /\ uses' = uses
                \/ /\ semOf[1] = None /\ \A q \in Procs : proc[q].sem # s
                   /\ val' = [val EXCEPT ![s] = 0] /\ uses' = [uses EXCEPT ![s] = 0]
<1>1. Tables /\ OneInode /\ Stands(p) /\ proc[p].pc = "create" /\ 1 \in Objs
  BY OneIsLowest DEF PlaceInv, SemCreate
<1>2. variant = "sem" /\ proc[p].ipc = 1 /\ proc[p].sem = None
  BY <1>1 DEF Stands, OnlySem, Bare, Segments
<1> DEFINE f == [q \in Procs |-> proc[q].sem]
           s == Named(semOf, 1, {proc[q].sem : q \in Procs})
<1>3. /\ s \in Objs
      /\ semOf[1] # None => s = semOf[1]
      /\ semOf[1] = None => \A q \in Procs : proc[q].sem # s
  <2>1. /\ f[p] = None /\ {f[q] : q \in Procs} = {proc[q].sem : q \in Procs} /\ f = [q \in Procs |-> f[q]]
        /\ \A q \in Procs : f[q] = proc[q].sem
    BY <1>2
  <2> HIDE DEF f
  <2>2. LET t == Named(semOf, 1, {f[q] : q \in Procs})
        IN  /\ t \in Objs
            /\ semOf[1] # None => t = semOf[1]
            /\ semOf[1] = None => \A q \in Procs : f[q] # t
    BY <1>1, <1>2, <2>1, NamedIn DEF Tables, OneInode, Segments
  <2> QED BY <2>1, <2>2
<1>4. /\ proc' = [proc EXCEPT ![p].pc = "setval", ![p].sem = s]
      /\ semOf' = [semOf EXCEPT ![1] = s]
      /\ IF semOf[1] = None THEN val' = [val EXCEPT ![s] = 0] /\ uses' = [uses EXCEPT ![s] = 0]
         ELSE val' = val /\ uses' = uses
  BY <1>2 DEF SemCreate
<1> HIDE DEF s
<1> QED BY <1>3, <1>4

(* The key of the last request is one a program had.                       *)
LEMMA LastTyped ==
    ASSUME Tables, NEW p \in Procs, Step(p) \/ Leave(p) \/ Kill(p)
    PROVE  last' \in -1..MaxKeys /\ lost' \in BOOLEAN
<1>1. CASE Give(p)
  <2>1. proc[p].key \in 0..MaxKeys /\ NoKey \in -1..MaxKeys /\ 0..MaxKeys \subseteq -1..MaxKeys
    BY KeyLockAssumption DEF Tables, Programs, NoKey
  <2> QED BY <1>1, <2>1 DEF Give
<1>2. CASE Leave(p) \/ Kill(p)
  BY <1>2 DEF Leave, Kill, Gone, Tables
<1>3. CASE ~Give(p) /\ ~Leave(p) /\ ~Kill(p)
  <2>1. last' = last /\ lost' = lost
    BY <1>3 DEF Step, Open, Attach, SemGet, SetShare, Count, SemCreate, SemSet, Acquire, Holds, AcquireFails,
       Unlink, Store, Destroy, RemoveSem, RemoveShm
  <2> QED BY <2>1 DEF Tables
<1> QED BY <1>1, <1>2, <1>3

LEMMA PlaceNext ==
    ASSUME PlaceInv, NothingYet, Shape, NEW p \in Procs, Step(p) \/ Leave(p) \/ Kill(p)
    PROVE  PlaceInv'
<1>0. /\ Tables /\ OneInode /\ Stands(p) /\ proc[p] \in Programs /\ variant' = variant
      /\ 1 \in Objs /\ None \notin Objs /\ last' \in -1..MaxKeys /\ lost' \in BOOLEAN
  BY VariantStays, OneIsLowest, LastTyped DEF PlaceInv, Tables, Objs, None
<1>1. CASE Open(p)
  <2>1. /\ proc[p] = New /\ shmOf' = shmOf /\ semOf' = semOf /\ val' = val /\ uses' = uses /\ given' = given
        /\ proc[p].pc = "new"
    BY <1>1 DEF Open, NothingYet
  <2>2. file' \in Objs \cup {None} /\ (variant # "none" => file' \in Objs)
    BY <1>0, <1>1, FileStep DEF Tables
  <2>3. word' \in [Objs -> 0..MaxKeys]
    <3>1. 0 \in 0..MaxKeys
      BY KeyLockAssumption
    <3> QED BY <1>0, <1>1, <3>1 DEF Open, Tables
  <2>4. variant \in Segments => file' \in {None, 1}
    <3>1. CASE file # None
      BY <1>0, <1>1, <3>1 DEF Open, OneInode, Segments
    <3>2. CASE file = None /\ variant \in Segments
      <4>1. {proc[q].fd : q \in Procs} = {None}
        BY <3>2 DEF PlaceInv, Stands, Segments
      <4> QED BY <1>1, <3>2, <4>1, OneIsLowest DEF Open, Segments
    <3> QED BY <3>1, <3>2
  <2>5. OneInode'
    BY <1>0, <2>1, <2>4 DEF OneInode
  <2>6. \E r \in Programs : /\ proc' = [proc EXCEPT ![p] = r]
                            /\ r.shm = None /\ r.sem = None /\ r.undo = 0 /\ r.counted = 0 /\ r.ipc = None
                            /\ r.pc = IF variant \in Segments THEN "opened" ELSE "asking"
                            /\ r.fd = IF variant \in {"sem", "none"} THEN None ELSE file'
    <3>1. CASE variant = "none"
      <4> DEFINE r == [proc[p] EXCEPT !.pc = "asking"]
      <4>1. proc' = [proc EXCEPT ![p] = r]
        BY <1>1, <3>1 DEF Open, Goes
      <4>2. /\ r \in Programs /\ r.shm = None /\ r.sem = None /\ r.undo = 0 /\ r.counted = 0
            /\ r.ipc = None /\ r.fd = None /\ r.pc = "asking"
        BY <1>0, <2>1 DEF Programs, Places, New
      <4> HIDE DEF r
      <4> QED BY <3>1, <4>1, <4>2 DEF Segments
    <3>2. CASE variant # "none"
      <4> DEFINE r == [proc[p] EXCEPT !.pc = IF variant \in {"flock", "lockf"} THEN "asking" ELSE "opened",
                                      !.fd = IF variant = "sem" THEN None ELSE file']
      <4>1. proc' = [proc EXCEPT ![p] = r]
        BY <1>1, <3>2 DEF Open
      <4>2. /\ r \in Programs /\ r.shm = None /\ r.sem = None /\ r.undo = 0 /\ r.counted = 0
            /\ r.ipc = None /\ r.fd = (IF variant = "sem" THEN None ELSE file')
            /\ r.pc = (IF variant \in {"flock", "lockf"} THEN "asking" ELSE "opened")
        <5>1. /\ (IF variant \in {"flock", "lockf"} THEN "asking" ELSE "opened") \in Places
              /\ (IF variant = "sem" THEN None ELSE file') \in Objs \cup {None}
          BY <2>2 DEF Places
        <5>2. /\ proc[p].shm = None /\ proc[p].sem = None /\ proc[p].undo = 0 /\ proc[p].counted = 0
              /\ proc[p].ipc = None
          BY <2>1 DEF New
        <5> QED BY <1>0, <5>1, <5>2 DEF Programs
      <4>3. variant \in {"flock", "lockf", "shm", "sem", "none"}
        BY <1>0, KeyLockAssumption DEF Tables
      <4> HIDE DEF r
      <4> QED BY <3>2, <4>1, <4>2, <4>3 DEF Segments
    <3> QED BY <3>1, <3>2
  <2>7. PICK r \in Programs : /\ proc' = [proc EXCEPT ![p] = r]
                              /\ r.shm = None /\ r.sem = None /\ r.undo = 0 /\ r.counted = 0 /\ r.ipc = None
                              /\ r.pc = IF variant \in Segments THEN "opened" ELSE "asking"
                              /\ r.fd = IF variant \in {"sem", "none"} THEN None ELSE file'
    BY <2>6
  <2>8. proc'[p] = r
    BY <1>0, <2>7 DEF Tables
  <2>9. Stands(p)'
    BY <1>0, <2>2, <2>7, <2>8 DEF Stands, Bare, Early, OnlySem, Files, Segments, Holding
  <2>10. variant = "shm" /\ file' = None => file = None
    BY <1>0, <2>2
  <2> QED BY <1>0, <2>1, <2>2, <2>3, <2>5, <2>7, <2>9, <2>10, PlaceMove DEF Tables
<1>2. CASE Attach(p)
  <2>1. /\ proc[p].pc = "opened" /\ variant \in Segments /\ file' = file /\ semOf' = semOf
        /\ val' = val /\ uses' = uses /\ given' = given
    BY <1>0, <1>2 DEF Attach, Stands
  <2>2. CASE file = None
    BY <1>0, <1>2, <2>1, <2>2, PlaceEnds DEF Attach, OneInode, Tables
  <2>3. CASE file # None
    <3> DEFINE f == [q \in Procs |-> proc[q].shm]
               s == Named(shmOf, file, {proc[q].shm : q \in Procs})
               r == [proc[p] EXCEPT !.pc = IF variant = "shm" THEN "asking" ELSE "attached",
                                    !.ipc = file, !.shm = s]
    <3>1. file = 1 /\ \A i \in Objs : i # 1 => shmOf[i] = None
      BY <1>0, <2>1, <2>3 DEF OneInode
    <3>2. s \in Objs
      <4>1. f[p] = None /\ {f[q] : q \in Procs} = {proc[q].shm : q \in Procs} /\ f = [q \in Procs |-> f[q]]
        BY <1>0, <2>1 DEF Stands, Bare
      <4> HIDE DEF f
      <4>2. Named(shmOf, 1, {f[q] : q \in Procs}) \in Objs
        BY <1>0, <3>1, <4>1, NamedIn DEF Tables
      <4> QED BY <3>1, <4>1, <4>2
    <3>3. /\ proc' = [proc EXCEPT ![p] = r] /\ shmOf' = [shmOf EXCEPT ![1] = s]
          /\ word' = word \/ word' = [word EXCEPT ![s] = 0]
      BY <1>2, <2>3, <3>1 DEF Attach
    <3> HIDE DEF s
    <3>4. word' \in [Objs -> 0..MaxKeys] /\ shmOf' \in [Objs -> Objs \cup {None}] /\ OneInode'
      <4>1. 0 \in 0..MaxKeys
        BY KeyLockAssumption
      <4> QED BY <1>0, <2>1, <3>2, <3>3, <4>1 DEF Tables, OneInode
    <3>5. /\ r \in Programs /\ r.ipc = 1 /\ r.shm = s /\ r.pc = (IF variant = "shm" THEN "asking" ELSE "attached")
          /\ r.sem = proc[p].sem /\ r.undo = proc[p].undo /\ r.counted = proc[p].counted /\ r.fd = proc[p].fd
      BY <1>0, <3>1, <3>2 DEF Programs, Places
    <3> HIDE DEF r
    <3>6. proc'[p] = r
      BY <1>0, <3>3 DEF Tables
    <3>7. Stands(p)'
      BY <1>0, <2>1, <3>2, <3>5, <3>6 DEF Stands, Bare, Early, OnlySem, Files, Segments, Holding
    <3> QED BY <1>0, <2>1, <3>3, <3>4, <3>5, <3>7, PlaceMove DEF Tables
  <2> QED BY <2>2, <2>3
<1>3. CASE SemGet(p)
  <2>1. /\ proc[p].pc = "attached" /\ variant = "sem" /\ file' = file /\ semOf' = semOf /\ shmOf' = shmOf
        /\ word' = word /\ val' = val /\ uses' = uses /\ given' = given
    BY <1>0, <1>3 DEF SemGet, Stands, OnlySem
  <2>2. proc[p].ipc = 1 /\ proc[p].sem = None
    BY <1>0, <2>1 DEF Stands, Bare, Segments
  <2> DEFINE r == IF semOf[1] = None THEN [proc[p] EXCEPT !.pc = "create"]
                  ELSE [proc[p] EXCEPT !.pc = "count", !.sem = semOf[1]]
  <2>3. proc' = [proc EXCEPT ![p] = r]
    BY <1>3, <2>2 DEF SemGet, Goes
  <2>4. /\ r \in Programs /\ r.ipc = 1 /\ r.shm = proc[p].shm /\ r.fd = proc[p].fd
        /\ r.undo = proc[p].undo /\ r.counted = proc[p].counted /\ r.sem = semOf[1]
        /\ r.pc = (IF semOf[1] = None THEN "create" ELSE "count") /\ semOf[1] \in Objs \cup {None}
    <3>1. proc[p] \in Programs /\ semOf[1] \in Objs \cup {None}
      BY <1>0 DEF Tables
    <3>2. CASE semOf[1] = None
      <4>1. r = [proc[p] EXCEPT !.pc = "create"] BY <3>2
      <4> QED BY <2>2, <3>1, <3>2, <4>1 DEF Programs, Places
    <3>3. CASE semOf[1] # None
      <4>1. r = [proc[p] EXCEPT !.pc = "count", !.sem = semOf[1]] BY <3>3
      <4> QED BY <2>2, <3>1, <3>3, <4>1 DEF Programs, Places
    <3> QED BY <3>2, <3>3
  <2> HIDE DEF r
  <2>5. proc'[p] = r
    BY <1>0, <2>3 DEF Tables
  <2>6. Stands(p)'
    BY <1>0, <2>1, <2>4, <2>5 DEF Stands, Bare, Early, OnlySem, Files, Segments, Holding
  <2> QED BY <1>0, <2>1, <2>3, <2>4, <2>6, PlaceMove DEF Tables, OneInode
<1>4. CASE SemCreate(p)
  <2>1. /\ proc[p].pc = "create" /\ variant = "sem" /\ file' = file /\ shmOf' = shmOf
        /\ word' = word /\ given' = given
    BY <1>0, <1>4 DEF SemCreate, Stands, OnlySem
  <2>2. proc[p].ipc = 1 /\ proc[p].sem = None /\ proc[p].undo = 0 /\ proc[p].counted = 0
    BY <1>0, <2>1 DEF Stands, Bare, Early, Segments
  <2>3. PICK s \in Objs : /\ proc' = [proc EXCEPT ![p].pc = "setval", ![p].sem = s]
                          /\ semOf' = [semOf EXCEPT ![1] = s]
                          /\ \/ val' = val /\ uses' = uses
                             \/ val' = [val EXCEPT ![s] = 0] /\ uses' = [uses EXCEPT ![s] = 0]
    BY <1>4, SemCreated
  <2>4. semOf' \in [Objs -> Objs \cup {None}] /\ val' \in [Objs -> Nat] /\ uses' \in [Objs -> Int] /\ OneInode'
    BY <1>0, <2>1, <2>3 DEF Tables, OneInode
  <2> DEFINE r == [proc[p] EXCEPT !.pc = "setval", !.sem = s]
  <2>5. proc' = [proc EXCEPT ![p] = r]
    BY <2>3
  <2>6. /\ r \in Programs /\ r.ipc = 1 /\ r.shm = proc[p].shm /\ r.fd = proc[p].fd
        /\ r.undo = 0 /\ r.counted = 0 /\ r.sem = s /\ r.pc = "setval"
    BY <1>0, <2>2 DEF Programs, Places
  <2> HIDE DEF r
  <2>7. proc'[p] = r
    BY <1>0, <2>5 DEF Tables
  <2>8. Stands(p)'
    BY <1>0, <2>1, <2>6, <2>7 DEF Stands, Bare, Early, OnlySem, Files, Segments, Holding
  <2> QED BY <1>0, <2>1, <2>4, <2>5, <2>6, <2>8, PlaceMove DEF Tables
<1>5. CASE SemSet(p)
  <2>1. /\ proc[p].pc = "setval" /\ variant = "sem" /\ file' = file /\ shmOf' = shmOf /\ semOf' = semOf
        /\ word' = word /\ given' = given /\ uses' = uses
    BY <1>0, <1>5 DEF SemSet, Stands, OnlySem
  <2>2. CASE ~Exists(p)
    BY <1>0, <1>5, <2>1, <2>2, PlaceEnds DEF SemSet, Tables, OneInode
  <2>3. CASE Exists(p)
    <3>1. proc[p].sem \in Objs /\ proc[p].undo = 0 /\ proc[p].counted = 0 /\ proc[p].ipc = 1 /\ proc[p].shm \in Objs
      BY <1>0, <2>1 DEF Stands, Bare, Early, Segments
    <3>2. val' \in [Objs -> Nat]
      BY <1>0, <1>5, <2>3, <3>1 DEF SemSet, Tables
    <3>3. \A q \in Procs : proc'[q] = IF q = p THEN [proc[p] EXCEPT !.pc = "setkey"]
                                      ELSE IF proc[q].sem = proc[p].sem THEN [proc[q] EXCEPT !.undo = 0]
                                      ELSE proc[q]
      BY <1>5, <2>3 DEF SemSet
    <3>4. proc' = [q \in Procs |-> proc'[q]]
      BY <1>5, <2>3 DEF SemSet
    <3>5. ASSUME NEW q \in Procs PROVE proc'[q] \in Programs /\ Stands(q)'
      <4>0. proc[q] \in Programs /\ Stands(q)
        BY <1>0 DEF PlaceInv, Tables
      <4>1. CASE q = p
        <5>1. /\ proc'[p] \in Programs /\ proc'[p].pc = "setkey" /\ proc'[p].sem = proc[p].sem
              /\ proc'[p].undo = 0 /\ proc'[p].counted = 0 /\ proc'[p].ipc = 1 /\ proc'[p].shm = proc[p].shm
              /\ proc'[p].fd = proc[p].fd
          BY <1>0, <3>1, <3>3 DEF Programs, Places
        <5>2. Stands(p)'
          BY <1>0, <2>1, <3>1, <5>1 DEF Stands, Bare, Early, OnlySem, Files, Segments, Holding
        <5> QED BY <4>1, <5>1, <5>2
      <4>2. CASE q # p /\ proc[q].sem = proc[p].sem
        <5>1. /\ proc'[q] \in Programs /\ proc'[q].pc = proc[q].pc /\ proc'[q].sem = proc[q].sem
              /\ proc'[q].undo = 0 /\ proc'[q].counted = proc[q].counted /\ proc'[q].ipc = proc[q].ipc
              /\ proc'[q].shm = proc[q].shm /\ proc'[q].fd = proc[q].fd
          <6>1. proc'[q] = [proc[q] EXCEPT !.undo = 0] /\ 0 \in -1..1
            BY <3>3, <4>2
          <6> QED BY <4>0, <6>1 DEF Programs
        <5> QED BY <1>0, <2>1, <4>0, <5>1 DEF Stands
      <4>3. CASE q # p /\ proc[q].sem # proc[p].sem
        BY <1>0, <2>1, <3>3, <4>0, <4>3 DEF Stands
      <4> QED BY <4>1, <4>2, <4>3
    <3>6. proc' \in [Procs -> Programs]
      BY <3>4, <3>5
    <3> QED BY <1>0, <2>1, <3>2, <3>5, <3>6 DEF PlaceInv, Tables, OneInode
  <2> QED BY <2>2, <2>3
<1>6. CASE SetShare(p)
  <2>1. /\ proc[p].pc = "setkey" /\ variant = "sem" /\ file' = file /\ shmOf' = shmOf /\ semOf' = semOf
        /\ val' = val /\ given' = given /\ uses' = uses
    BY <1>0, <1>6 DEF SetShare, Stands, OnlySem
  <2>2. word' \in [Objs -> 0..MaxKeys]
    <3>1. 0 \in 0..MaxKeys
      BY KeyLockAssumption
    <3> QED BY <1>0, <1>6, <3>1 DEF SetShare, Stored, Tables
  <2> DEFINE r == [proc[p] EXCEPT !.pc = "count"]
  <2>3. proc' = [proc EXCEPT ![p] = r]
    BY <1>6 DEF SetShare, Goes
  <2>4. /\ r \in Programs /\ r.ipc = proc[p].ipc /\ r.shm = proc[p].shm /\ r.fd = proc[p].fd
        /\ r.undo = proc[p].undo /\ r.counted = proc[p].counted /\ r.sem = proc[p].sem /\ r.pc = "count"
    BY <1>0 DEF Programs, Places
  <2> HIDE DEF r
  <2>5. proc'[p] = r
    BY <1>0, <2>3 DEF Tables
  <2>6. Stands(p)'
    BY <1>0, <2>1, <2>4, <2>5 DEF Stands, Bare, Early, OnlySem, Files, Segments, Holding
  <2> QED BY <1>0, <2>1, <2>2, <2>3, <2>4, <2>6, PlaceMove DEF Tables, OneInode
<1>7. CASE Count(p)
  <2>1. /\ proc[p].pc = "count" /\ variant = "sem" /\ file' = file /\ shmOf' = shmOf /\ semOf' = semOf
        /\ val' = val /\ given' = given /\ word' = word
    BY <1>0, <1>7 DEF Count, Stands, OnlySem
  <2>2. CASE ~Exists(p)
    BY <1>0, <1>7, <2>1, <2>2, PlaceEnds DEF Count, Tables, OneInode
  <2>3. CASE Exists(p)
    <3> DEFINE r == [proc[p] EXCEPT !.pc = "asking", !.counted = 1]
    <3>0. proc[p].sem \in Objs
      BY <1>0, <2>1 DEF Stands, Bare
    <3>1. proc' = [proc EXCEPT ![p] = r] /\ uses' \in [Objs -> Int]
      <4>1. uses' = [uses EXCEPT ![proc[p].sem] = uses[proc[p].sem] + 1]
        BY <1>7, <2>3 DEF Count
      <4>2. uses[proc[p].sem] + 1 \in Int
        BY <1>0, <3>0 DEF Tables
      <4> QED BY <1>0, <1>7, <2>3, <4>1, <4>2 DEF Count, Tables
    <3>2. /\ r \in Programs /\ r.ipc = proc[p].ipc /\ r.shm = proc[p].shm /\ r.fd = proc[p].fd
          /\ r.undo = proc[p].undo /\ r.counted = 1 /\ r.sem = proc[p].sem /\ r.pc = "asking"
      <4>1. "asking" \in Places /\ 1 \in 0..1
        BY DEF Places
      <4> QED BY <1>0, <4>1 DEF Programs
    <3> HIDE DEF r
    <3>3. proc'[p] = r
      BY <1>0, <3>1 DEF Tables
    <3>4. Stands(p)'
      BY <1>0, <2>1, <3>2, <3>3 DEF Stands, Bare, Early, OnlySem, Files, Segments, Holding
    <3> QED BY <1>0, <2>1, <3>1, <3>2, <3>4, PlaceMove DEF Tables, OneInode
  <2> QED BY <2>2, <2>3
<1>8. CASE Acquire(p)
  <2>1. /\ proc[p].pc = "asking" /\ file' = file /\ shmOf' = shmOf /\ semOf' = semOf
        /\ given' = given /\ word' = word /\ uses' = uses
        /\ variant = "sem" => Exists(p) /\ val[proc[p].sem] > 0
    BY <1>8 DEF Acquire, Holds, Free
  <2>2. variant = "sem" => proc[p].sem \in Objs
    BY <1>0, <2>1 DEF Stands, Bare
  <2>3. val' \in [Objs -> Nat]
    <3>1. CASE variant = "sem"
      <4>1. val' = [val EXCEPT ![proc[p].sem] = val[proc[p].sem] - 1]
        BY <1>8, <3>1 DEF Acquire, Holds
      <4>2. val[proc[p].sem] - 1 \in Nat
        BY <1>0, <2>1, <2>2, <3>1 DEF Tables
      <4> QED BY <1>0, <4>1, <4>2 DEF Tables
    <3>2. CASE variant # "sem"
      BY <1>0, <1>8, <3>2 DEF Acquire, Holds, Tables
    <3> QED BY <3>1, <3>2
  <2>4. variant # "none" => word[Place(p)] \in 0..MaxKeys
    <3>1. variant \in {"flock", "lockf", "shm", "sem", "none"}
      BY <1>0, KeyLockAssumption DEF Tables
    <3>2. variant # "none" => Place(p) \in Objs
      BY <1>0, <2>1, <3>1 DEF Place, Stands, Bare, Files, Segments, Holding
    <3> QED BY <1>0, <3>2 DEF Tables
  <2> DEFINE k == IF variant = "none" THEN proc[p].key ELSE word[Place(p)]
             u == IF variant = "sem" THEN proc[p].undo + 1 ELSE proc[p].undo
             r == [proc[p] EXCEPT !.pc = "waiting", !.key = k, !.undo = u]
  <2>5. proc' = [proc EXCEPT ![p] = r]
    BY <1>8 DEF Acquire, Holds
  <2>6. k \in 0..MaxKeys /\ u \in {0, 1} /\ (variant # "sem" => u = 0)
    <3>1. proc[p].undo \in {-1, 0} /\ (variant # "sem" => proc[p].undo = 0)
      BY <1>0, <2>1 DEF Stands, Holding
    <3> QED BY <1>0, <2>4, <3>1 DEF Programs
  <2> HIDE DEF k, u
  <2>7. /\ r \in Programs /\ r.ipc = proc[p].ipc /\ r.shm = proc[p].shm /\ r.fd = proc[p].fd
        /\ r.undo = u /\ r.counted = proc[p].counted /\ r.sem = proc[p].sem /\ r.pc = "waiting"
    <3>1. "waiting" \in Places /\ u \in -1..1
      BY <2>6 DEF Places
    <3> QED BY <1>0, <2>6, <3>1 DEF Programs
  <2> HIDE DEF r
  <2>8. proc'[p] = r
    BY <1>0, <2>5 DEF Tables
  <2>9. Stands(p)'
    BY <1>0, <2>1, <2>6, <2>7, <2>8 DEF Stands, Bare, Early, OnlySem, Files, Segments, Holding
  <2> QED BY <1>0, <2>1, <2>3, <2>5, <2>7, <2>9, PlaceMove DEF Tables, OneInode
<1>9. CASE AcquireFails(p) \/ Leave(p) \/ Kill(p) \/ Unlink(p)
  <2>1. /\ proc' = [proc EXCEPT ![p] = Done] /\ val' \in [Objs -> Nat] /\ uses' \in [Objs -> Int]
        /\ shmOf' = shmOf /\ semOf' = semOf /\ word' = word /\ given' = given
    BY <1>0, <1>9, EndsTyped DEF AcquireFails, Leave, Kill, Gone, Unlink, Tables
  <2>2. file' = file \/ (Unlink(p) /\ file' = None)
    BY <1>9 DEF AcquireFails, Leave, Kill, Gone, Unlink
  <2>3. Unlink(p) => variant # "shm"
    BY <1>0 DEF Unlink, Stands, OnlySem
  <2> QED BY <1>0, <2>1, <2>2, <2>3, PlaceEnds DEF Tables, OneInode
<1>13. CASE Give(p)
  <2>1. /\ proc[p].pc = "waiting" /\ file' = file /\ shmOf' = shmOf /\ semOf' = semOf
        /\ word' = word /\ val' = val /\ uses' = uses /\ given' \in 0..MaxKeys
    BY <1>0, <1>13, KeyLockAssumption DEF Give, Tables
  <2> DEFINE r == [proc[p] EXCEPT !.pc = "answered", !.key = given']
  <2>2. proc' = [proc EXCEPT ![p] = r]
    BY <1>13 DEF Give
  <2>3. /\ r \in Programs /\ r.ipc = proc[p].ipc /\ r.shm = proc[p].shm /\ r.fd = proc[p].fd
        /\ r.undo = proc[p].undo /\ r.counted = proc[p].counted /\ r.sem = proc[p].sem /\ r.pc = "answered"
    BY <1>0, <2>1 DEF Programs, Places
  <2> HIDE DEF r
  <2>4. proc'[p] = r
    BY <1>0, <2>2 DEF Tables
  <2>5. Stands(p)'
    BY <1>0, <2>1, <2>3, <2>4 DEF Stands, Bare, Early, OnlySem, Files, Segments, Holding
  <2> QED BY <1>0, <2>1, <2>2, <2>3, <2>5, PlaceMove DEF Tables, OneInode
<1>10. CASE Store(p)
  <2>1. /\ proc[p].pc = "answered" /\ file' = file /\ shmOf' = shmOf /\ semOf' = semOf
        /\ given' = given /\ given' \in 0..MaxKeys
    BY <1>0, <1>10, KeyLockAssumption DEF Store, Tables
  <2>2. word' \in [Objs -> 0..MaxKeys]
    <3>1. proc[p].key \in 0..MaxKeys
      BY <1>0 DEF Programs
    <3> QED BY <1>0, <1>10, <2>1, <3>1 DEF Store, Stored, Tables
  <2>3. CASE Ends(p)
    BY <1>0, <2>1, <2>2, <2>3, EndsTyped, PlaceEnds DEF Tables, OneInode
  <2>4. CASE ~Ends(p)
    <3> DEFINE w == IF p \in Byers THEN "bye" ELSE "asking"
               u == IF variant = "sem" THEN proc[p].undo - 1 ELSE proc[p].undo
               r == [proc[p] EXCEPT !.pc = w, !.undo = u]
    <3>1. proc' = [proc EXCEPT ![p] = r] /\ uses' = uses
      BY <1>10, <2>1, <2>4 DEF Store
    <3>2. val' \in [Objs -> Nat]
      <4>1. variant = "sem" => proc[p].sem \in Objs
        BY <1>0, <2>1 DEF Stands, Bare
      <4> QED BY <1>0, <1>10, <2>4, <4>1 DEF Store, Tables
    <3>3. w \in {"bye", "asking"} /\ u \in {-1, 0} /\ (variant # "sem" => u = 0)
      <4>1. proc[p].undo \in {0, 1} /\ (variant # "sem" => proc[p].undo = 0)
        BY <1>0, <2>1 DEF Stands, Holding
      <4> QED BY <4>1
    <3> HIDE DEF w, u
    <3>4. /\ r \in Programs /\ r.ipc = proc[p].ipc /\ r.shm = proc[p].shm /\ r.fd = proc[p].fd
          /\ r.undo = u /\ r.counted = proc[p].counted /\ r.sem = proc[p].sem /\ r.pc = w
      <4>1. w \in Places /\ u \in -1..1
        BY <3>3 DEF Places
      <4> QED BY <1>0, <2>1, <4>1 DEF Programs
    <3> HIDE DEF r
    <3>5. proc'[p] = r
      BY <1>0, <3>1 DEF Tables
    <3>6. proc[p].fd \in Objs \/ variant \notin Files
      BY <1>0, <2>1 DEF Stands
    <3>7. Stands(p)'
      BY <1>0, <2>1, <3>3, <3>4, <3>5, <3>6 DEF Stands, Bare, Early, OnlySem, Holding
    <3> QED BY <1>0, <2>1, <2>2, <3>1, <3>2, <3>4, <3>7, PlaceMove DEF Tables, OneInode
  <2> QED BY <2>3, <2>4
<1>11. CASE Destroy(p)
  <2>1. /\ proc[p].pc = "bye" /\ semOf' = semOf /\ word' = word /\ given' = given
        /\ file' \in Objs \cup {None} /\ (variant \in Segments => file' = file)
    BY <1>0, <1>11 DEF Destroy, Segments, Tables
  <2>2. shmOf' \in [Objs -> Objs \cup {None}] /\ \A i \in Objs : shmOf'[i] \in {shmOf[i], None}
    BY <1>0, <1>11 DEF Destroy, Tables
  <2>3. OneInode'
    BY <1>0, <2>1, <2>2 DEF OneInode
  <2>4. CASE Ends(p)
    BY <1>0, <2>1, <2>2, <2>3, <2>4, EndsTyped, PlaceEnds DEF Tables, Segments
  <2>5. CASE ~Ends(p)
    <3> DEFINE r == [proc[p] EXCEPT !.pc = "rmsem"]
    <3>1. variant = "sem" /\ proc' = [proc EXCEPT ![p] = r] /\ val' = val /\ uses' = uses
      BY <1>11, <2>5 DEF Destroy, Goes
    <3>2. /\ r \in Programs /\ r.ipc = proc[p].ipc /\ r.shm = proc[p].shm /\ r.fd = proc[p].fd
          /\ r.undo = proc[p].undo /\ r.counted = proc[p].counted /\ r.sem = proc[p].sem /\ r.pc = "rmsem"
      BY <1>0 DEF Programs, Places
    <3> HIDE DEF r
    <3>3. proc'[p] = r
      BY <1>0, <3>1 DEF Tables
    <3>4. Stands(p)'
      BY <1>0, <2>1, <3>1, <3>2, <3>3 DEF Stands, Bare, Early, OnlySem, Files, Segments, Holding
    <3> QED BY <1>0, <2>1, <2>2, <2>3, <3>1, <3>2, <3>4, PlaceMove DEF Tables
  <2> QED BY <2>4, <2>5
<1>12. CASE RemoveSem(p) \/ RemoveShm(p)
  <2>1. /\ proc[p].pc \in {"rmsem", "rmshm"} /\ file' = file /\ word' = word /\ given' = given
        /\ val' = val /\ uses' = uses
    BY <1>12 DEF RemoveSem, RemoveShm
  <2>2. variant = "sem"
    BY <1>0, <2>1 DEF Stands, OnlySem
  <2>3. /\ shmOf' \in [Objs -> Objs \cup {None}] /\ \A i \in Objs : shmOf'[i] \in {shmOf[i], None}
        /\ semOf' \in [Objs -> Objs \cup {None}] /\ \A i \in Objs : semOf'[i] \in {semOf[i], None}
    BY <1>0, <1>12 DEF RemoveSem, RemoveShm, Tables
  <2>4. OneInode'
    BY <1>0, <2>1, <2>3 DEF OneInode
  <2> DEFINE w == IF RemoveSem(p) THEN "rmshm" ELSE "unlink"
             r == [proc[p] EXCEPT !.pc = w]
  <2>5. CASE proc' = [proc EXCEPT ![p] = Done]
    BY <1>0, <2>1, <2>3, <2>4, <2>5, PlaceEnds DEF Tables
  <2>6. CASE proc' = [proc EXCEPT ![p] = r]
    <3>1. w \in {"rmshm", "unlink"}
      OBVIOUS
    <3> HIDE DEF w
    <3>2. /\ r \in Programs /\ r.ipc = proc[p].ipc /\ r.shm = proc[p].shm /\ r.fd = proc[p].fd
          /\ r.undo = proc[p].undo /\ r.counted = proc[p].counted /\ r.sem = proc[p].sem /\ r.pc = w
      BY <1>0, <3>1 DEF Programs, Places
    <3> HIDE DEF r
    <3>3. proc'[p] = r
      BY <1>0, <2>6 DEF Tables
    <3>4. Stands(p)'
      BY <1>0, <2>1, <2>2, <3>1, <3>2, <3>3 DEF Stands, Bare, Early, OnlySem, Files, Segments, Holding
    <3> QED BY <1>0, <2>1, <2>3, <2>4, <2>6, <3>2, <3>4, PlaceMove DEF Tables
  <2>7. proc' = [proc EXCEPT ![p] = Done] \/ proc' = [proc EXCEPT ![p] = r]
    <3>1. CASE RemoveSem(p)
      BY <3>1 DEF RemoveSem
    <3>2. CASE ~RemoveSem(p)
      BY <1>12, <3>2 DEF RemoveShm, Goes
    <3> QED BY <3>1, <3>2
  <2> QED BY <2>5, <2>6, <2>7
<1> QED BY <1>1, <1>2, <1>3, <1>4, <1>5, <1>6, <1>7, <1>8, <1>9, <1>10, <1>11, <1>12, <1>13 DEF Step
-----------------------------------------------------------------------------
(* Sets of programs that differ by p at most. *)
LEMMA Tally ==
    ASSUME NEW X \in SUBSET Procs, NEW Y \in SUBSET Procs, NEW p \in Procs, Y \ {p} = X \ {p}
    PROVE  /\ Cardinality(X) \in 0..Cardinality(Procs) /\ Cardinality(Y) \in 0..Cardinality(Procs)
           /\ (p \in Y <=> p \in X) => Cardinality(Y) = Cardinality(X)
           /\ p \in Y /\ p \notin X => Cardinality(Y) = Cardinality(X) + 1
           /\ p \notin Y /\ p \in X => Cardinality(Y) = Cardinality(X) - 1
<1>1. /\ IsFiniteSet(X) /\ Cardinality(X) <= Cardinality(Procs)
      /\ IsFiniteSet(Y) /\ Cardinality(Y) <= Cardinality(Procs)
  BY FS_Subset, KeyLockAssumption
<1>2. Cardinality(X) \in Nat /\ Cardinality(Y) \in Nat /\ Cardinality(Procs) \in Nat
  BY <1>1, FS_CardinalityType, KeyLockAssumption
<1>3. Cardinality(X \ {p}) = IF p \in X THEN Cardinality(X) - 1 ELSE Cardinality(X)
  BY <1>1, FS_RemoveElement
<1>4. Cardinality(Y \ {p}) = IF p \in Y THEN Cardinality(Y) - 1 ELSE Cardinality(Y)
  BY <1>1, FS_RemoveElement
<1> QED BY <1>1, <1>2, <1>3, <1>4

(* What p adds to the two accounts of s. *)
Live(s) == \E i \in Objs : semOf[i] = s
Share(p, s) == IF p \in Counted(s) THEN 1 ELSE 0
Weight(p, s) == (IF p \in Owing(s) THEN 1 ELSE 0) - (IF p \in Owed(s) THEN 1 ELSE 0)

LEMMA LedgerMove ==
    ASSUME PlaceInv, PlaceInv', NEW s \in Objs, CountAt(s), ValAt(s), NEW p \in Procs,
           \A q \in Procs \ {p} : proc'[q] = proc[q],
           val'[s] + Weight(p, s)' <= val[s] + Weight(p, s),
           \/ Live(s) /\ uses'[s] + Share(p, s) = uses[s] + Share(p, s)'
           \/ ~Live(s)' /\ uses'[s] = uses[s]
    PROVE  CountAt(s)' /\ ValAt(s)'
<1>1. val[s] \in Nat /\ val'[s] \in Nat /\ uses[s] \in Int /\ uses'[s] \in Int
  BY DEF PlaceInv, Tables
<1>2. ValAt(s)'
  <2> DEFINE a == Cardinality(Owing(s))
             b == Cardinality(Owed(s))
             c == Cardinality(Owing(s)')
             d == Cardinality(Owed(s)')
  <2>1. /\ Owing(s) \in SUBSET Procs /\ Owing(s)' \in SUBSET Procs /\ Owing(s)' \ {p} = Owing(s) \ {p}
        /\ Owed(s) \in SUBSET Procs /\ Owed(s)' \in SUBSET Procs /\ Owed(s)' \ {p} = Owed(s) \ {p}
    BY DEF Owing, Owed
  <2>2. /\ a \in Int /\ c \in Int
        /\ c - a = (IF p \in Owing(s)' THEN 1 ELSE 0) - (IF p \in Owing(s) THEN 1 ELSE 0)
    BY <2>1, Tally
  <2>3. /\ b \in Int /\ d \in Int
        /\ d - b = (IF p \in Owed(s)' THEN 1 ELSE 0) - (IF p \in Owed(s) THEN 1 ELSE 0)
    BY <2>1, Tally
  <2>4. (c - a) - (d - b) = Weight(p, s)' - Weight(p, s)
    BY <2>2, <2>3 DEF Weight
  <2>5. Weight(p, s) \in Int /\ Weight(p, s)' \in Int
    BY DEF Weight
  <2>6. val[s] + a <= 1 + b
    BY DEF ValAt
  <2> HIDE DEF a, b, c, d
  <2>7. val'[s] + c <= 1 + d
    BY <1>1, <2>2, <2>3, <2>4, <2>5, <2>6
  <2> QED BY <2>7 DEF ValAt, c, d
<1>3. CountAt(s)'
  <2>1. /\ Counted(s) \in SUBSET Procs /\ Counted(s)' \in SUBSET Procs /\ Counted(s)' \ {p} = Counted(s) \ {p}
    BY DEF Counted
  <2>2. CASE Live(s) /\ uses'[s] + Share(p, s) = uses[s] + Share(p, s)'
    <3> DEFINE a == Cardinality(Counted(s))
               b == Cardinality(Counted(s)')
    <3>1. uses[s] = a
      BY <2>2 DEF CountAt, Live
    <3>2. a \in Int /\ b \in 0..Cardinality(Procs) /\ b - a = Share(p, s)' - Share(p, s)
      BY <2>1, Tally DEF Share
    <3>3. Share(p, s) \in Int /\ Share(p, s)' \in Int
      BY DEF Share
    <3>4. Cardinality(Procs) \in Int
      BY FS_CardinalityType, KeyLockAssumption
    <3> DEFINE x == Share(p, s)
               y == Share(p, s)'
    <3>5. uses'[s] + x = uses[s] + y /\ x \in Int /\ y \in Int /\ b - a = y - x /\ b \in Int
      BY <2>2, <3>2, <3>3, <3>4
    <3> HIDE DEF a, b, x, y
    <3>6. uses'[s] = b
      BY <1>1, <3>1, <3>2, <3>5
    <3> QED BY <3>2, <3>6 DEF CountAt, b
  <2>3. CASE ~Live(s)' /\ uses'[s] = uses[s]
    BY <2>3 DEF CountAt, Live
  <2> QED BY <2>2, <2>3
<1> QED BY <1>2, <1>3

(* The kernel gives back what p took, and the lock no less than nothing.   *)
LEMMA LedgerEnds ==
    ASSUME PlaceInv, PlaceInv', NEW p \in Procs, proc[p].pc # "done", Ends(p), semOf' = semOf,
           NEW s \in Objs, CountAt(s), ValAt(s)
    PROVE  CountAt(s)' /\ ValAt(s)'
<1>1. /\ proc'[p] = Done /\ \A q \in Procs \ {p} : proc'[q] = proc[q]
      /\ val[s] \in Nat /\ uses[s] \in Int /\ proc[p].undo \in -1..1 /\ proc[p].counted \in 0..1
      /\ val \in [Objs -> Nat] /\ uses \in [Objs -> Int] /\ None \notin Objs
      /\ proc[p].sem \in Objs \cup {None}
  <2>1. proc \in [Procs -> Programs] /\ val \in [Objs -> Nat] /\ uses \in [Objs -> Int]
    BY DEF PlaceInv, Tables
  <2>2. proc' = [proc EXCEPT ![p] = Done]
    BY DEF Ends
  <2>3. proc[p].undo \in -1..1 /\ proc[p].counted \in 0..1 /\ proc[p].sem \in Objs \cup {None}
    BY <2>1 DEF Programs
  <2>4. None \notin Objs
    BY DEF Objs, None
  <2> QED BY <2>1, <2>2, <2>3, <2>4
<1>2. /\ p \notin Owing(s)' /\ p \in Owed(s)' /\ p \notin Counted(s)'
      /\ p \in Owing(s) <=> proc[p].sem = s /\ proc[p].undo = 1
      /\ p \in Owed(s) <=> proc[p].sem = s /\ proc[p].undo = -1
      /\ p \in Counted(s) <=> proc[p].sem = s /\ proc[p].counted = 1
  BY <1>1, DoneHere DEF Owing, Owed, Counted, None
<1>3. CASE proc[p].sem = s /\ Live(s)
  <2>1. Exists(p)
    BY <1>3 DEF Exists, Live
  <2>2. /\ val'[s] = (IF val[s] + proc[p].undo < 0 THEN 0 ELSE val[s] + proc[p].undo)
        /\ uses'[s] = uses[s] - proc[p].counted
    BY <1>1, <1>3, <2>1 DEF Ends
  <2>3. val'[s] + Weight(p, s)' <= val[s] + Weight(p, s)
    BY <1>1, <1>2, <1>3, <2>2 DEF Weight
  <2>4. uses'[s] + Share(p, s) = uses[s] + Share(p, s)'
    <3>1. Share(p, s)' = 0 /\ Share(p, s) = proc[p].counted
      BY <1>1, <1>2, <1>3 DEF Share
    <3> QED BY <1>1, <2>2, <3>1
  <2> QED BY <1>1, <1>3, <2>3, <2>4, LedgerMove
<1>4. CASE ~(proc[p].sem = s /\ Live(s))
  <2>1. val'[s] = val[s] /\ uses'[s] = uses[s]
    BY <1>1, <1>4 DEF Ends, Exists, Live
  <2>2. val'[s] + Weight(p, s)' <= val[s] + Weight(p, s)
    BY <1>1, <1>2, <2>1 DEF Weight
  <2>3. Live(s)' <=> Live(s)
    BY DEF Live
  <2>4. Live(s) => uses'[s] + Share(p, s) = uses[s] + Share(p, s)'
    BY <1>1, <1>2, <1>4, <2>1 DEF Share
  <2> QED BY <1>1, <2>1, <2>2, <2>3, <2>4, LedgerMove
<1> QED BY <1>3, <1>4

(* A step in which p takes, gives and joins nothing, or ends without       *)
(* semaphores.                                                             *)
LEMMA LedgerQuiet ==
    ASSUME PlaceInv, PlaceInv', NEW p \in Procs, proc[p].pc # "done",
           \A q \in Procs \ {p} : proc'[q] = proc[q],
           \/ /\ proc'[p].pc # "done" /\ proc'[p].undo = proc[p].undo
              /\ \/ proc'[p].sem = proc[p].sem /\ proc'[p].counted = proc[p].counted
                 \/ proc[p].undo = 0 /\ proc[p].counted = 0 /\ proc'[p].counted = 0
           \/ proc'[p] = Done /\ (proc[p].counted = 0 \/ ~Exists(p)),
           val' = val, uses' = uses, \A i \in Objs : semOf'[i] \in {semOf[i], None},
           NEW s \in Objs, CountAt(s), ValAt(s)
    PROVE  CountAt(s)' /\ ValAt(s)'
<1>1. Live(s)' => Live(s)
  BY DEF Live, Objs, None
<1>2. Weight(p, s)' <= Weight(p, s)
  BY DoneHere DEF Weight, Owing, Owed, Done, New
<1>3. Live(s) => Share(p, s)' = Share(p, s)
  BY DoneHere DEF Share, Counted, Live, Exists
<1>4. val[s] \in Nat /\ uses[s] \in Int /\ Weight(p, s) \in Int /\ Weight(p, s)' \in Int
  BY DEF PlaceInv, Tables, Weight
<1> QED BY <1>1, <1>2, <1>3, <1>4, LedgerMove

(* Each account after each step. *)
LEMMA LedgerNext ==
    ASSUME PlaceInv, PlaceInv', Shape, \A q \in Procs : Removed(q), NEW s \in Objs, CountAt(s), ValAt(s),
           NEW p \in Procs, Step(p) \/ Leave(p) \/ Kill(p)
    PROVE  CountAt(s)' /\ ValAt(s)'
<1>0. /\ proc \in [Procs -> Programs] /\ proc' \in [Procs -> Programs] /\ proc[p] \in Programs
      /\ Stands(p) /\ Stands(p)' /\ proc[p].pc # "done" /\ variant' = variant
      /\ ~SemSet(p) => \A q \in Procs \ {p} : proc'[q] = proc[q]
  BY NotDone, Others, VariantStays DEF PlaceInv, Tables
<1>1. CASE Open(p) \/ Attach(p) \/ SemGet(p) \/ SetShare(p)
  <2>1. /\ val' = val /\ uses' = uses /\ semOf' = semOf
        /\ proc[p].pc \in {"new", "opened", "attached", "setkey"}
        /\ \A q \in Procs \ {p} : proc'[q] = proc[q]
    BY <1>0, <1>1 DEF Open, Attach, SemGet, SetShare, SemSet
  <2>2. proc[p].undo = 0 /\ proc[p].counted = 0
    BY <1>0, <2>1 DEF Stands, Early, Bare
  <2>3. \/ proc'[p] = Done
        \/ proc'[p].pc # "done" /\ proc'[p].undo = 0 /\ proc'[p].counted = 0
    <3>1. CASE Open(p) \/ SemGet(p) \/ SetShare(p)
      BY <1>0, <2>2, <3>1 DEF Open, SemGet, SetShare, Goes, Programs
    <3>2. CASE Attach(p)
      <4>1. CASE file = None
        BY <1>0, <3>2, <4>1 DEF Attach
      <4>2. CASE file # None
        <5> DEFINE t == Named(shmOf, file, {proc[q].shm : q \in Procs})
        <5>1. proc' = [proc EXCEPT ![p].pc = IF variant = "shm" THEN "asking" ELSE "attached",
                                   ![p].ipc = file, ![p].shm = t]
          BY <3>2, <4>2 DEF Attach
        <5> HIDE DEF t
        <5> QED BY <1>0, <2>2, <5>1 DEF Programs
      <4> QED BY <4>1, <4>2
    <3> QED BY <1>1, <3>1, <3>2
  <2> QED BY <1>0, <2>1, <2>2, <2>3, LedgerQuiet
<1>2. CASE SemCreate(p)
  <2>1. PICK t \in Objs :
          /\ proc' = [proc EXCEPT ![p].pc = "setval", ![p].sem = t]
          /\ semOf' = [semOf EXCEPT ![1] = t]
          /\ \/ semOf[1] = t /\ val' = val /\ uses' = uses
             \/ /\ semOf[1] = None /\ \A q \in Procs : proc[q].sem # t
                /\ val' = [val EXCEPT ![t] = 0] /\ uses' = [uses EXCEPT ![t] = 0]
    BY <1>2, SemCreated
  <2>2. /\ \A q \in Procs \ {p} : proc'[q] = proc[q]
        /\ proc'[p].pc = "setval" /\ proc'[p].sem = t /\ semOf \in [Objs -> Objs \cup {None}]
        /\ proc'[p].undo = proc[p].undo /\ proc'[p].counted = proc[p].counted
        /\ proc[p].undo = 0 /\ proc[p].counted = 0
    <3>1. proc[p].pc = "create"
      BY <1>2 DEF SemCreate
    <3>2. proc[p].undo = 0 /\ proc[p].counted = 0
      BY <1>0, <3>1 DEF Stands, Early
    <3> QED BY <1>0, <2>1, <3>2 DEF PlaceInv, Tables, Programs
  <2>3. CASE semOf[1] = t /\ val' = val /\ uses' = uses
    <3>1. semOf' = semOf
      BY <2>1, <2>2, <2>3
    <3> QED BY <1>0, <2>2, <2>3, <3>1, LedgerQuiet
  <2>4. CASE /\ semOf[1] = None /\ (\A q \in Procs : proc[q].sem # t)
             /\ val' = [val EXCEPT ![t] = 0] /\ uses' = [uses EXCEPT ![t] = 0]
    <3>1. CASE s = t
      <4>1. Counted(s)' = {} /\ Owing(s)' = {} /\ Owed(s)' \in SUBSET Procs
        BY <2>2, <2>4, <3>1 DEF Counted, Owing, Owed
      <4>2. Cardinality(Counted(s)') = 0 /\ Cardinality(Owing(s)') = 0
        BY <4>1, FS_EmptySet
      <4>3. Cardinality(Owed(s)') \in Nat /\ Cardinality(Procs) \in Nat
        BY <4>1, FS_Subset, FS_CardinalityType, KeyLockAssumption
      <4>4. val'[s] = 0 /\ uses'[s] = 0
        BY <2>4, <3>1 DEF PlaceInv, Tables
      <4> QED BY <4>2, <4>3, <4>4 DEF CountAt, ValAt
    <3>2. CASE s # t
      <4>1. val'[s] = val[s] /\ uses'[s] = uses[s] /\ val[s] \in Nat /\ uses[s] \in Int
        BY <2>4, <3>2 DEF PlaceInv, Tables
      <4>2. ~Live(s)' \/ Live(s)
        BY <2>1, <2>2, <3>2 DEF Live
      <4>3. Weight(p, s)' <= Weight(p, s) /\ Weight(p, s)' \in Int /\ Weight(p, s) \in Int
        BY <1>0, <2>2, <3>2 DEF Weight, Owing, Owed
      <4>4. Share(p, s)' = Share(p, s) /\ Share(p, s) \in Int
        BY <2>2, <3>2 DEF Share, Counted
      <4> QED BY <2>2, <4>1, <4>2, <4>3, <4>4, LedgerMove
    <3> QED BY <3>1, <3>2
  <2> QED BY <2>1, <2>3, <2>4
<1>3. CASE SemSet(p)
  <2>1. uses' = uses /\ semOf' = semOf /\ proc[p].pc = "setval" /\ proc[p].counted = 0
    BY <1>0, <1>3 DEF SemSet, Stands, Early
  <2>2. CASE ~Exists(p)
    <3>1. proc' = [proc EXCEPT ![p] = Done] /\ val' = val
      BY <1>3, <2>2 DEF SemSet
    <3> QED BY <1>0, <2>1, <3>1, LedgerQuiet
  <2>3. CASE Exists(p)
    <3>1. /\ proc' = [q \in Procs |->
                 IF q = p THEN [proc[p] EXCEPT !.pc = "setkey"]
                 ELSE IF proc[q].sem = proc[p].sem THEN [proc[q] EXCEPT !.undo = 0] ELSE proc[q]]
          /\ val' = [val EXCEPT ![proc[p].sem] = 1]
      BY <1>3, <2>3 DEF SemSet
    <3>2. ASSUME NEW q \in Procs
          PROVE  /\ proc'[q].sem = proc[q].sem /\ proc'[q].counted = proc[q].counted
                 /\ proc'[q].pc = "done" <=> proc[q].pc = "done"
                 /\ proc'[q].undo = IF proc[q].sem = proc[p].sem THEN 0 ELSE proc[q].undo
      <4>1. proc[q] \in Programs /\ proc[p].undo = 0
        BY <1>0, <2>1 DEF Stands, Early
      <4> QED BY <1>0, <2>1, <3>1, <4>1 DEF Programs
    <3>3. CountAt(s)'
      <4>1. Counted(s)' = Counted(s)
        BY <3>2 DEF Counted
      <4> QED BY <2>1, <4>1 DEF CountAt
    <3>4. CASE s = proc[p].sem
      <4>1. Owing(s)' = {} /\ Owed(s)' \in SUBSET Procs
        BY <3>2, <3>4 DEF Owing, Owed
      <4>2. Cardinality(Owing(s)') = 0 /\ Cardinality(Owed(s)') \in Nat
        BY <4>1, FS_EmptySet, FS_Subset, FS_CardinalityType, KeyLockAssumption
      <4>3. val'[s] = 1
        BY <3>1, <3>4 DEF PlaceInv, Tables
      <4> QED BY <3>3, <4>2, <4>3 DEF ValAt
    <3>5. CASE s # proc[p].sem
      <4>1. Owing(s)' = Owing(s) /\ Owed(s)' = Owed(s)
        BY <3>2, <3>5 DEF Owing, Owed
      <4>2. val'[s] = val[s]
        BY <3>1, <3>5 DEF PlaceInv, Tables
      <4> QED BY <3>3, <4>1, <4>2 DEF ValAt
    <3> QED BY <3>4, <3>5
  <2> QED BY <2>2, <2>3
<1>4. CASE Count(p)
  <2>1. val' = val /\ semOf' = semOf /\ proc[p].pc = "count" /\ proc[p].counted = 0 /\ proc[p].undo = 0
    BY <1>0, <1>4 DEF Count, Stands, Early
  <2>2. CASE ~Exists(p)
    <3>1. proc' = [proc EXCEPT ![p] = Done] /\ uses' = uses
      BY <1>4, <2>2 DEF Count
    <3> QED BY <1>0, <2>1, <3>1, LedgerQuiet
  <2>3. CASE Exists(p)
    <3>1. /\ proc' = [proc EXCEPT ![p].pc = "asking", ![p].counted = 1]
          /\ uses' = [uses EXCEPT ![proc[p].sem] = @ + 1]
      BY <1>4, <2>3 DEF Count
    <3>2. /\ \A q \in Procs \ {p} : proc'[q] = proc[q]
          /\ proc'[p].pc = "asking" /\ proc'[p].counted = 1 /\ proc'[p].sem = proc[p].sem
          /\ proc'[p].undo = 0
      BY <1>0, <2>1, <3>1 DEF Programs
    <3>3. Weight(p, s)' = Weight(p, s) /\ Weight(p, s) \in Int
      BY <1>0, <2>1, <3>2 DEF Weight, Owing, Owed
    <3>4. Share(p, s) = 0 /\ Share(p, s)' = IF proc[p].sem = s THEN 1 ELSE 0
      BY <2>1, <3>2 DEF Share, Counted
    <3>5. uses'[s] = uses[s] + IF proc[p].sem = s THEN 1 ELSE 0
      BY <3>1 DEF PlaceInv, Tables
    <3>6. uses[s] \in Int /\ val[s] \in Nat /\ (Live(s)' <=> Live(s)) /\ (proc[p].sem = s => Live(s))
      BY <2>1, <2>3 DEF PlaceInv, Tables, Live, Exists
    <3>7. \/ Live(s) /\ uses'[s] + Share(p, s) = uses[s] + Share(p, s)'
          \/ ~Live(s)' /\ uses'[s] = uses[s]
      BY <3>4, <3>5, <3>6
    <3> QED BY <2>1, <3>2, <3>3, <3>6, <3>7, LedgerMove
  <2> QED BY <2>2, <2>3
<1>5. CASE Acquire(p)
  <2>1. proc[p].pc = "asking" /\ uses' = uses /\ semOf' = semOf
    BY <1>5 DEF Acquire, Holds
  <2> DEFINE k == IF variant = "none" THEN proc[p].key ELSE word[Place(p)]
             u == IF variant = "sem" THEN proc[p].undo + 1 ELSE proc[p].undo
  <2>2. proc' = [proc EXCEPT ![p].pc = "waiting", ![p].key = k, ![p].undo = u]
    BY <1>5 DEF Acquire, Holds
  <2>3. u = IF variant = "sem" THEN proc[p].undo + 1 ELSE proc[p].undo
    OBVIOUS
  <2> HIDE DEF k, u
  <2>4. /\ \A q \in Procs \ {p} : proc'[q] = proc[q]
        /\ proc'[p].pc = "waiting" /\ proc'[p].counted = proc[p].counted /\ proc'[p].sem = proc[p].sem
        /\ proc'[p].undo = u /\ proc[p].undo \in {-1, 0}
    BY <1>0, <2>1, <2>2 DEF Programs, Stands, Holding
  <2>5. CASE variant # "sem"
    <3>1. val' = val
      BY <1>5, <2>5 DEF Acquire, Holds
    <3> QED BY <1>0, <2>1, <2>3, <2>4, <2>5, <3>1, LedgerQuiet
  <2>6. CASE variant = "sem"
    <3>1. val' = [val EXCEPT ![proc[p].sem] = @ - 1]
      BY <1>5, <2>6 DEF Acquire, Holds
    <3>2. val[s] \in Nat /\ uses[s] \in Int /\ val'[s] = IF proc[p].sem = s THEN val[s] - 1 ELSE val[s]
      BY <3>1 DEF PlaceInv, Tables
    <3>3. /\ Weight(p, s) \in Int
          /\ Weight(p, s)' = IF proc[p].sem = s THEN Weight(p, s) + 1 ELSE Weight(p, s)
      BY <1>0, <2>1, <2>3, <2>4, <2>6 DEF Weight, Owing, Owed
    <3>4. Share(p, s)' = Share(p, s) /\ (Live(s)' <=> Live(s))
      BY <2>1, <2>4 DEF Share, Counted, Live
    <3>5. val'[s] + Weight(p, s)' <= val[s] + Weight(p, s)
      BY <3>2, <3>3
    <3> QED BY <2>1, <2>4, <3>4, <3>5, LedgerMove
  <2> QED BY <2>5, <2>6
<1>6. CASE AcquireFails(p) \/ Unlink(p)
  <2>1. /\ proc' = [proc EXCEPT ![p] = Done] /\ val' = val /\ uses' = uses /\ semOf' = semOf
        /\ ~Exists(p)
    BY <1>6 DEF AcquireFails, Unlink, Removed
  <2> QED BY <1>0, <2>1, LedgerQuiet
<1>7. CASE Leave(p) \/ Kill(p)
  BY <1>0, <1>7, LedgerEnds DEF Leave, Kill, Gone
<1>11. CASE Give(p)
  <2>1. proc[p].pc = "waiting" /\ val' = val /\ uses' = uses /\ semOf' = semOf
    BY <1>11 DEF Give
  <2>2. /\ \A q \in Procs \ {p} : proc'[q] = proc[q]
        /\ proc'[p].pc = "answered" /\ proc'[p].counted = proc[p].counted /\ proc'[p].sem = proc[p].sem
        /\ proc'[p].undo = proc[p].undo
    BY <1>0, <1>11 DEF Give, Programs
  <2> QED BY <1>0, <2>1, <2>2, LedgerQuiet
<1>8. CASE Store(p)
  <2>1. proc[p].pc = "answered" /\ semOf' = semOf
    BY <1>8 DEF Store
  <2>2. CASE Ends(p)
    BY <1>0, <2>1, <2>2, LedgerEnds
  <2>3. CASE ~Ends(p)
    <3> DEFINE w == IF p \in Byers THEN "bye" ELSE "asking"
               u == IF variant = "sem" THEN proc[p].undo - 1 ELSE proc[p].undo
    <3>1. /\ proc' = [proc EXCEPT ![p].pc = w, ![p].undo = u] /\ uses' = uses
          /\ val' = IF variant = "sem" THEN [val EXCEPT ![proc[p].sem] = @ + 1] ELSE val
      BY <1>8, <2>3 DEF Store
    <3>2. w # "done" /\ u = IF variant = "sem" THEN proc[p].undo - 1 ELSE proc[p].undo
      OBVIOUS
    <3> HIDE DEF w, u
    <3>3. /\ \A q \in Procs \ {p} : proc'[q] = proc[q]
          /\ proc'[p].pc # "done" /\ proc'[p].counted = proc[p].counted /\ proc'[p].sem = proc[p].sem
          /\ proc'[p].undo = u /\ proc[p].undo \in {0, 1}
      BY <1>0, <2>1, <3>1, <3>2 DEF Programs, Stands, Holding
    <3>4. CASE variant # "sem"
      BY <1>0, <2>1, <3>1, <3>2, <3>3, <3>4, LedgerQuiet
    <3>5. CASE variant = "sem"
      <4>1. val[s] \in Nat /\ uses[s] \in Int /\ val'[s] = IF proc[p].sem = s THEN val[s] + 1 ELSE val[s]
        BY <3>1, <3>5 DEF PlaceInv, Tables
      <4>2. /\ Weight(p, s) \in Int
            /\ Weight(p, s)' = IF proc[p].sem = s THEN Weight(p, s) - 1 ELSE Weight(p, s)
        BY <1>0, <3>2, <3>3, <3>5 DEF Weight, Owing, Owed
      <4>3. Share(p, s)' = Share(p, s) /\ (Live(s)' <=> Live(s))
        BY <2>1, <3>3 DEF Share, Counted, Live
      <4>4. val'[s] + Weight(p, s)' <= val[s] + Weight(p, s)
        BY <4>1, <4>2
      <4> QED BY <3>1, <3>3, <4>3, <4>4, LedgerMove
    <3> QED BY <3>4, <3>5
  <2> QED BY <2>2, <2>3
<1>9. CASE Destroy(p)
  <2>1. semOf' = semOf /\ proc[p].pc = "bye"
    BY <1>9 DEF Destroy
  <2>2. CASE Ends(p)
    BY <1>0, <2>1, <2>2, LedgerEnds
  <2>3. CASE ~Ends(p)
    <3>1. proc' = [proc EXCEPT ![p].pc = "rmsem"] /\ val' = val /\ uses' = uses
      BY <1>9, <2>3 DEF Destroy, Goes
    <3>2. /\ proc'[p].pc = "rmsem" /\ proc'[p].undo = proc[p].undo
          /\ proc'[p].sem = proc[p].sem /\ proc'[p].counted = proc[p].counted
          /\ \A q \in Procs \ {p} : proc'[q] = proc[q]
      BY <1>0, <3>1 DEF Programs
    <3> QED BY <1>0, <2>1, <3>1, <3>2, LedgerQuiet
  <2> QED BY <2>2, <2>3
<1>10. CASE RemoveSem(p) \/ RemoveShm(p)
  <2>1. /\ val' = val /\ uses' = uses /\ \A i \in Objs : semOf'[i] \in {semOf[i], None}
    BY <1>10 DEF RemoveSem, RemoveShm
  <2>2. \/ proc'[p] = Done /\ ~Exists(p)
        \/ /\ proc'[p].pc \in {"rmshm", "unlink"} /\ proc'[p].undo = proc[p].undo
           /\ proc'[p].sem = proc[p].sem /\ proc'[p].counted = proc[p].counted
    BY <1>0, <1>10 DEF RemoveSem, RemoveShm, Goes, Programs
  <2>3. \A q \in Procs \ {p} : proc'[q] = proc[q]
    BY <1>0, <1>10 DEF RemoveSem, RemoveShm, SemSet
  <2> QED BY <1>0, <2>1, <2>2, <2>3, LedgerQuiet
<1> QED BY <1>1, <1>2, <1>3, <1>4, <1>5, <1>6, <1>7, <1>8, <1>9, <1>10, <1>11 DEF Step

(* Semaphores in use by somebody get no new names.                         *)
LEMMA RemovedNext ==
    ASSUME PlaceInv, Shape, \A q \in Procs : Removed(q),
           NEW p \in Procs, Step(p) \/ Leave(p) \/ Kill(p), NEW q \in Procs
    PROVE  Removed(q)'
<1>0. /\ proc \in [Procs -> Programs] /\ proc[q] \in Programs /\ Stands(q) /\ Stands(p) /\ None \notin Objs
      /\ semOf \in [Objs -> Objs \cup {None}]
      /\ variant \in {"flock", "lockf", "shm", "sem", "none"}
  BY KeyLockAssumption DEF PlaceInv, Tables, Objs, None
<1> SUFFICES ASSUME proc'[q].pc \in {"rmshm", "unlink"} PROVE ~Exists(q)'
  BY DEF Removed
<1>1. CASE RemoveSem(p) /\ q = p
  <2>1. /\ proc'[q].sem = proc[q].sem
        /\ \A i \in Objs : semOf'[i] = (IF semOf[i] = proc[q].sem THEN None ELSE semOf[i])
        /\ proc[q].pc = "rmsem"
    BY <1>0, <1>1, DoneHere DEF RemoveSem, Programs
  <2>2. proc[q].sem \in Objs
    BY <1>0, <2>1 DEF Stands, OnlySem, Bare
  <2> QED BY <1>0, <2>1, <2>2 DEF Exists
<1>2. CASE ~(RemoveSem(p) /\ q = p)
  <2>1. proc[q].pc \in {"rmshm", "unlink"} /\ proc'[q].sem = proc[q].sem
    <3>1. CASE q # p /\ ~SemSet(p)
      BY <3>1, Others
    <3>2. CASE SemSet(p)
      BY <1>0, <3>2, DoneHere DEF SemSet, Programs
    <3>3. CASE q = p
      <4> USE <1>0, <3>3, DoneHere DEF Goes, Programs
      <4>1. CASE Open(p) BY <4>1 DEF Open
      <4>2. CASE Attach(p) BY <4>2 DEF Attach
      <4>3. CASE SemGet(p) \/ SetShare(p) \/ Count(p) BY <4>3 DEF SemGet, SetShare, Count
      <4>4. CASE SemCreate(p)
        <5>1. PICK s : proc' = [proc EXCEPT ![p].pc = "setval", ![p].sem = s]
          BY <4>4 DEF SemCreate
        <5> QED BY <5>1
      <4>5. CASE Acquire(p)
        <5> DEFINE k == IF variant = "none" THEN proc[p].key ELSE word[Place(p)]
                   u == IF variant = "sem" THEN proc[p].undo + 1 ELSE proc[p].undo
        <5>1. proc' = [proc EXCEPT ![p].pc = "waiting", ![p].key = k, ![p].undo = u]
          BY <4>5 DEF Acquire, Holds
        <5> HIDE DEF k, u
        <5> QED BY <5>1
      <4>6. CASE AcquireFails(p) \/ Leave(p) \/ Kill(p) \/ Unlink(p)
        BY <4>6 DEF AcquireFails, Leave, Kill, Gone, Unlink, Ends
      <4>7. CASE Give(p) \/ Store(p) BY <4>7 DEF Give, Store, Ends
      <4>8. CASE Destroy(p) BY <4>8 DEF Destroy, Ends
      <4>9. CASE RemoveShm(p) BY <4>9 DEF RemoveShm
      <4> QED BY <1>2, <3>2, <4>1, <4>2, <4>3, <4>4, <4>5, <4>6, <4>7, <4>8, <4>9 DEF Step
    <3> QED BY <3>1, <3>2, <3>3
  <2>2. ~Exists(q) /\ proc[q].sem \in Objs
    <3>1. variant = "sem"
      BY <1>0, <2>1 DEF Stands, OnlySem
    <3> QED BY <1>0, <2>1, <3>1 DEF Stands, Bare, Removed
  <2>3. CASE SemCreate(p)
    <3>1. PICK s \in Objs : /\ semOf' = [semOf EXCEPT ![1] = s]
                            /\ semOf[1] = s \/ \A r \in Procs : proc[r].sem # s
      BY <2>3, SemCreated
    <3> QED BY <1>0, <2>1, <2>2, <3>1 DEF Exists
  <2>4. CASE ~SemCreate(p)
    <3>1. \A i \in Objs : semOf'[i] \in {semOf[i], None}
      BY <1>0, <2>4 DEF Step, Open, Attach, SemGet, SetShare, Count, SemSet, Acquire, Holds, AcquireFails,
         Leave, Kill, Gone, Unlink, Give, Store, Destroy, RemoveSem, RemoveShm
    <3> QED BY <1>0, <2>1, <2>2, <3>1 DEF Exists
  <2> QED BY <2>3, <2>4
<1> QED BY <1>1, <1>2

LEMMA TypeInit == Init => TypeInv
<1> SUFFICES ASSUME Init PROVE TypeInv
  OBVIOUS
<1>1. 0 \in 0..MaxKeys /\ New \in Programs /\ NoKey \in -1..MaxKeys
  BY KeyLockAssumption DEF New, Programs, Places, NoKey
<1>2. Tables /\ OneInode
  <2>1. lost \in BOOLEAN
    BY DEF Init
  <2> QED BY <1>1, <2>1 DEF Init, Tables, OneInode, None
<1>3. \A q \in Procs : Stands(q) /\ Removed(q)
  BY DEF Init, New, Stands, Removed, Bare, Early, OnlySem, Holding
<1>4. ASSUME NEW s \in Objs PROVE CountAt(s) /\ ValAt(s)
  <2>1. Owing(s) = {} /\ Counted(s) = {} /\ Owed(s) = {}
    BY DEF Init, New, Owing, Counted, Owed
  <2>2. Cardinality(Procs) \in Nat /\ Cardinality({}) = 0
    BY FS_CardinalityType, FS_EmptySet, KeyLockAssumption
  <2> QED BY <2>1, <2>2 DEF Init, CountAt, ValAt
<1> QED BY <1>2, <1>3, <1>4 DEF TypeInv, PlaceInv

LEMMA TypeNext == LockInv /\ TypeInv /\ [Next]_vars => TypeInv'
<1> SUFFICES ASSUME LockInv, TypeInv, [Next]_vars PROVE TypeInv'
  OBVIOUS
<1>1. ASSUME NEW p \in Procs, Step(p) \/ Leave(p) \/ Kill(p) PROVE TypeInv'
  <2>1. PlaceInv'
    BY <1>1, PlaceNext DEF TypeInv, LockInv
  <2>2. \A q \in Procs : Removed(q)'
    BY <1>1, RemovedNext DEF TypeInv, LockInv
  <2>3. Objs' = Objs
    BY DEF Objs
  <2>4. \A s \in Objs : CountAt(s)' /\ ValAt(s)'
    BY <1>1, <2>1, LedgerNext DEF TypeInv, LockInv
  <2> QED BY <2>1, <2>2, <2>3, <2>4 DEF TypeInv
<1>2. CASE UNCHANGED vars
  <2>1. lost' = lost /\ lost \in BOOLEAN
    BY <1>2 DEF vars, TypeInv, PlaceInv, Tables
  <2>2. lost' \in BOOLEAN
    BY <2>1
  <2>3. Tables'
    BY <1>2, <2>2 DEF vars, TypeInv, PlaceInv, Tables
  <2> QED BY <1>2, <2>3 DEF vars, TypeInv, PlaceInv, OneInode, Stands, Removed, Exists, CountAt, ValAt,
             Counted, Owing, Owed
<1> QED BY <1>1, <1>2 DEF Next

(* Wherever programs are killed, the counter of a set of semaphores stays  *)
(* between 0 and the number of programs and the lock is never negative and *)
(* bounded by those that gave it back without having it; whoever reads a   *)
(* key has a file or segment to read; and a new inode, segment or set of   *)
(* semaphores always finds a number that is not in use.                    *)
THEOREM TypesHold == Spec => []TypeOK
<1>1. Init => TypeInv BY TypeInit
<1>2. LockInv /\ TypeInv /\ [Next]_vars => TypeInv' BY TypeNext
<1>3. TypeInv => TypeOK
  <2> SUFFICES ASSUME TypeInv PROVE TypeOK
    OBVIOUS
  <2>1. Tables
    BY DEF TypeInv, PlaceInv
  <2>2. ASSUME NEW s \in Objs PROVE val[s] \in 0..2 * Cardinality(Procs) /\ uses[s] \in 0..Cardinality(Procs)
    <3> DEFINE n == Cardinality(Procs)
               a == Cardinality(Owing(s))
               b == Cardinality(Owed(s))
    <3>1. a \in Nat /\ b \in Nat /\ b <= n /\ n \in Nat
      <4>1. Owing(s) \in SUBSET Procs /\ Owed(s) \in SUBSET Procs
        BY DEF Owing, Owed
      <4> QED BY <4>1, FS_Subset, FS_CardinalityType, KeyLockAssumption
    <3>2. val[s] + a <= 1 + b /\ uses[s] \in 0..n /\ val[s] \in Nat
      BY <2>1 DEF TypeInv, CountAt, ValAt, Tables
    <3>3. 1 <= n
      BY <3>1 DEF Objs
    <3> HIDE DEF a, b, n
    <3>4. val[s] \in 0..2 * n /\ uses[s] \in 0..n
      BY <3>1, <3>2, <3>3
    <3> QED BY <3>4 DEF n
  <2>3. val \in [Objs -> 0..2 * Cardinality(Procs)] /\ uses \in [Objs -> 0..Cardinality(Procs)]
    BY <2>1, <2>2 DEF Tables
  <2>4. ASSUME NEW p \in Procs
        PROVE  /\ proc[p].fd \in Objs \cup {None} /\ proc[p].ipc \in Objs \cup {None}
               /\ proc[p].shm \in Objs \cup {None} /\ proc[p].sem \in Objs \cup {None}
               /\ proc[p].key \in 0..MaxKeys /\ proc[p].undo \in -1..1
    BY <2>1 DEF Tables, Programs
  <2> QED BY <2>1, <2>3, <2>4 DEF Tables, TypeOK
<1> QED BY <1>1, <1>2, <1>3, LockInvariant, PTL DEF Spec
=============================================================================
