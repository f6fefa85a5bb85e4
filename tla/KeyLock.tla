------------------------------ MODULE KeyLock ------------------------------
(***************************************************************************)
(* client/lock.c: the client programs of a host share the key the server   *)
(* gave this host last.  Each has it to itself from its request to the     *)
(* answer.  lock.c has five ways to do this, one chosen at compile time:   *)
(*   flock   the key in a file, flock(); removed by fbye                   *)
(*   lockf   the key in a file, lockf(); never removed                     *)
(*   shm     the key in a System V segment, lockf() on a file              *)
(*   sem     the key in a segment, a System V semaphore; all removed by    *)
(*           the last program if that is fbye                              *)
(*   none    no sharing: each program has a key of its own                 *)
(* A program makes its calls one after the other; it may end or be killed  *)
(* anywhere, also when the server has given the next key and the program   *)
(* has not stored it.  Steps are the system calls that other programs can  *)
(* come between, and the server's handling of a request.                   *)
(***************************************************************************)
EXTENDS Integers, FiniteSets

CONSTANTS
    Procs,       \* the programs, each started once
    Byers,       \* those of them that are fbye
    Variants,    \* the ways of locking
    MaxKeys,     \* bound on the keys the server hands out
    MaxKills     \* bound on the programs killed

ASSUME KeyLockAssumption ==
    /\ IsFiniteSet(Procs) /\ Byers \subseteq Procs
    /\ Variants \subseteq {"flock", "lockf", "shm", "sem", "none"}
    /\ MaxKeys \in Nat /\ MaxKills \in Nat

VARIABLES
    variant,     \* the way of locking compiled in
    proc,        \* the programs, see New
    file,        \* the inode that key_string names, None for none
    shmOf,       \* the segment and
    semOf,       \* the semaphores ftok(key_string) stands for, by inode
    word,        \* the key in each inode or segment
    val, uses,   \* the two semaphores of each set: the lock, the counter
    given,       \* the last key of the server (next_key), 0 before the first
    last,        \* the key of the request it answered last (last_key), or NoKey
    lost,        \* the program answered last ended before it stored the key (history)
    kills,
    removed,     \* a file or segment has been removed (history)
    raced        \* a program met a semaphore still being initialised (history)

vars == <<variant, proc, file, shmOf, semOf, word, val, uses, given, last, lost, kills, removed, raced>>

None == 0
NoKey == -1                         \* no session: any key is taken as news
Objs == 1..Cardinality(Procs)       \* as many as programs can create

(* A program: where it is; its open file; the inode its IPC key was made   *)
(* of; its segment and semaphores; the key it uses (0: one of its own);    *)
(* what the kernel adds to the lock when it ends (SEM_UNDO); 1 when it is  *)
(* counted.                                                                *)
New == [pc |-> "new", fd |-> None, ipc |-> None, shm |-> None, sem |-> None,
        key |-> 0, undo |-> 0, counted |-> 0]
Done == [New EXCEPT !.pc = "done"]

Init == /\ variant \in Variants
        /\ proc = [p \in Procs |-> New]
        /\ file = None
        /\ shmOf = [o \in Objs |-> None] /\ semOf = [o \in Objs |-> None]
        /\ word = [o \in Objs |-> 0]
        /\ val = [o \in Objs |-> 0] /\ uses = [o \in Objs |-> 0]
        /\ given = 0 /\ last = NoKey /\ lost = FALSE /\ kills = 0
        /\ removed = FALSE /\ raced = FALSE

Lowest(S) == CHOOSE o \in S : \A r \in S : o <= r

(* What an inode stands for, or a new one; numbers are used again. *)
Named(table, i, users) ==
    IF table[i] # None THEN table[i] ELSE Lowest(Objs \ ({table[o] : o \in Objs} \cup users))

Exists(p) == \E i \in Objs : semOf[i] = proc[p].sem

(* The word with the key, and the change of it. *)
Place(p) == IF variant \in {"flock", "lockf"} THEN proc[p].fd ELSE proc[p].shm
Stored(p, k) == IF variant = "none" THEN word ELSE [word EXCEPT ![Place(p)] = k]

Goes(p, pc) == proc' = [proc EXCEPT ![p].pc = pc]
-----------------------------------------------------------------------------
(* client_init_key() *)

(* open(key_string, O_RDWR|O_CREAT); without locking nothing is opened. *)
Open(p) ==
    /\ proc[p].pc = "new"
    /\ IF variant = "none"
       THEN Goes(p, "asking") /\ UNCHANGED <<file, word>>
       ELSE LET i == IF file # None THEN file ELSE Lowest(Objs \ {proc[q].fd : q \in Procs})
            IN  /\ file' = i
                /\ word' = IF file = None /\ variant \in {"flock", "lockf"}
                           THEN [word EXCEPT ![i] = 0] ELSE word
                /\ proc' = [proc EXCEPT
                    ![p].pc = IF variant \in {"flock", "lockf"} THEN "asking" ELSE "opened",
                    ![p].fd = IF variant = "sem" THEN None ELSE i]
    /\ UNCHANGED <<variant, shmOf, semOf, val, uses, given, last, lost, kills, removed, raced>>

(* ftok(), shmget(IPC_CREAT), shmat(); ftok() needs the file. *)
Attach(p) ==
    /\ proc[p].pc = "opened"
    /\ IF file = None
       THEN proc' = [proc EXCEPT ![p] = Done] /\ UNCHANGED <<shmOf, word>>
       ELSE LET s == Named(shmOf, file, {proc[q].shm : q \in Procs})
            IN
              /\ shmOf' = [shmOf EXCEPT ![file] = s]
              /\ word' = IF shmOf[file] = None THEN [word EXCEPT ![s] = 0] ELSE word
              /\ proc' = [proc EXCEPT ![p].pc = IF variant = "shm" THEN "asking" ELSE "attached",
                                      ![p].ipc = file, ![p].shm = s]
    /\ UNCHANGED <<variant, file, semOf, val, uses, given, last, lost, kills, removed, raced>>

(* Semaphores that a program is about to give their first value. *)
Unready(s) == s # None /\ \E q \in Procs : proc[q].sem = s /\ proc[q].pc \in {"setval", "setkey"}

(* semget(lock_key, 0, 0) *)
SemGet(p) ==
    /\ proc[p].pc = "attached"
    /\ IF semOf[proc[p].ipc] = None THEN Goes(p, "create")
       ELSE proc' = [proc EXCEPT ![p].pc = "count", ![p].sem = semOf[proc[p].ipc]]
    /\ raced' = (raced \/ Unready(semOf[proc[p].ipc]))
    /\ UNCHANGED <<variant, file, shmOf, semOf, word, val, uses, given, last, lost, kills, removed>>

(* semget(lock_key, 2, IPC_CREAT|0666) *)
SemCreate(p) ==
    LET i == proc[p].ipc
        s == Named(semOf, i, {proc[q].sem : q \in Procs})
    IN  /\ proc[p].pc = "create"
        /\ proc' = [proc EXCEPT ![p].pc = "setval", ![p].sem = s]
        /\ semOf' = [semOf EXCEPT ![i] = s]
        /\ IF semOf[i] = None
           THEN val' = [val EXCEPT ![s] = 0] /\ uses' = [uses EXCEPT ![s] = 0]
           ELSE UNCHANGED <<val, uses>>
        /\ raced' = (raced \/ semOf[i] # None)
        /\ UNCHANGED <<variant, file, shmOf, word, given, last, lost, kills, removed>>

(* semctl(SETVAL), which also clears what the kernel would undo. *)
SemSet(p) ==
    /\ proc[p].pc = "setval"
    /\ IF Exists(p)
       THEN /\ val' = [val EXCEPT ![proc[p].sem] = 1]
            /\ proc' = [q \in Procs |->
                  IF q = p THEN [proc[p] EXCEPT !.pc = "setkey"]
                  ELSE IF proc[q].sem = proc[p].sem THEN [proc[q] EXCEPT !.undo = 0] ELSE proc[q]]
       ELSE proc' = [proc EXCEPT ![p] = Done] /\ UNCHANGED val
    /\ UNCHANGED <<variant, file, shmOf, semOf, word, uses, given, last, lost, kills, removed, raced>>

(* *share_key = key *)
SetShare(p) ==
    /\ proc[p].pc = "setkey"
    /\ Goes(p, "count")
    /\ word' = Stored(p, 0)
    /\ UNCHANGED <<variant, file, shmOf, semOf, val, uses, given, last, lost, kills, removed, raced>>

(* "increase in use counter" *)
Count(p) ==
    /\ proc[p].pc = "count"
    /\ IF Exists(p)
       THEN /\ proc' = [proc EXCEPT ![p].pc = "asking", ![p].counted = 1]
            /\ uses' = [uses EXCEPT ![proc[p].sem] = @ + 1]
       ELSE proc' = [proc EXCEPT ![p] = Done] /\ UNCHANGED uses
    /\ UNCHANGED <<variant, file, shmOf, semOf, word, val, given, last, lost, kills, removed, raced>>
-----------------------------------------------------------------------------
(* client_interact(): client_get_key(), the request, client_set_key() *)

(* Who has the lock: from client_get_key() to client_set_key(). *)
Holding == {"waiting", "answered"}
Holders == {p \in Procs : proc[p].pc \in Holding}

(* The lock of p is free; it exists. *)
Free(p) == CASE variant = "none" -> TRUE
             [] variant = "sem" -> Exists(p) /\ val[proc[p].sem] > 0
             [] OTHER -> \A q \in Holders \ {p} : proc[q].fd # proc[p].fd

(* p has the lock, and the key. *)
Holds(p, undo) ==
    /\ proc' = [proc EXCEPT ![p].pc = "waiting",
                            ![p].key = IF variant = "none" THEN @ ELSE word[Place(p)],
                            ![p].undo = IF variant = "sem" THEN @ + undo ELSE @]
    /\ val' = IF variant = "sem" THEN [val EXCEPT ![proc[p].sem] = @ - 1] ELSE val
    /\ UNCHANGED <<variant, file, shmOf, semOf, word, uses, given, last, lost, kills, removed, raced>>

(* Faulty variant: the lock is not waited for. *)
Acquire_NoWait(p) ==
    /\ proc[p].pc = "asking"
    /\ variant = "sem" => Exists(p)
    /\ Holds(p, 1)

(* Faulty variant: semop() without SEM_UNDO. *)
Acquire_NoUndo(p) ==
    /\ proc[p].pc = "asking"
    /\ Free(p)
    /\ Holds(p, 0)

(* client_get_key(): wait for the lock, read the key. *)
Acquire(p) ==
    /\ proc[p].pc = "asking"
    /\ Free(p)
    /\ Holds(p, 1)

(* semop() on a semaphore that is no more: exit(EX_OSERR). *)
AcquireFails(p) ==
    /\ proc[p].pc = "asking" /\ variant = "sem" /\ ~Exists(p)
    /\ proc' = [proc EXCEPT ![p] = Done]
    /\ UNCHANGED <<variant, file, shmOf, semOf, word, val, uses, given, last, lost, kills, removed, raced>>

(* What the kernel does for a program that ends. *)
Ends(p) ==
    LET s == proc[p].sem
        restored == val[s] + proc[p].undo
    IN  /\ proc' = [proc EXCEPT ![p] = Done]
        /\ IF s # None /\ Exists(p)
           THEN /\ val' = [val EXCEPT ![s] = IF restored < 0 THEN 0 ELSE restored]
                /\ uses' = [uses EXCEPT ![s] = @ - proc[p].counted]
           ELSE UNCHANGED <<val, uses>>

(* The request is a repetition of the one answered last, as far as keys    *)
(* tell.  Keys the programs made up are all different, but in a segment,   *)
(* where they are what it had at first.                                    *)
Repeats(p) == /\ proc[p].key # given /\ proc[p].key = last
              /\ proc[p].key # 0 \/ variant \in {"shm", "sem"}

(* The server takes the request, at once or after a timeout, and gives the *)
(* next key: the same again to a repetition.  The call of fbye is CC_BYE,  *)
(* which ends the session.  A request that comes after its program ended   *)
(* is taken as if it had come just before: the word is the same.           *)
Give(p) ==
    /\ proc[p].pc = "waiting"
    /\ \/ Repeats(p) /\ given' = given
       \/ ~Repeats(p) /\ given < MaxKeys /\ given' = given + 1
    /\ last' = IF p \in Byers THEN NoKey ELSE proc[p].key
    /\ lost' = FALSE
    /\ proc' = [proc EXCEPT ![p].pc = "answered", ![p].key = given']
    /\ UNCHANGED <<variant, file, shmOf, semOf, word, val, uses, kills, removed, raced>>

(* Faulty variant: the lock is given back and the key not stored. *)
Store_NoStore(p) ==
    /\ proc[p].pc = "answered"
    /\ Ends(p)
    /\ UNCHANGED <<variant, file, shmOf, semOf, word, given, last, lost, kills, removed, raced>>

(* The answer comes: client_set_key().  The program ends or makes another  *)
(* call; fbye goes on to client_destroy_key().                             *)
Store(p) ==
    /\ proc[p].pc = "answered"
    /\ word' = Stored(p, proc[p].key)
    /\ \/ (p \notin Byers \/ (variant = "sem" /\ ~Exists(p))) /\ Ends(p)
       \/ /\ variant = "sem" => Exists(p)
          /\ proc' = [proc EXCEPT ![p].pc = IF p \in Byers THEN "bye" ELSE "asking",
                                  ![p].undo = IF variant = "sem" THEN @ - 1 ELSE @]
          /\ val' = IF variant = "sem" THEN [val EXCEPT ![proc[p].sem] = @ + 1] ELSE val
          /\ UNCHANGED uses
    /\ UNCHANGED <<variant, file, shmOf, semOf, given, last, lost, kills, removed, raced>>

(* p ends before its call returns; what the server gave it is lost. *)
Gone(p) ==
    /\ Ends(p)
    /\ lost' = (lost \/ proc[p].pc = "answered")
    /\ UNCHANGED <<variant, file, shmOf, semOf, word, given, last, removed, raced>>

(* "Remote server not responding": exit().  The request was lost, or all   *)
(* the answers to it.                                                      *)
Leave(p) == proc[p].pc \in Holding /\ Gone(p) /\ UNCHANGED kills

Kill(p) ==
    /\ proc[p].pc \notin {"new", "done"} /\ kills < MaxKills
    /\ Gone(p)
    /\ kills' = kills + 1
-----------------------------------------------------------------------------
(* client_destroy_key(), after the CC_BYE of fbye *)

(* flock: close and unlink; lockf: close; shm: remove the segment; sem:    *)
(* detach, and "check if we are only one process holding lock".            *)
Destroy(p) ==
    /\ proc[p].pc = "bye"
    /\ IF variant = "sem" /\ Exists(p) /\ uses[proc[p].sem] = 1
       THEN Goes(p, "rmsem") /\ UNCHANGED <<val, uses>>
       ELSE Ends(p)
    /\ file' = IF variant = "flock" THEN None ELSE file
    /\ shmOf' = IF variant = "shm"
                THEN [i \in Objs |-> IF shmOf[i] = proc[p].shm THEN None ELSE shmOf[i]] ELSE shmOf
    /\ removed' = (removed \/ variant \in {"flock", "shm"})
    /\ UNCHANGED <<variant, semOf, word, given, last, lost, kills, raced>>

(* "safe to destroy": the semaphores, the segment, the file; the next only *)
(* if the one before could be removed.                                     *)
RemoveSem(p) ==
    /\ proc[p].pc = "rmsem"
    /\ proc' = [proc EXCEPT ![p] = IF Exists(p) THEN [@ EXCEPT !.pc = "rmshm"] ELSE Done]
    /\ semOf' = [i \in Objs |-> IF semOf[i] = proc[p].sem THEN None ELSE semOf[i]]
    /\ removed' = TRUE
    /\ UNCHANGED <<variant, file, shmOf, word, val, uses, given, last, lost, kills, raced>>

RemoveShm(p) ==
    /\ proc[p].pc = "rmshm"
    /\ Goes(p, "unlink")
    /\ shmOf' = [i \in Objs |-> IF shmOf[i] = proc[p].shm THEN None ELSE shmOf[i]]
    /\ UNCHANGED <<variant, file, semOf, word, val, uses, given, last, lost, kills, removed, raced>>

Unlink(p) ==
    /\ proc[p].pc = "unlink"
    /\ proc' = [proc EXCEPT ![p] = Done]
    /\ file' = None
    /\ UNCHANGED <<variant, shmOf, semOf, word, val, uses, given, last, lost, kills, removed, raced>>

Step(p) == \/ Open(p) \/ Attach(p) \/ SemGet(p) \/ SemCreate(p) \/ SemSet(p)
           \/ SetShare(p) \/ Count(p)
           \/ Acquire(p) \/ AcquireFails(p) \/ Give(p) \/ Store(p)
           \/ Destroy(p) \/ RemoveSem(p) \/ RemoveShm(p) \/ Unlink(p)

Next == \E p \in Procs : Step(p) \/ Leave(p) \/ Kill(p)

Spec == Init /\ [][Next]_vars

(* A started program goes on; a request is answered, or given up after     *)
(* env_timeout.  The kernel serves who waits for a lock in turn.           *)
FairSpec == /\ Spec
            /\ \A p \in Procs : /\ WF_vars(Step(p) /\ proc[p].pc # "new")
                                /\ WF_vars(Leave(p))
-----------------------------------------------------------------------------
TypeOK ==
    /\ variant \in Variants
    /\ file \in Objs \cup {None}
    /\ shmOf \in [Objs -> Objs \cup {None}] /\ semOf \in [Objs -> Objs \cup {None}]
    /\ word \in [Objs -> 0..MaxKeys]
    /\ val \in [Objs -> 0..2 * Cardinality(Procs)] /\ uses \in [Objs -> 0..Cardinality(Procs)]
    /\ given \in 0..MaxKeys /\ last \in -1..MaxKeys /\ lost \in BOOLEAN
    /\ \A p \in Procs : /\ proc[p].fd \in Objs \cup {None} /\ proc[p].ipc \in Objs \cup {None}
                        /\ proc[p].shm \in Objs \cup {None} /\ proc[p].sem \in Objs \cup {None}
                        /\ proc[p].key \in 0..MaxKeys /\ proc[p].undo \in -1..1

(* The lock keeps apart who has the same lock: in "lockf" and "shm" all,   *)
(* in "flock" until an fbye has removed the file, in "sem" until an fbye   *)
(* has removed it or somebody met it before it was initialised.            *)
Apart == \/ variant \in {"lockf", "shm"}
         \/ variant = "flock" /\ ~removed
         \/ variant = "sem" /\ ~removed /\ ~raced
OneHolder == Apart => \A p, q \in Holders : p = q

(* As long as no fbye has removed the key, a request carries the key the   *)
(* server gave the host last, whichever program it gave it to.  One        *)
(* exception: that program ended, by itself or killed, before it stored    *)
(* the key.  Then the request carries the key of that program's request,   *)
(* with which the server takes it for a repetition and gives the same key  *)
(* again; after a CC_BYE there is no session, and any key will do.  (Where *)
(* that key is 0, the file is still empty and a program makes one up.)     *)
LastKeyUsed ==
    Apart /\ ~removed =>
        \A p \in Procs : proc[p].pc = "waiting" =>
            \/ proc[p].key = given
            \/ lost /\ last \in {proc[p].key, NoKey}

(* Nobody waits for the lock of a program that has ended, by itself or     *)
(* killed, but for the lock of a semaphore whose creator was killed before *)
(* it gave it its value.                                                   *)
Unset(p) == variant = "sem" /\ val[proc[p].sem] = 0 /\ kills > 0
            /\ \A q \in Procs : proc[q].sem = proc[p].sem => proc[q].pc \notin {"setval", "waiting", "answered"}
NobodyStuck == \A p \in Procs : proc[p].pc = "asking" ~> (proc[p].pc # "asking" \/ Unset(p))
=============================================================================
