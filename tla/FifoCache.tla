----------------------------- MODULE FifoCache -----------------------------
(***************************************************************************)
(* The FIFO cache of server/fifocache.c, as the server uses it three times *)
(* (directory listings, directory status, open files): keys and entries    *)
(* both present, a destructor for each, and a comparison under which the   *)
(* zeroed key equals nothing.                                              *)
(*                                                                         *)
(* A slot holds a key and an entry; "obj" stands for what both own: the    *)
(* strdup'ed key, the listing, the open FILE.  The callers allocate it and *)
(* hand it over with f_cache_put(); the destructors free it.               *)
(***************************************************************************)
EXTENDS Integers

CONSTANTS
    Size,    \* cachesize
    Keys, NoKey,
    Objs, NoObj

ASSUME FifoAssumption ==
    /\ Size \in Nat \ {0}           \* f_cache_new() refuses 0
    /\ NoKey \notin Keys
    /\ NoObj \notin Objs

VARIABLES
    slots,   \* k_head and e_head
    next,    \* index of k_next and e_next
    live,    \* the objects allocated and not freed
    age,     \* age[i]: insertions since slot i was filled, Size when unfilled (history)
    filled   \* slots filled since the cache was cleared (history)

vars == <<slots, next, live, age, filled>>

Slots == 0..Size - 1
Empty == [key |-> NoKey, obj |-> NoObj]
Records == [key : Keys, obj : Objs]

Init == /\ slots = [i \in Slots |-> Empty]
        /\ next = 0
        /\ live = {}
        /\ age = [i \in Slots |-> Size]
        /\ filled = 0

(* Faulty variant: the test for the end is one slot late. *)
RollOver_Late(n) == IF n = Size THEN 0 ELSE n + 1

(* Faulty variant: the slot before the end is taken for the end. *)
RollOver_Early(n) == IF n + 2 >= Size THEN 0 ELSE n + 1

(* "roll over?" *)
RollOver(n) == IF n + 1 = Size THEN 0 ELSE n + 1

(* Faulty variant: what the slot held is not destroyed. *)
Put_Leaks(k) ==
    \E o \in Objs \ live :
        /\ live' = live \cup {o}
        /\ slots' = [slots EXCEPT ![next] = [key |-> k, obj |-> o]]
        /\ next' = RollOver(next)
        /\ age' = [i \in Slots |-> IF i = next THEN 0
                                   ELSE IF age[i] < Size THEN age[i] + 1 ELSE Size]
        /\ filled' = IF filled < Size THEN filled + 1 ELSE Size

(* f_cache_put(): the slot's old content is destroyed, whatever its key.   *)
Put(k) ==
    \E o \in Objs \ live :
        /\ live' = (live \ {slots[next].obj}) \cup {o}
        /\ slots' = [slots EXCEPT ![next] = [key |-> k, obj |-> o]]
        /\ next' = RollOver(next)
        /\ age' = [i \in Slots |-> IF i = next THEN 0
                                   ELSE IF age[i] < Size THEN age[i] + 1 ELSE Size]
        /\ filled' = IF filled < Size THEN filled + 1 ELSE Size

(* f_cache_find(): the first match in slot order; {} stands for NULL.      *)
Find(k) == {i \in Slots : slots[i].key = k /\ \A j \in 0..i - 1 : slots[j].key # k}

(* Faulty variant: the slots are not zeroed. *)
Delete_Dangles(D) ==
    /\ live' = live \ {slots[i].obj : i \in D}
    /\ UNCHANGED <<slots, next, age, filled>>

(* Destroy and zero the slots D. *)
Delete(D) ==
    /\ live' = live \ {slots[i].obj : i \in D}
    /\ slots' = [i \in Slots |-> IF i \in D THEN Empty ELSE slots[i]]
    /\ UNCHANGED <<next, age, filled>>

(* f_cache_delete_entry(), with a pointer into the cache as old as can be. *)
DeleteEntry == \E i \in Slots : Delete({i})

(* f_cache_delete_entry(f_cache_find(k)): nothing is deleted for NULL.     *)
DeleteFound(k) == Delete(Find(k))

(* f_cache_delete_by_key() *)
DeleteByKey(k) == Delete({i \in Slots : slots[i].key = k})

(* f_cache_clear() *)
Clear == /\ live' = live \ {slots[i].obj : i \in Slots}
         /\ slots' = [i \in Slots |-> Empty]
         /\ next' = 0
         /\ age' = [i \in Slots |-> Size]
         /\ filled' = 0

Next == \/ \E k \in Keys : Put(k) \/ DeleteFound(k) \/ DeleteByKey(k)
        \/ DeleteEntry
        \/ Clear

Spec == Init /\ [][Next]_vars
-----------------------------------------------------------------------------
TypeOK == /\ slots \in [Slots -> [key : Keys \cup {NoKey}, obj : Objs \cup {NoObj}]]
          /\ next \in Slots
          /\ live \subseteq Objs
          /\ age \in [Slots -> 0..Size]
          /\ filled \in 0..Size

(* Every object the cache was given is either in exactly one slot, or has  *)
(* been freed and is in none: put, delete and clear neither leak an object *)
(* nor leave one to be freed (a FILE closed) a second time.                *)
HeapBalanced ==
    /\ live = {slots[i].obj : i \in Slots} \ {NoObj}
    /\ \A i, j \in Slots : (slots[i].obj = slots[j].obj /\ slots[i].obj # NoObj) => i = j

(* The slot the next insertion overwrites has seen Size - 1 insertions     *)
(* since it was filled: a pointer f_cache_put() returned stays good for    *)
(* that long, deletions in between or not.                                 *)
OldestEvicted == age[next] \in {Size - 1, Size}

(* The cache as the queue of its last insertions.                          *)
Position(j) == LET n == next + Size - filled + j - 1
               IN  IF n < Size THEN n ELSE n - Size
Window == [j \in 1..filled |-> slots[Position(j)]]
Fifo == INSTANCE FifoSpec WITH window <- Window, Gone <- Empty
WindowRefined == Fifo!Spec
=============================================================================
