-------------------------- MODULE FifoCacheProofs --------------------------
(***************************************************************************)
(* Proofs about FifoCache for every Size, every set of keys and of         *)
(* objects: the cache stays well typed, owns exactly the objects it was    *)
(* given and has not destroyed, and overwrites its oldest record.          *)
(***************************************************************************)
EXTENDS FifoCache, SequenceTheorems, TLAPS

(* The ages of all slots, as the ring fills: behind next the insertions of *)
(* this round, from next on those of the round before, if there was one.   *)
Ages == \A i \in Slots :
            /\ i < next => age[i] = next - 1 - i
            /\ i >= next => age[i] \in {Size, Size - 1 - i + next}

FifoInv == TypeOK /\ HeapBalanced /\ Ages

(* The slot after the last is the first: "roll over?" of f_cache_put().    *)
LEMMA RollOverInSlots == ASSUME NEW n \in Slots PROVE RollOver(n) \in Slots
BY FifoAssumption DEF RollOver, Slots

(* f_cache_new() establishes the invariant. *)
LEMMA FifoInit == Init => FifoInv
BY FifoAssumption, SMTT(30) DEF Init, FifoInv, TypeOK, HeapBalanced, Ages, Slots, Empty

(* f_cache_put() keeps the records well typed. *)
LEMMA PutType == ASSUME TypeOK, NEW k \in Keys, Put(k) PROVE TypeOK'
<1>1. PICK o \in Objs \ live :
        /\ live' = (live \ {slots[next].obj}) \cup {o}
        /\ slots' = [slots EXCEPT ![next] = [key |-> k, obj |-> o]]
  BY DEF Put
<1>2. slots' \in [Slots -> [key : Keys \cup {NoKey}, obj : Objs \cup {NoObj}]]
  BY <1>1 DEF TypeOK
<1>3. next' \in Slots
  BY RollOverInSlots DEF Put, TypeOK
<1>4. live' \subseteq Objs
  BY <1>1 DEF TypeOK
<1>5. age' \in [Slots -> 0..Size]
  BY FifoAssumption DEF Put, TypeOK
<1>6. filled' \in 0..Size
  BY FifoAssumption DEF Put, TypeOK
<1> QED BY <1>2, <1>3, <1>4, <1>5, <1>6 DEF TypeOK

(* f_cache_put() gives up what the slot held and owns the new object.      *)
LEMMA PutHeap == ASSUME TypeOK, HeapBalanced, NEW k \in Keys, Put(k) PROVE HeapBalanced'
<1>1. PICK o \in Objs \ live :
        /\ live' = (live \ {slots[next].obj}) \cup {o}
        /\ slots' = [slots EXCEPT ![next] = [key |-> k, obj |-> o]]
  BY DEF Put
<1>2. /\ slots'[next].obj = o
      /\ \A i \in Slots : i # next => slots'[i].obj = slots[i].obj
  BY <1>1 DEF TypeOK
<1>3. o # NoObj
  BY <1>1, FifoAssumption
<1>4. \A i \in Slots : slots[i].obj # o
  BY <1>1, <1>3 DEF HeapBalanced
<1>5. live' = {slots'[i].obj : i \in Slots} \ {NoObj}
  <2>1. ASSUME NEW x \in live' PROVE \E i \in Slots : x = slots'[i].obj /\ x # NoObj
    BY <1>1, <1>2, <1>3 DEF HeapBalanced, TypeOK
  <2>2. ASSUME NEW i \in Slots, slots'[i].obj # NoObj PROVE slots'[i].obj \in live'
    <3>1. CASE i = next BY <3>1, <1>1, <1>2
    <3>2. CASE i # next BY <3>2, <1>1, <1>2, <2>2 DEF HeapBalanced, TypeOK
    <3> QED BY <3>1, <3>2
  <2> QED BY <2>1, <2>2
<1>6. \A i, j \in Slots : (slots'[i].obj = slots'[j].obj /\ slots'[i].obj # NoObj) => i = j
  BY <1>2, <1>4 DEF HeapBalanced
<1> QED BY <1>5, <1>6 DEF HeapBalanced

(* f_cache_put() ages every record by one and moves next past the youngest. *)
LEMMA PutAges == ASSUME TypeOK, Ages, NEW k \in Keys, Put(k) PROVE Ages'
<1>1. /\ next \in Nat /\ next < Size /\ Size \in Nat
      /\ next' = IF next + 1 = Size THEN 0 ELSE next + 1
      /\ \A i \in Slots : age'[i] = IF i = next THEN 0
                                    ELSE IF age[i] < Size THEN age[i] + 1 ELSE Size
  BY FifoAssumption DEF Put, TypeOK, RollOver, Slots
<1> SUFFICES ASSUME NEW i \in Slots
             PROVE /\ i < next' => age'[i] = next' - 1 - i
                   /\ i >= next' => age'[i] \in {Size, Size - 1 - i + next'}
  BY DEF Ages
<1>2. i \in Nat /\ i < Size /\ age[i] \in Nat
  BY <1>1 DEF Slots, TypeOK
<1>3. CASE i = next BY <1>1, <1>2, <1>3
<1>4. CASE i < next BY <1>1, <1>2, <1>4 DEF Ages
<1>5. CASE i > next BY <1>1, <1>2, <1>5 DEF Ages
<1> QED BY <1>1, <1>2, <1>3, <1>4, <1>5

(* Destroying and zeroing any set of slots keeps the invariant. *)
LEMMA DeleteInv == ASSUME FifoInv, NEW D \in SUBSET Slots, Delete(D) PROVE FifoInv'
<1>1. TypeOK'
  BY DEF FifoInv, TypeOK, Delete, Empty
<1>2. HeapBalanced'
  <2>1. \A i \in Slots : slots'[i].obj = IF i \in D THEN NoObj ELSE slots[i].obj
    BY DEF Delete, Empty
  <2>2. live' = live \ {slots[i].obj : i \in D}
    BY DEF Delete
  <2>3. live' = {slots'[i].obj : i \in Slots} \ {NoObj}
    <3>1. ASSUME NEW x \in live' PROVE \E i \in Slots : x = slots'[i].obj /\ x # NoObj
      BY <2>1, <2>2 DEF FifoInv, HeapBalanced
    <3>2. ASSUME NEW i \in Slots, slots'[i].obj # NoObj PROVE slots'[i].obj \in live'
      BY <2>1, <2>2, <3>2 DEF FifoInv, HeapBalanced
    <3> QED BY <3>1, <3>2
  <2>4. \A i, j \in Slots : (slots'[i].obj = slots'[j].obj /\ slots'[i].obj # NoObj) => i = j
    BY <2>1 DEF FifoInv, HeapBalanced
  <2> QED BY <2>3, <2>4 DEF HeapBalanced
<1>3. Ages'
  BY DEF FifoInv, Ages, Delete
<1> QED BY <1>1, <1>2, <1>3 DEF FifoInv

(* f_cache_clear() destroys everything and starts over. *)
LEMMA ClearInv == ASSUME FifoInv, Clear PROVE FifoInv'
<1>1. TypeOK'
  BY FifoAssumption DEF FifoInv, TypeOK, Clear, Slots, Empty
<1>2. HeapBalanced'
  BY DEF FifoInv, HeapBalanced, Clear, Empty
<1>3. Ages'
  BY FifoAssumption DEF Ages, Clear, Slots
<1> QED BY <1>1, <1>2, <1>3 DEF FifoInv

LEMMA FifoNext == FifoInv /\ [Next]_vars => FifoInv'
<1> SUFFICES ASSUME FifoInv, [Next]_vars PROVE FifoInv'
  OBVIOUS
<1>1. ASSUME NEW k \in Keys, Put(k) PROVE FifoInv'
  BY <1>1, PutType, PutHeap, PutAges DEF FifoInv
<1>2. ASSUME NEW k \in Keys, DeleteFound(k) PROVE FifoInv'
  <2>1. Find(k) \in SUBSET Slots
    BY DEF Find
  <2> QED BY <1>2, <2>1, DeleteInv DEF DeleteFound
<1>3. ASSUME NEW k \in Keys, DeleteByKey(k) PROVE FifoInv'
  <2>1. {i \in Slots : slots[i].key = k} \in SUBSET Slots
    OBVIOUS
  <2> QED BY <1>3, <2>1, DeleteInv DEF DeleteByKey
<1>4. CASE DeleteEntry
  <2>1. PICK i \in Slots : Delete({i})
    BY <1>4 DEF DeleteEntry
  <2>2. {i} \in SUBSET Slots
    OBVIOUS
  <2> QED BY <2>1, <2>2, DeleteInv
<1>5. CASE Clear BY <1>5, ClearInv
<1>6. CASE UNCHANGED vars
  BY <1>6 DEF vars, FifoInv, TypeOK, HeapBalanced, Ages
<1> QED BY <1>1, <1>2, <1>3, <1>4, <1>5, <1>6 DEF Next

(* The inductive invariant of the cache. *)
THEOREM FifoInvariant == Spec => []FifoInv
BY FifoInit, FifoNext, PTL DEF Spec

(* The state of the cache has the types that f_cache_put(), _delete and    *)
(* _clear() assume: k_next never leaves the array.                         *)
THEOREM FifoTypeCorrect == Spec => []TypeOK
<1>1. FifoInv => TypeOK BY DEF FifoInv
<1> QED BY <1>1, FifoInvariant, PTL

(* No object handed to the cache is leaked or freed twice. *)
THEOREM NoLeakNoDoubleFree == Spec => []HeapBalanced
<1>1. FifoInv => HeapBalanced BY DEF FifoInv
<1> QED BY <1>1, FifoInvariant, PTL

(* f_cache_put() overwrites the oldest record: a pointer it returned stays *)
(* good for Size - 1 insertions.                                           *)
THEOREM PutEvictsOldest == Spec => []OldestEvicted
<1>1. FifoInv => OldestEvicted
  <2> SUFFICES ASSUME FifoInv PROVE OldestEvicted
    OBVIOUS
  <2>1. next \in Slots /\ next \in Int /\ Size \in Int
    BY FifoAssumption DEF FifoInv, TypeOK, Slots
  <2>2. age[next] \in {Size, Size - 1 - next + next}
    BY <2>1 DEF FifoInv, Ages
  <2> QED BY <2>1, <2>2 DEF OldestEvicted
<1> QED BY <1>1, FifoInvariant, PTL
-----------------------------------------------------------------------------
(* The ring implements the queue of the last Size insertions.              *)

(* Until the ring has been round once it fills from slot 0. *)
FillsInOrder == filled < Size => next = filled

Stored == [key : Keys \cup {NoKey}, obj : Objs \cup {NoObj}]

(* The window has its records in the slots they are claimed to be in. *)
WindowTyped ==
    /\ Window \in Seq(Stored) /\ Len(Window) = filled
    /\ \A j \in 1..filled : Position(j) \in Slots /\ Window[j] = slots[Position(j)]

LEMMA WindowType == FifoInv => WindowTyped
<1> SUFFICES ASSUME TypeOK PROVE WindowTyped
  BY DEF FifoInv
<1>1. filled \in Nat /\ filled <= Size /\ next \in Nat /\ next < Size /\ Size \in Nat
  BY FifoAssumption DEF TypeOK, Slots
<1>2. \A j \in 1..filled : Position(j) \in Slots
  BY <1>1 DEF Position, Slots
<1>3. \A j \in 1..filled : slots[Position(j)] \in Stored
  BY <1>2 DEF TypeOK, Stored
<1>4. Window \in [1..filled -> Stored]
  BY <1>3 DEF Window
<1>5. Window \in Seq(Stored) /\ Len(Window) = filled
  BY <1>1, <1>4
<1> QED BY <1>2, <1>5 DEF Window, WindowTyped

(* The same after a step. *)
LEMMA WindowTypeNext == FifoInv' => WindowTyped'
BY WindowType, PTL

(* f_cache_put() appends to the window, which gives up its oldest record   *)
(* when it is full, though nothing moves in the ring.                      *)
LEMMA PutStep ==
    ASSUME FifoInv, FifoInv', FillsInOrder, NEW k \in Keys, Put(k)
    PROVE  \E r \in Records : Fifo!Insert(r)
<1>1. PICK o \in Objs : slots' = [slots EXCEPT ![next] = [key |-> k, obj |-> o]]
  BY DEF Put
<1> DEFINE r == [key |-> k, obj |-> o]
           W == IF Len(Window) = Size THEN Tail(Window) ELSE Window
<1>2. /\ next \in Nat /\ next < Size /\ Size \in Nat /\ filled \in Nat /\ filled <= Size
      /\ next' = IF next + 1 = Size THEN 0 ELSE next + 1
      /\ filled' = IF filled < Size THEN filled + 1 ELSE Size
  BY FifoAssumption DEF FifoInv, TypeOK, Put, RollOver, Slots
<1>3. r \in Records /\ r \in Stored
  BY DEF Records, Stored
<1>4. \A i \in Slots : slots'[i] = IF i = next THEN r ELSE slots[i]
  BY <1>1 DEF FifoInv, TypeOK
<1>5. /\ Window \in Seq(Stored) /\ Len(Window) = filled
      /\ \A j \in 1..filled : Position(j) \in Slots /\ Window[j] = slots[Position(j)]
  BY WindowType DEF WindowTyped
<1>6. /\ Window' \in Seq(Stored) /\ Len(Window') = filled'
      /\ \A j \in 1..filled' : /\ Position(j)' \in Slots
                               /\ Window'[j] = slots'[Position(j)']
  BY WindowTypeNext DEF WindowTyped
<1>7. CASE filled < Size
  <2>1. W = Window /\ filled' = filled + 1
    BY <1>2, <1>5, <1>7
  <2>2. /\ Append(Window, r) \in Seq(Stored) /\ Len(Append(Window, r)) = filled + 1
        /\ \A j \in 1..filled : Append(Window, r)[j] = Window[j]
        /\ Append(Window, r)[filled + 1] = r
    BY <1>3, <1>5, AppendProperties
  <2>3. ASSUME NEW j \in 1..filled + 1 PROVE Window'[j] = Append(Window, r)[j]
    <3>1. next = filled /\ Position(j)' = j - 1 /\ (j # filled + 1 => Position(j) = j - 1)
      BY <1>2, <1>7 DEF FillsInOrder, Position
    <3>2. Window'[j] = slots'[j - 1] /\ j - 1 \in Slots
      BY <1>2, <1>6, <2>1, <3>1 DEF Slots
    <3>3. CASE j = filled + 1
      BY <1>2, <1>4, <2>2, <3>1, <3>2, <3>3
    <3>4. CASE j # filled + 1
      <4>1. j \in 1..filled /\ j - 1 # next
        BY <1>2, <3>1, <3>4
      <4> QED BY <1>4, <1>5, <2>2, <3>1, <3>2, <3>4, <4>1
    <3> QED BY <3>3, <3>4
  <2>4. Window' = Append(Window, r)
    BY <1>6, <2>1, <2>2, <2>3, SeqEqual
  <2> QED BY <1>3, <2>1, <2>4 DEF Fifo!Insert
<1>8. CASE filled = Size
  <2>1. W = Tail(Window) /\ filled' = filled /\ Window # <<>>
    BY <1>2, <1>5, <1>8
  <2>2. /\ W \in Seq(Stored) /\ Len(W) = filled - 1
        /\ \A j \in 1..filled - 1 : W[j] = Window[j + 1]
    BY <1>5, <2>1, HeadTailProperties
  <2>3. /\ Append(W, r) \in Seq(Stored) /\ Len(Append(W, r)) = filled
        /\ \A j \in 1..filled - 1 : Append(W, r)[j] = W[j]
        /\ Append(W, r)[filled] = r
    <3> HIDE DEF W, r
    <3>1. Len(W) + 1 = filled
      BY <1>2, <2>2
    <3> QED BY <1>3, <2>2, <3>1, AppendProperties
  <2>4. ASSUME NEW j \in 1..filled PROVE Window'[j] = Append(W, r)[j]
    <3>1. Window'[j] = slots'[Position(j)'] /\ Position(j)' \in Slots
      BY <1>6, <2>1
    <3>2. CASE j = filled
      <4>1. Position(j)' = next
        BY <1>2, <1>8, <3>2 DEF Position
      <4> QED BY <1>4, <2>3, <3>1, <3>2, <4>1
    <3>3. CASE j # filled
      <4>1. j + 1 \in 1..filled /\ j \in 1..filled - 1
        BY <1>2, <3>3
      <4>2. Position(j)' = Position(j + 1) /\ Position(j + 1) # next
        BY <1>2, <1>8, <3>3 DEF Position
      <4> QED BY <1>4, <1>5, <2>2, <2>3, <3>1, <4>1, <4>2
    <3> QED BY <3>2, <3>3
  <2>5. Window' = Append(W, r)
    <3> HIDE DEF W, r
    <3> QED BY <1>6, <2>1, <2>3, <2>4, SeqEqual
  <2> QED BY <1>3, <2>5 DEF Fifo!Insert
<1> QED BY <1>2, <1>7, <1>8

(* A deletion leaves gaps in the window and moves nothing. *)
LEMMA DeleteStep ==
    ASSUME FifoInv, NEW D \in SUBSET Slots, Delete(D)
    PROVE  \E S \in SUBSET (DOMAIN Window) : Fifo!Delete(S)
<1> DEFINE S == {j \in DOMAIN Window : Position(j) \in D}
<1>1. DOMAIN Window = 1..filled /\ \A j \in 1..filled : Position(j) \in Slots
  BY WindowType DEF WindowTyped, Window
<1>2. filled' = filled /\ \A j \in 1..filled : Position(j)' = Position(j)
  BY DEF Delete, Position
<1>3. \A i \in Slots : slots'[i] = IF i \in D THEN Empty ELSE slots[i]
  BY DEF Delete
<1>4. Window' = [j \in 1..filled |-> slots'[Position(j)]]
  BY <1>2 DEF Window
<1>5. Window' = [j \in DOMAIN Window |-> IF j \in S THEN Empty ELSE Window[j]]
  BY <1>1, <1>3, <1>4 DEF Window
<1> QED BY <1>5 DEF Fifo!Delete

LEMMA ClearStep == filled = 0 => Window = <<>>
BY DEF Window

LEMMA ClearStepNext == filled' = 0 => Window' = <<>>
BY DEF Window

LEMMA SameWindow == ASSUME UNCHANGED vars PROVE UNCHANGED Window
BY DEF vars, Window, Position

LEMMA WindowNext ==
    FifoInv /\ FifoInv' /\ FillsInOrder /\ [Next]_vars => [Fifo!Next]_Window
<1> SUFFICES ASSUME FifoInv, FifoInv', FillsInOrder, [Next]_vars
             PROVE  Fifo!Next \/ UNCHANGED Window
  OBVIOUS
<1>1. ASSUME NEW k \in Keys, Put(k) PROVE Fifo!Next
  BY <1>1, PutStep DEF Fifo!Next
<1>2. ASSUME NEW D \in SUBSET Slots, Delete(D) PROVE Fifo!Next
  BY <1>2, DeleteStep DEF Fifo!Next
<1>3. ASSUME NEW k \in Keys, DeleteFound(k) \/ DeleteByKey(k) PROVE Fifo!Next
  <2>1. Find(k) \in SUBSET Slots /\ {i \in Slots : slots[i].key = k} \in SUBSET Slots
    BY DEF Find
  <2> QED BY <1>2, <1>3, <2>1 DEF DeleteFound, DeleteByKey
<1>4. ASSUME DeleteEntry PROVE Fifo!Next
  <2>1. PICK i \in Slots : Delete({i})
    BY <1>4 DEF DeleteEntry
  <2> QED BY <1>2, <2>1
<1>5. ASSUME Clear PROVE Fifo!Next
  BY <1>5, ClearStepNext DEF Clear, Fifo!Next, Fifo!Clear
<1> QED BY <1>1, <1>3, <1>4, <1>5, SameWindow DEF Next

LEMMA FillsNext == FifoInv /\ FillsInOrder /\ [Next]_vars => FillsInOrder'
<1> SUFFICES ASSUME FifoInv, FillsInOrder, [Next]_vars PROVE FillsInOrder'
  OBVIOUS
<1>1. filled \in Nat /\ Size \in Nat /\ filled <= Size /\ next \in Nat
  BY FifoAssumption DEF FifoInv, TypeOK, Slots
<1>2. ASSUME NEW k \in Keys, Put(k) PROVE FillsInOrder'
  BY <1>1, <1>2 DEF FillsInOrder, Put, RollOver
<1>3. ASSUME UNCHANGED <<next, filled>> PROVE FillsInOrder'
  BY <1>3 DEF FillsInOrder
<1>4. ASSUME Clear PROVE FillsInOrder'
  BY <1>4 DEF FillsInOrder, Clear
<1> QED BY <1>2, <1>3, <1>4 DEF Next, vars, DeleteFound, DeleteByKey, DeleteEntry, Delete

(* A cache of any size is the queue of its last insertions, oldest first,  *)
(* but for those deleted: a deletion, even through an old pointer, changes *)
(* nothing about when the others are overwritten.                          *)
THEOREM RingRefinesWindow == Spec => WindowRefined
<1>1. Init => FillsInOrder /\ Fifo!Init
  BY ClearStep DEF Init, FillsInOrder, Fifo!Init
<1>2. Spec => []FillsInOrder
  BY <1>1, FillsNext, FifoInvariant, PTL DEF Spec
<1> QED BY <1>1, <1>2, WindowNext, FifoInvariant, PTL DEF Spec, WindowRefined, Fifo!Spec
=============================================================================
