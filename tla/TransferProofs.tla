--------------------------- MODULE TransferProofs ---------------------------
(***************************************************************************)
(* Proofs about Transfer for any number of users, jobs and restarts, any   *)
(* lengths, any size of the cache and of the buffers, when the server is   *)
(* only ever ended in order and the disk has room (Orderly).  Without that *)
(* the properties do not hold.                                             *)
(*                                                                         *)
(* First, what the file commands of FileStore do to the server's state.    *)
(* B is what blocks are taken from.                                        *)
(***************************************************************************)
EXTENDS Transfer, FiniteSetTheorems, WellFoundedInduction, SequenceTheorems, TLAPS

Reading(u) == <<"F", u>>      \* the key of a file that u reads
Visible == {Target} \cup {Grabbed(u) : u \in Users}
KeySet == {Empty.key} \cup ({"F", "T", "G"} \X Users)

Entries(B) == [key : KeySet, file : Files \cup {NoFile}, at : Nat, pend : Seq(B), open : BOOLEAN]
States(B) == [deleters : SUBSET Users, dir : [Paths -> Files \cup {NoFile}], data : [Files -> Seq(B)],
              slots : [Slots -> Entries(B)], next : Slots, damaged : BOOLEAN]

(* A file has one name at most, a key one slot. *)
Links(s) == \A p, q \in Paths : p # q /\ s.dir[p] = s.dir[q] => s.dir[p] = NoFile
OneSlot(s) == \A i, j \in Slots : i # j /\ s.slots[i].key = s.slots[j].key => s.slots[i] = Empty

(* What is open for an upload is the temporary file; what is open for      *)
(* reading is not, and has nothing buffered; a FILE of a grab is closed.   *)
Uploading(s, e) == \A u \in Users : e.key = Temp(u) =>
    e.open /\ e.file = s.dir[Temp(u)] /\ e.at <= Len(s.data[e.file])
Unwritten(s, e) == \A u \in Users : e.key = Reading(u) =>
    e.open /\ e.pend = <<>> /\ \A w \in Users : e.file # s.dir[Temp(w)]
Shut(e) == \A u \in Users : e.key = Grabbed(u) => ~e.open /\ e.pend = <<>>
EntryOK(s, e) == /\ IF e.key = Empty.key THEN e = Empty ELSE e.file # NoFile
                 /\ Uploading(s, e) /\ Unwritten(s, e) /\ Shut(e)

Sound(s, B) == s \in States(B) /\ Links(s) /\ OneSlot(s) /\ \A i \in Slots : EntryOK(s, s.slots[i])

-----------------------------------------------------------------------------
(* What users see of the state: what a temporary file will hold when it is *)
(* closed, what is under a name, what is open for reading.                 *)
Holds(s, u) ==
    LET e == s.slots[Slot(s, Temp(u))]
    IN  IF Cached(s, Temp(u)) = {} THEN s.data[s.dir[Temp(u)]]
        ELSE Overwritten(s.data[e.file], e.at, e.pend)
Shows(s, p) == IF Exists(s, p) THEN s.data[s.dir[p]] ELSE <<>>
Reads(s, u, d) == \E i \in Slots : s.slots[i].key = Reading(u) /\ s.data[s.slots[i].file] = d

(* Where an open file is written next: its end. *)
AtEnd(s, u) == \A i \in Slots : s.slots[i].key = Temp(u) => Tell(s, i) = Len(Holds(s, u))

SameTemps(s, t, U) == \A u \in U : /\ Exists(t, Temp(u)) <=> Exists(s, Temp(u))
                                   /\ Exists(s, Temp(u)) => Holds(t, u) = Holds(s, u)
                                   /\ AtEnd(s, u) => AtEnd(t, u)
SameNames(s, t, P) == \A p \in P : /\ Exists(t, p) <=> Exists(s, p)
                                   /\ Shows(t, p) = Shows(s, p)
NoNewReads(s, t, U) == \A u \in U : \A d : Reads(t, u, d) => Reads(s, u, d)

(* A step that nobody sees anything of, but that a file may no longer be   *)
(* open for reading.                                                       *)
Quiet(s, t) == SameTemps(s, t, Users) /\ SameNames(s, t, Visible) /\ NoNewReads(s, t, Users)
-----------------------------------------------------------------------------
LEMMA Names ==
    /\ Target \in Paths /\ Empty.key \in KeySet
    /\ \A u \in Users : /\ Temp(u) \in Paths /\ Grabbed(u) \in Paths
                        /\ Temp(u) \in KeySet /\ Grabbed(u) \in KeySet /\ Reading(u) \in KeySet
                        /\ Temp(u) # Target /\ Grabbed(u) # Target
    /\ \A u, w \in Users : /\ Temp(u) # Grabbed(w) /\ Reading(u) # Temp(w) /\ Reading(u) # Grabbed(w)
                           /\ Temp(u) = Temp(w) => u = w
                           /\ Grabbed(u) = Grabbed(w) => u = w
                           /\ Reading(u) = Reading(w) => u = w
    /\ \A u \in Users : Empty.key \notin {Temp(u), Grabbed(u), Reading(u)}
BY FileStoreAssumption DEF Target, Temp, Grabbed, Reading, Paths, KeySet, Empty

LEMMA Kinds ==
    /\ \A p \in Paths : p \in Visible \/ \E u \in Users : p = Temp(u)
    /\ \A k \in KeySet : k = Empty.key \/ \E u \in Users : k \in {Temp(u), Grabbed(u), Reading(u)}
    /\ Visible \subseteq Paths /\ \A u \in Users : Temp(u) \notin Visible /\ Grabbed(u) \in Visible
    /\ Target \in Visible
<1>1. \A p \in Paths : p \in Visible \/ \E u \in Users : p = Temp(u)
  BY DEF Paths, Visible, Temp, Grabbed
<1>2. ASSUME NEW k \in KeySet, k # Empty.key PROVE \E u \in Users : k \in {Temp(u), Grabbed(u), Reading(u)}
  <2>1. PICK x \in {"F", "T", "G"}, u \in Users : k = <<x, u>>
    BY <1>2 DEF KeySet
  <2> QED BY <2>1 DEF Temp, Grabbed, Reading
<1>3. Visible \subseteq Paths /\ \A u \in Users : Temp(u) \notin Visible /\ Grabbed(u) \in Visible
  BY Names DEF Visible
<1>4. Target \in Visible
  BY DEF Visible
<1> QED BY <1>1, <1>2, <1>3, <1>4

LEMMA EmptyEntry == ASSUME NEW B PROVE Empty \in Entries(B)
BY EmptySeq DEF Empty, Entries, KeySet, NoFile

LEMMA FilesAre == Files \subseteq Nat \ {NoFile} /\ NoFile \notin Files
BY DEF Files, NoFile
-----------------------------------------------------------------------------
(* Overwritten() *)
LEMMA OverwrittenIs ==
    ASSUME NEW B, NEW old \in Seq(B), NEW at \in Nat, at <= Len(old), NEW new \in Seq(B), NEW n \in Nat,
           at + Len(new) > Len(old) => n = at + Len(new),
           at + Len(new) <= Len(old) => n = Len(old)
    PROVE  /\ Overwritten(old, at, new) =
                [i \in 1..n |-> IF i \in at + 1..at + Len(new) THEN new[i - at] ELSE old[i]]
           /\ Overwritten(old, at, new) \in Seq(B)
           /\ Len(Overwritten(old, at, new)) = n
<1> DEFINE f == [i \in 1..n |-> IF i \in at + 1..at + Len(new) THEN new[i - at] ELSE old[i]]
<1>1. Len(old) \in Nat /\ Len(new) \in Nat
  BY LenProperties
<1>2. (IF at + Len(new) > Len(old) THEN at + Len(new) ELSE Len(old)) = n
  BY <1>1
<1>3. Overwritten(old, at, new) = f
  BY <1>2 DEF Overwritten
<1>4. ASSUME NEW i \in 1..n PROVE f[i] \in B
  <2>1. CASE i \in at + 1..at + Len(new)
    <3>1. i - at \in 1..Len(new) BY <1>1, <2>1
    <3> QED BY <2>1, <3>1, ElementOfSeq
  <2>2. CASE i \notin at + 1..at + Len(new)
    <3>1. i \in 1..Len(old) BY <1>1, <2>2
    <3> QED BY <2>2, <3>1, ElementOfSeq
  <2> QED BY <2>1, <2>2
<1>5. f \in [1..n -> B]
  BY <1>4
<1>6. f \in Seq(B)
  BY <1>5, SeqDef
<1>7. DOMAIN f = 1..Len(f) /\ Len(f) \in Nat
  BY <1>6, LenProperties
<1>8. DOMAIN f = 1..n
  OBVIOUS
<1>9. Len(f) = n
  BY <1>7, <1>8
<1> QED BY <1>3, <1>6, <1>9

LEMMA OverwrittenType ==
    ASSUME NEW B, NEW old \in Seq(B), NEW at \in Nat, at <= Len(old), NEW new \in Seq(B)
    PROVE  /\ Overwritten(old, at, new) \in Seq(B)
           /\ Len(Overwritten(old, at, new)) \in Nat
           /\ Len(Overwritten(old, at, new)) >= Len(old)
           /\ Len(Overwritten(old, at, new)) >= at + Len(new)
           /\ at + Len(new) >= Len(old) => Len(Overwritten(old, at, new)) = at + Len(new)
           /\ at + Len(new) <= Len(old) => Len(Overwritten(old, at, new)) = Len(old)
<1>1. Len(old) \in Nat /\ Len(new) \in Nat
  BY LenProperties
<1>2. PICK n \in Nat : /\ at + Len(new) > Len(old) => n = at + Len(new)
                       /\ at + Len(new) <= Len(old) => n = Len(old)
  BY <1>1
<1> DEFINE o == Overwritten(old, at, new)
<1>3. o \in Seq(B) /\ Len(o) = n
  BY <1>2, OverwrittenIs
<1> HIDE DEF o
<1>4. /\ o \in Seq(B) /\ Len(o) \in Nat /\ Len(o) >= Len(old) /\ Len(o) >= at + Len(new)
      /\ at + Len(new) >= Len(old) => Len(o) = at + Len(new)
      /\ at + Len(new) <= Len(old) => Len(o) = Len(old)
  BY <1>1, <1>2, <1>3
<1> QED BY <1>4 DEF o

LEMMA OverwrittenNothing ==
    ASSUME NEW B, NEW old \in Seq(B), NEW at \in Nat, at <= Len(old)
    PROVE  Overwritten(old, at, <<>>) = old
<1> DEFINE f == [i \in 1..Len(old) |-> old[i]]
<1>1. Len(old) \in Nat /\ Len(<<>>) = 0
  BY LenProperties
<1>2. (IF at + Len(<<>>) > Len(old) THEN at + Len(<<>>) ELSE Len(old)) = Len(old)
  BY <1>1
<1>3. \A i \in 1..Len(old) : i \notin at + 1..at + Len(<<>>)
  BY <1>1
<1>4. Overwritten(old, at, <<>>) = f
  BY <1>2, <1>3 DEF Overwritten
<1>5. f = old
  BY LenProperties
<1> QED BY <1>4, <1>5

(* A block written behind what is written. *)
LEMMA OverwrittenTwice ==
    ASSUME NEW B, NEW old \in Seq(B), NEW at \in Nat, at <= Len(old), NEW new \in Seq(B), NEW b \in B
    PROVE  Overwritten(Overwritten(old, at, new), at + Len(new), <<b>>) = Overwritten(old, at, Append(new, b))
<1>0. Len(old) \in Nat /\ Len(new) \in Nat /\ <<b>> \in Seq(B) /\ Len(<<b>>) = 1 /\ <<b>>[1] = b
  BY LenProperties
<1>1. PICK n \in Nat : /\ at + Len(new) > Len(old) => n = at + Len(new)
                       /\ at + Len(new) <= Len(old) => n = Len(old)
  BY <1>0
<1> DEFINE more == Append(new, b)
<1>2. /\ more \in Seq(B) /\ Len(more) = Len(new) + 1
      /\ \A i \in 1..Len(new) : more[i] = new[i]
      /\ more[Len(new) + 1] = b
  BY AppendProperties
<1> HIDE DEF more
<1>3. PICK m \in Nat : /\ at + Len(more) > Len(old) => m = at + Len(more)
                       /\ at + Len(more) <= Len(old) => m = Len(old)
  BY <1>0, <1>2
<1> DEFINE once == [i \in 1..n |-> IF i \in at + 1..at + Len(new) THEN new[i - at] ELSE old[i]]
           q == at + Len(new)
           twice == [i \in 1..m |-> IF i \in q + 1..q + Len(<<b>>) THEN <<b>>[i - q] ELSE once[i]]
           all == [i \in 1..m |-> IF i \in at + 1..at + Len(more) THEN more[i - at] ELSE old[i]]
<1>4. Overwritten(old, at, new) = once /\ once \in Seq(B) /\ Len(once) = n
  <2>1. (IF at + Len(new) > Len(old) THEN at + Len(new) ELSE Len(old)) = n
    BY <1>0, <1>1
  <2>2. Overwritten(old, at, new) = once
    BY <2>1 DEF Overwritten
  <2>3. Overwritten(old, at, new) \in Seq(B) /\ Len(Overwritten(old, at, new)) = n
    BY <1>1, OverwrittenIs
  <2> HIDE DEF once
  <2> QED BY <2>2, <2>3
<1>5. Overwritten(old, at, more) = all
  <2>1. (IF at + Len(more) > Len(old) THEN at + Len(more) ELSE Len(old)) = m
    BY <1>0, <1>2, <1>3
  <2> QED BY <2>1 DEF Overwritten
<1>6. Overwritten(once, q, <<b>>) = twice
  <2> HIDE DEF once
  <2>1. (IF q + Len(<<b>>) > Len(once) THEN q + Len(<<b>>) ELSE Len(once)) = m
    BY <1>0, <1>1, <1>2, <1>3, <1>4
  <2> QED BY <2>1 DEF Overwritten
<1>7. ASSUME NEW i \in 1..m PROVE twice[i] = all[i]
  <2>1. CASE i = at + Len(new) + 1
    BY <1>0, <1>2, <2>1
  <2>2. CASE i # at + Len(new) + 1 /\ i \in at + 1..at + Len(new)
    <3>1. i \in 1..n /\ i - at \in 1..Len(new)
      BY <1>0, <1>1, <2>2
    <3> QED BY <1>0, <1>2, <2>2, <3>1
  <2>3. CASE i # at + Len(new) + 1 /\ i \notin at + 1..at + Len(new)
    <3>1. i \in 1..n
      BY <1>0, <1>1, <1>2, <1>3, <2>3
    <3> QED BY <1>0, <1>2, <2>3, <3>1
  <2> QED BY <2>1, <2>2, <2>3
<1>8. twice = all
  BY <1>7
<1> QED BY <1>4, <1>5, <1>6, <1>8 DEF more
LEMMA OverwrittenBlock ==
    ASSUME NEW B, NEW old \in Seq(B), NEW b \in B
    PROVE  Overwritten(old, Len(old), <<b>>) = Append(old, b)
<1>1. Len(old) \in Nat /\ Len(old) + 1 \in Nat /\ <<b>> \in Seq(B) /\ Len(<<b>>) = 1 /\ <<b>>[1] = b
  BY LenProperties
<1>2. Append(old, b) \in Seq(B)
  BY AppendProperties
<1> DEFINE n == Len(old) + 1
           f == [i \in 1..n |-> IF i \in Len(old) + 1..Len(old) + Len(<<b>>) THEN <<b>>[i - Len(old)] ELSE old[i]]
           g == [i \in 1..n |-> Append(old, b)[i]]
<1>3. Overwritten(old, Len(old), <<b>>) = f
  <2>1. (IF Len(old) + Len(<<b>>) > Len(old) THEN Len(old) + Len(<<b>>) ELSE Len(old)) = n
    BY <1>1
  <2> QED BY <2>1 DEF Overwritten
<1>4. Append(old, b) = g
  <2> DEFINE h == Append(old, b)
  <2>1. h \in Seq(B) /\ Len(h) = n BY <1>1, AppendProperties
  <2> HIDE DEF h
  <2>2. h = [i \in 1..n |-> h[i]] BY <2>1, LenProperties
  <2> QED BY <2>2 DEF h
<1>5. f = g
  <2>1. /\ \A i \in 1..Len(old) : Append(old, b)[i] = old[i]
        /\ Append(old, b)[Len(old) + 1] = b
    BY AppendProperties
  <2>2. ASSUME NEW i \in 1..n PROVE f[i] = g[i]
    <3>1. CASE i = Len(old) + 1 BY <1>1, <2>1, <3>1
    <3>2. CASE i # Len(old) + 1
      <4>1. i \in 1..Len(old) BY <1>1, <3>2
      <4> QED BY <1>1, <2>1, <4>1
    <3> QED BY <3>1, <3>2
  <2> QED BY <2>2
<1> QED BY <1>3, <1>4, <1>5
-----------------------------------------------------------------------------
(* A key is in one slot, which is the one found. *)
LEMMA SlotOf ==
    ASSUME NEW B, NEW s, Sound(s, B), NEW i \in Slots, s.slots[i].key # Empty.key
    PROVE  Cached(s, s.slots[i].key) = {i} /\ Slot(s, s.slots[i].key) = i
<1>1. Cached(s, s.slots[i].key) = {i}
  <2>1. ASSUME NEW j \in Slots, j # i PROVE s.slots[j].key # s.slots[i].key
    BY <2>1 DEF Sound, OneSlot, Empty
  <2> QED BY <2>1 DEF Cached
<1>2. i \in Nat
  BY FileStoreAssumption DEF Slots
<1> QED BY <1>1, <1>2 DEF Slot

LEMMA HoldsWhat ==
    ASSUME NEW B, NEW s, Sound(s, B), NEW u \in Users
    PROVE  /\ (\A i \in Slots : s.slots[i].key # Temp(u)) => Holds(s, u) = s.data[s.dir[Temp(u)]]
           /\ \A i \in Slots : s.slots[i].key = Temp(u) =>
                 Holds(s, u) = Overwritten(s.data[s.slots[i].file], s.slots[i].at, s.slots[i].pend)
<1>1. ASSUME \A i \in Slots : s.slots[i].key # Temp(u) PROVE Holds(s, u) = s.data[s.dir[Temp(u)]]
  BY <1>1 DEF Holds, Cached
<1>2. ASSUME NEW i \in Slots, s.slots[i].key = Temp(u)
      PROVE  Holds(s, u) = Overwritten(s.data[s.slots[i].file], s.slots[i].at, s.slots[i].pend)
  <2>1. Cached(s, Temp(u)) = {i} /\ Slot(s, Temp(u)) = i
    BY <1>2, SlotOf, Names
  <2> QED BY <2>1 DEF Holds
<1> QED BY <1>1, <1>2

(* A temporary file that is open exists. *)
LEMMA OpenExists ==
    ASSUME NEW B, NEW s, Sound(s, B), NEW u \in Users, NEW i \in Slots, s.slots[i].key = Temp(u)
    PROVE  Exists(s, Temp(u)) /\ s.dir[Temp(u)] \in Files /\ s.slots[i].file = s.dir[Temp(u)]
BY Names DEF Sound, EntryOK, Uploading, Exists, States

LEMMA HoldsType ==
    ASSUME NEW B, NEW s, Sound(s, B), NEW u \in Users, Exists(s, Temp(u))
    PROVE  /\ Holds(s, u) \in Seq(B)
           /\ \A i \in Slots : s.slots[i].key = Temp(u) =>
                /\ Len(Holds(s, u)) >= Tell(s, i)
                /\ Len(Holds(s, u)) >= Len(s.data[s.slots[i].file])
<1>1. ASSUME \A i \in Slots : s.slots[i].key # Temp(u) PROVE Holds(s, u) \in Seq(B)
  <2>1. Holds(s, u) = s.data[s.dir[Temp(u)]]
    BY <1>1, HoldsWhat
  <2>2. s.dir[Temp(u)] \in Files
    BY Names DEF Sound, States, Exists
  <2> QED BY <2>1, <2>2 DEF Sound, States
<1>2. ASSUME NEW i \in Slots, s.slots[i].key = Temp(u)
      PROVE  /\ Holds(s, u) \in Seq(B) /\ Len(Holds(s, u)) >= Tell(s, i)
             /\ Len(Holds(s, u)) >= Len(s.data[s.slots[i].file])
  <2> DEFINE e == s.slots[i]
  <2>1. e.file \in Files
    BY <1>2, OpenExists
  <2>2. e \in Entries(B) /\ s.data[e.file] \in Seq(B) /\ e.at <= Len(s.data[e.file])
    BY <1>2, <2>1 DEF Sound, States, EntryOK, Uploading
  <2>3. e.at \in Nat /\ e.pend \in Seq(B)
    BY <2>2 DEF Entries
  <2>4. Holds(s, u) = Overwritten(s.data[e.file], e.at, e.pend)
    BY <1>2, HoldsWhat
  <2>5. Len(e.pend) \in Nat /\ Len(s.data[e.file]) \in Nat
    BY <2>2, <2>3, LenProperties
  <2> HIDE DEF e
  <2>6. Holds(s, u) \in Seq(B) /\ Len(Holds(s, u)) >= e.at + Len(e.pend) /\ Len(Holds(s, u)) >= Len(s.data[e.file])
    BY <2>2, <2>3, <2>4, <2>5, OverwrittenType
  <2> QED BY <2>6 DEF e, Tell
<1> QED BY <1>1, <1>2
-----------------------------------------------------------------------------
LEMMA Fields ==
    ASSUME NEW B, NEW s \in States(B)
    PROVE  /\ \A p \in Paths : s.dir[p] \in Files \cup {NoFile}
           /\ \A f \in Files : s.data[f] \in Seq(B) /\ Len(s.data[f]) \in Nat
           /\ \A i \in Slots : /\ s.slots[i].key \in KeySet /\ s.slots[i].file \in Files \cup {NoFile}
                               /\ s.slots[i].at \in Nat /\ s.slots[i].pend \in Seq(B)
                               /\ s.slots[i].open \in BOOLEAN /\ Len(s.slots[i].pend) \in Nat
BY LenProperties DEF States, Entries

(* A step that changes one slot and, if it is that of an upload, its file. *)
Elsewhere(s, t, i) == /\ t.dir = s.dir /\ t.deleters = s.deleters
                      /\ \A j \in Slots \ {i} : t.slots[j] = s.slots[j]
DataElsewhere(s, t, i) ==
    \A f \in Files : \/ t.data[f] = s.data[f]
                     \/ \E u \in Users : s.slots[i].key = Temp(u) /\ f = s.dir[Temp(u)]
Fits(s, t, i) == /\ t.slots[i].key \in {Empty.key, s.slots[i].key} \/ Cached(s, t.slots[i].key) = {}
                 /\ EntryOK(t, t.slots[i])
NotUploading(s, t, i) == {u \in Users : Temp(u) \notin {s.slots[i].key, t.slots[i].key}}
NotReading(e) == {u \in Users : e.key # Reading(u)}

LEMMA SlotChanged ==
    ASSUME NEW B, NEW s, Sound(s, B), NEW t \in States(B), NEW i \in Slots,
           Elsewhere(s, t, i), DataElsewhere(s, t, i), Fits(s, t, i)
    PROVE  /\ Sound(t, B)
           /\ SameTemps(s, t, NotUploading(s, t, i))
           /\ SameNames(s, t, Visible)
           /\ NoNewReads(s, t, NotReading(t.slots[i]))
<1> USE DEF Elsewhere, DataElsewhere, Fits
<1>1. s \in States(B)
  BY DEF Sound
<1>2. ASSUME NEW p \in Paths, s.dir[p] # NoFile, \A u \in Users : p = Temp(u) => s.slots[i].key # Temp(u)
      PROVE  t.data[s.dir[p]] = s.data[s.dir[p]]
  <2>1. s.dir[p] \in Files
    BY <1>1, <1>2, Fields
  <2>2. ASSUME NEW u \in Users, s.slots[i].key = Temp(u), s.dir[p] = s.dir[Temp(u)] PROVE FALSE
    BY <1>2, <2>2, Names DEF Sound, Links
  <2> QED BY <2>1, <2>2
<1>3. ASSUME NEW u \in Users, NEW j \in Slots, j # i, s.slots[j].key = Temp(u) PROVE s.slots[i].key # Temp(u)
  <2>1. ASSUME s.slots[i].key = Temp(u) PROVE s.slots[j] = Empty
    BY <1>3, <2>1 DEF Sound, OneSlot
  <2> QED BY <1>3, <2>1, Names
<1>4. OneSlot(t)
  <2>1. ASSUME NEW j \in Slots, j # i, t.slots[j].key = t.slots[i].key
        PROVE  t.slots[j] = Empty /\ t.slots[i] = Empty
    <3>1. t.slots[j] = s.slots[j] /\ EntryOK(s, s.slots[j])
      BY <2>1 DEF Sound
    <3>2. CASE t.slots[i].key = Empty.key
      BY <2>1, <3>1, <3>2 DEF EntryOK
    <3>3. CASE t.slots[i].key = s.slots[i].key
      <4>1. s.slots[j] = Empty
        BY <2>1, <3>1, <3>3 DEF Sound, OneSlot
      <4> QED BY <2>1, <3>1, <4>1 DEF EntryOK
    <3>4. CASE Cached(s, t.slots[i].key) = {}
      BY <2>1, <3>1, <3>4 DEF Cached
    <3> QED BY <3>2, <3>3, <3>4
  <2>2. ASSUME NEW j \in Slots, NEW k \in Slots, j # k, t.slots[j].key = t.slots[k].key PROVE t.slots[j] = Empty
    <3>1. CASE j = i \/ k = i
      BY <2>1, <2>2, <3>1
    <3>2. CASE j # i /\ k # i
      BY <2>2, <3>2 DEF Sound, OneSlot
    <3> QED BY <3>1, <3>2
  <2> QED BY <2>2 DEF OneSlot
<1>5. ASSUME NEW j \in Slots, j # i PROVE EntryOK(t, t.slots[j])
  <2>1. t.slots[j] = s.slots[j] /\ EntryOK(s, s.slots[j])
    BY <1>5 DEF Sound
  <2>2. ASSUME NEW u \in Users, s.slots[j].key = Temp(u)
        PROVE  /\ s.slots[j].open /\ s.slots[j].file = t.dir[Temp(u)]
               /\ s.slots[j].at <= Len(t.data[s.slots[j].file])
    <3>1. s.slots[j].open /\ s.slots[j].file = s.dir[Temp(u)] /\ s.slots[j].at <= Len(s.data[s.slots[j].file])
      BY <2>1, <2>2 DEF EntryOK, Uploading
    <3>2. s.dir[Temp(u)] # NoFile
      BY <2>2, OpenExists DEF Exists
    <3>3. t.data[s.dir[Temp(u)]] = s.data[s.dir[Temp(u)]]
      BY <1>2, <1>3, <1>5, <2>2, <3>2, Names
    <3> QED BY <3>1, <3>3
  <2>3. Uploading(t, s.slots[j])
    BY <2>2 DEF Uploading
  <2> QED BY <2>1, <2>3 DEF EntryOK, Unwritten
<1>6. Sound(t, B)
  BY <1>4, <1>5 DEF Sound, Links
<1>7. ASSUME NEW u \in Users, Temp(u) # s.slots[i].key, Temp(u) # t.slots[i].key
      PROVE  /\ Exists(t, Temp(u)) <=> Exists(s, Temp(u))
             /\ Exists(s, Temp(u)) => Holds(t, u) = Holds(s, u)
             /\ AtEnd(s, u) => AtEnd(t, u)
  <2>1. Exists(t, Temp(u)) <=> Exists(s, Temp(u))
    BY DEF Exists
  <2>2. Exists(s, Temp(u)) => t.data[s.dir[Temp(u)]] = s.data[s.dir[Temp(u)]]
    BY <1>2, <1>7, Names DEF Exists
  <2>3. ASSUME NEW j \in Slots, t.slots[j].key = Temp(u)
        PROVE  t.slots[j] = s.slots[j] /\ Exists(s, Temp(u)) /\ Holds(t, u) = Holds(s, u) /\ Tell(t, j) = Tell(s, j)
    <3>1. t.slots[j] = s.slots[j]
      BY <1>7, <2>3
    <3>2. Exists(s, Temp(u)) /\ s.slots[j].file = s.dir[Temp(u)]
      BY <2>3, <3>1, OpenExists
    <3>3. Holds(t, u) = Overwritten(t.data[t.slots[j].file], t.slots[j].at, t.slots[j].pend)
      BY <1>6, <2>3, HoldsWhat
    <3>4. Holds(s, u) = Overwritten(s.data[s.slots[j].file], s.slots[j].at, s.slots[j].pend)
      BY <2>3, <3>1, HoldsWhat
    <3> QED BY <2>2, <3>1, <3>2, <3>3, <3>4 DEF Tell
  <2>4. ASSUME \A j \in Slots : t.slots[j].key # Temp(u), Exists(s, Temp(u)) PROVE Holds(t, u) = Holds(s, u)
    <3>1. \A j \in Slots : s.slots[j].key # Temp(u)
      BY <1>7, <2>4
    <3> QED BY <1>6, <2>2, <2>4, <3>1, HoldsWhat
  <2> QED BY <2>1, <2>3, <2>4 DEF AtEnd
<1>8. SameNames(s, t, Visible)
  BY <1>2, Kinds DEF SameNames, Shows, Exists
<1>9. ASSUME NEW u \in Users, t.slots[i].key # Reading(u), NEW d, Reads(t, u, d) PROVE Reads(s, u, d)
  <2>1. PICK j \in Slots : t.slots[j].key = Reading(u) /\ t.data[t.slots[j].file] = d
    BY <1>9 DEF Reads
  <2>2. t.slots[j] = s.slots[j] /\ EntryOK(s, s.slots[j])
    BY <1>9, <2>1 DEF Sound
  <2>3. s.slots[j].file # NoFile /\ \A w \in Users : s.slots[j].file # s.dir[Temp(w)]
    BY <2>1, <2>2, Names DEF EntryOK, Unwritten
  <2>4. s.slots[j].file \in Files
    BY <1>1, <2>3, Fields
  <2> QED BY <2>1, <2>2, <2>3, <2>4 DEF Reads
<1> QED BY <1>6, <1>7, <1>8, <1>9 DEF SameTemps, NoNewReads, NotUploading, NotReading

LEMMA QuietSame == ASSUME NEW s PROVE Quiet(s, s)
BY DEF Quiet, SameTemps, SameNames, NoNewReads

LEMMA QuietTwice == ASSUME NEW r, NEW s, NEW t, Quiet(r, s), Quiet(s, t) PROVE Quiet(r, t)
BY DEF Quiet, SameTemps, SameNames, NoNewReads

(* What is flushed is written behind what is there. *)
Flushed(s, t, i) == /\ t.next = s.next /\ t.damaged = s.damaged
                    /\ t.slots[i].key = s.slots[i].key /\ t.slots[i].file = s.slots[i].file
                    /\ t.slots[i].open = s.slots[i].open
                    /\ t.slots[i].pend = <<>> /\ Tell(t, i) = Tell(s, i)
LEMMA FlushKeeps ==
    ASSUME NEW B, NEW s, Sound(s, B), NEW i \in Slots, NEW t, t = Flush(s, i, TRUE)
    PROVE  Sound(t, B) /\ Quiet(s, t) /\ Elsewhere(s, t, i) /\ Flushed(s, t, i)
<1> DEFINE e == s.slots[i]
           f == e.file
           new == Overwritten(s.data[f], e.at, e.pend)
           g == [e EXCEPT !.at = Tell(s, i), !.pend = <<>>]
           n == [s EXCEPT !.data[f] = new, !.slots[i] = g]
<1>1. s \in States(B) /\ e \in Entries(B)
  BY DEF Sound, States
<1>2. CASE e.pend = <<>>
  BY <1>2, QuietSame DEF Flush, Elsewhere, Flushed
<1>3. CASE e.pend # <<>>
  <2>1. PICK u \in Users : e.key = Temp(u)
    <3>1. e.key # Empty.key
      <4>1. Empty.pend = <<>>
        BY DEF Empty
      <4>2. EntryOK(s, e)
        BY DEF Sound
      <4> QED BY <1>3, <4>1, <4>2 DEF EntryOK
    <3>2. \A u \in Users : e.key \notin {Reading(u), Grabbed(u)}
      BY <1>3 DEF Sound, EntryOK, Unwritten, Shut
    <3>3. e.key \in KeySet
      BY <1>1 DEF Entries
    <3> QED BY <3>1, <3>2, <3>3, Kinds
  <2>2. f \in Files /\ f = s.dir[Temp(u)] /\ Exists(s, Temp(u))
    BY <2>1, OpenExists
  <2>3. /\ s.data[f] \in Seq(B) /\ e.at \in Nat /\ e.pend \in Seq(B) /\ e.at <= Len(s.data[f])
        /\ e.open /\ Len(s.data[f]) \in Nat /\ Len(e.pend) \in Nat
    BY <1>1, <2>1, <2>2, Fields DEF Sound, EntryOK, Uploading
  <2>4. new \in Seq(B) /\ Len(new) >= e.at + Len(e.pend) /\ Len(new) \in Nat
    BY <2>3, OverwrittenType
  <2> HIDE DEF new
  <2>5. g \in Entries(B) /\ g.at = e.at + Len(e.pend) /\ g.pend = <<>>
    <3>1. Tell(s, i) = e.at + Len(e.pend)
      BY DEF Tell
    <3>2. <<>> \in Seq(B)
      BY EmptySeq
    <3>3. Tell(s, i) \in Nat /\ e \in Entries(B) /\ g = [e EXCEPT !.at = Tell(s, i), !.pend = <<>>]
      BY <1>1, <2>3, <3>1
    <3> HIDE DEF e, g
    <3> QED BY <3>1, <3>2, <3>3 DEF Entries
  <2>6. n \in States(B)
    BY <1>1, <2>2, <2>4, <2>5 DEF States
  <2>7. t = n
    BY <1>3 DEF Flush, new
  <2>8. /\ n.dir = s.dir /\ n.next = s.next /\ n.deleters = s.deleters /\ n.damaged = s.damaged
        /\ \A j \in Slots \ {i} : n.slots[j] = s.slots[j]
        /\ n.slots[i] = g
        /\ g.key = e.key /\ g.file = e.file /\ g.open = e.open
        /\ n.data[f] = new
        /\ \A h \in Files : h # f => n.data[h] = s.data[h]
    BY <1>1, <2>2 DEF States, Entries
  <2> HIDE DEF n, g
  <2>9. Tell(n, i) = Tell(s, i)
    <3>1. Len(<<>>) = 0
      BY EmptySeq
    <3> QED BY <2>3, <2>5, <2>8, <3>1 DEF Tell
  <2>10. EntryOK(n, g)
    <3>1. e.key # Empty.key /\ e.file # NoFile
      BY <2>1, <2>2, Names DEF Exists
    <3>2. \A w \in Users : e.key = Temp(w) => w = u
      BY <2>1, Names
    <3>3. \A w \in Users : e.key # Reading(w) /\ e.key # Grabbed(w)
      BY <2>1, Names
    <3> QED BY <2>2, <2>3, <2>4, <2>5, <2>8, <3>1, <3>2, <3>3 DEF EntryOK, Uploading, Unwritten, Shut
  <2>11. /\ Sound(n, B) /\ SameNames(s, n, Visible) /\ NoNewReads(s, n, Users)
         /\ SameTemps(s, n, Users \ {u})
    <3>1. /\ Sound(n, B) /\ SameNames(s, n, Visible)
          /\ SameTemps(s, n, NotUploading(s, n, i)) /\ NoNewReads(s, n, NotReading(n.slots[i]))
      <4>1. Elsewhere(s, n, i) /\ DataElsewhere(s, n, i)
        BY <2>1, <2>2, <2>8 DEF Elsewhere, DataElsewhere
      <4>2. Fits(s, n, i)
        BY <2>8, <2>10 DEF Fits
      <4> QED BY <2>6, <4>1, <4>2, SlotChanged
    <3>2. \A w \in Users : n.slots[i].key # Reading(w) /\ (w # u => Temp(w) \notin {e.key, n.slots[i].key})
      BY <2>1, <2>8, Names
    <3> QED BY <3>1, <3>2 DEF SameTemps, NoNewReads, NotUploading, NotReading
  <2>12. SameTemps(s, n, {u})
    <3>1. Holds(s, u) = new
      BY <2>1, HoldsWhat DEF new
    <3>2. Holds(n, u) = Overwritten(new, e.at + Len(e.pend), <<>>)
      BY <2>1, <2>5, <2>8, <2>11, HoldsWhat
    <3>3. Holds(n, u) = Holds(s, u)
      BY <2>3, <2>4, <3>1, <3>2, OverwrittenNothing
    <3>4. \A j \in Slots : n.slots[j].key = Temp(u) => j = i
      <4>1. ASSUME NEW j \in Slots, n.slots[j].key = Temp(u), j # i PROVE FALSE
        BY <4>1, <2>1, <2>8, <2>11, Names DEF Sound, OneSlot, Empty
      <4> QED BY <4>1
    <3> QED BY <2>1, <2>8, <2>9, <3>3, <3>4 DEF SameTemps, Exists, AtEnd
  <2>13. Quiet(s, n)
    BY <2>11, <2>12 DEF Quiet, SameTemps
  <2>14. Elsewhere(s, n, i) /\ Flushed(s, n, i)
    BY <2>5, <2>8, <2>9 DEF Elsewhere, Flushed
  <2> QED BY <2>7, <2>11, <2>13, <2>14
<1> QED BY <1>2, <1>3

Emptied(s, t, i) == t.next = s.next /\ t.slots[i] = Empty

LEMMA CloseKeeps ==
    ASSUME NEW B, NEW s, Sound(s, B), NEW i \in Slots, NEW t, t = Close(s, i, TRUE)
    PROVE  Sound(t, B) /\ Quiet(s, t) /\ Elsewhere(s, t, i) /\ Emptied(s, t, i)
<1>1. CASE s.slots[i] = Empty
  BY <1>1, QuietSame DEF Close, Elsewhere, Emptied
<1>2. CASE s.slots[i] # Empty
  <2> DEFINE r == Flush(s, i, TRUE)
             n == [r EXCEPT !.slots[i] = Empty, !.damaged = @ \/ ~s.slots[i].open]
  <2>1. Sound(r, B) /\ Quiet(s, r) /\ Elsewhere(s, r, i) /\ Flushed(s, r, i)
    BY FlushKeeps
  <2>2. t = n
    BY <1>2 DEF Close
  <2> HIDE DEF r
  <2>3. r \in States(B) /\ (r.damaged \/ ~s.slots[i].open) \in BOOLEAN
    BY <2>1 DEF Sound, Elsewhere, Flushed
  <2>4. n \in States(B)
    BY <2>3, EmptyEntry DEF States
  <2>5. /\ n.dir = r.dir /\ n.data = r.data /\ n.next = r.next /\ n.deleters = r.deleters
        /\ \A j \in Slots \ {i} : n.slots[j] = r.slots[j]
        /\ n.slots[i] = Empty
    BY <2>3 DEF States
  <2> HIDE DEF n
  <2>6. EntryOK(n, Empty)
    BY Names DEF EntryOK, Uploading, Unwritten, Shut
  <2>7. /\ Sound(n, B) /\ SameNames(r, n, Visible)
        /\ SameTemps(r, n, NotUploading(r, n, i)) /\ NoNewReads(r, n, NotReading(n.slots[i]))
    <3>1. Elsewhere(r, n, i) /\ DataElsewhere(r, n, i) /\ Fits(r, n, i)
      BY <2>5, <2>6 DEF Elsewhere, DataElsewhere, Fits
    <3> QED BY <2>1, <2>4, <3>1, SlotChanged
  <2>8. NoNewReads(r, n, Users)
    BY <2>5, <2>7, Names DEF NoNewReads, NotReading
  <2>9. ASSUME NEW u \in Users
        PROVE  /\ Exists(n, Temp(u)) <=> Exists(r, Temp(u))
               /\ Exists(r, Temp(u)) => Holds(n, u) = Holds(r, u)
               /\ AtEnd(r, u) => AtEnd(n, u)
    <3>1. CASE r.slots[i].key # Temp(u)
      BY <2>5, <2>7, <3>1, Names DEF SameTemps, NotUploading
    <3>2. CASE r.slots[i].key = Temp(u)
      <4>1. /\ r.slots[i].file = r.dir[Temp(u)] /\ r.slots[i].file \in Files
            /\ r.slots[i].at <= Len(r.data[r.slots[i].file])
        BY <2>1, <3>2, OpenExists DEF Sound, EntryOK, Uploading, Flushed
      <4>2. Holds(r, u) = Overwritten(r.data[r.slots[i].file], r.slots[i].at, <<>>)
        BY <2>1, <3>2, HoldsWhat DEF Flushed
      <4>3. r.data[r.slots[i].file] \in Seq(B) /\ r.slots[i].at \in Nat
        BY <2>3, <4>1, Fields
      <4>4. Holds(r, u) = r.data[r.dir[Temp(u)]]
        BY <4>1, <4>2, <4>3, OverwrittenNothing
      <4>5. ASSUME NEW j \in Slots PROVE n.slots[j].key # Temp(u)
        <5>1. CASE j = i
          BY <2>5, <5>1, Names
        <5>2. CASE j # i
          BY <2>1, <2>5, <3>2, <5>2, Names DEF Sound, OneSlot, Empty
        <5> QED BY <5>1, <5>2
      <4>6. Holds(n, u) = n.data[n.dir[Temp(u)]]
        BY <2>7, <4>5, HoldsWhat
      <4> QED BY <2>5, <4>4, <4>5, <4>6 DEF Exists, AtEnd
    <3> QED BY <3>1, <3>2
  <2>10. Quiet(r, n)
    BY <2>7, <2>8, <2>9 DEF Quiet, SameTemps
  <2>11. Elsewhere(s, n, i) /\ Emptied(s, n, i)
    BY <2>1, <2>5 DEF Elsewhere, Flushed, Emptied
  <2> QED BY <2>1, <2>2, <2>7, <2>10, <2>11, QuietTwice
<1> QED BY <1>1, <1>2

(* An entry goes into the next slot. *)
NotUploaded(e) == {u \in Users : e.key # Temp(u)}
Kept(s, t, e) == /\ t.slots[s.next] = e /\ Cached(t, e.key) = {s.next} /\ Slot(t, e.key) = s.next
                 /\ \A u \in Users : e.key = Temp(u) =>
                        Exists(t, Temp(u)) /\ Exists(s, Temp(u)) /\ Holds(t, u) = Holds(s, u)

LEMMA KeepKeeps ==
    ASSUME NEW B, NEW s, Sound(s, B), NEW e \in Entries(B), EntryOK(s, e), e.key # Empty.key,
           Cached(s, e.key) = {}, e.pend = <<>>, NEW t, t = Keep(s, e, TRUE)
    PROVE  /\ Sound(t, B) /\ SameTemps(s, t, NotUploaded(e)) /\ SameNames(s, t, Visible)
           /\ NoNewReads(s, t, NotReading(e)) /\ Elsewhere(s, t, s.next) /\ Kept(s, t, e)
<1> DEFINE i == s.next
           r == Close(s, i, TRUE)
           n == [r EXCEPT !.slots[i] = e, !.next = (i + 1) % Size]
<1>1. i \in Slots /\ s \in States(B)
  BY DEF Sound, States
<1>2. /\ Sound(r, B) /\ Quiet(s, r)
      /\ r.dir = s.dir /\ r.deleters = s.deleters
      /\ \A j \in Slots \ {i} : r.slots[j] = s.slots[j]
      /\ r.slots[i] = Empty
  <2>1. Sound(r, B) /\ Quiet(s, r) /\ Elsewhere(s, r, i) /\ Emptied(s, r, i)
    BY <1>1, CloseKeeps
  <2> HIDE DEF r
  <2> QED BY <2>1 DEF Elsewhere, Emptied
<1>3. t = n
  BY DEF Keep
<1> HIDE DEF r
<1>4. r \in States(B) /\ (i + 1) % Size \in Slots
  BY <1>1, <1>2, FileStoreAssumption DEF Sound, Slots
<1>5. n \in States(B)
  BY <1>1, <1>4 DEF States
<1>6. /\ n.dir = r.dir /\ n.data = r.data /\ n.deleters = r.deleters
      /\ \A j \in Slots \ {i} : n.slots[j] = r.slots[j]
      /\ n.slots[i] = e
  BY <1>1, <1>4 DEF States
<1> HIDE DEF n
<1>7. \A j \in Slots : s.slots[j].key # e.key /\ r.slots[j].key # e.key
  BY <1>2 DEF Cached
<1>8. EntryOK(n, e)
  <2>1. ASSUME NEW u \in Users, e.key = Temp(u)
        PROVE  e.open /\ e.file = n.dir[Temp(u)] /\ e.at <= Len(n.data[e.file])
    <3>1. e.open /\ e.file = s.dir[Temp(u)] /\ e.at <= Len(s.data[e.file]) /\ e.file # NoFile
      BY <2>1 DEF EntryOK, Uploading
    <3>2. Exists(s, Temp(u)) /\ Holds(r, u) = Holds(s, u)
      BY <1>2, <3>1 DEF Exists, Quiet, SameTemps
    <3>3. Holds(s, u) = s.data[s.dir[Temp(u)]] /\ Holds(r, u) = r.data[r.dir[Temp(u)]]
      BY <1>2, <1>7, <2>1, HoldsWhat
    <3> QED BY <1>2, <1>6, <3>1, <3>2, <3>3
  <2>2. Uploading(n, e)
    BY <2>1 DEF Uploading
  <2>3. Unwritten(n, e)
    BY <1>2, <1>6 DEF EntryOK, Unwritten
  <2> QED BY <2>2, <2>3 DEF EntryOK
<1>9. /\ Sound(n, B) /\ SameNames(r, n, Visible)
      /\ SameTemps(r, n, NotUploading(r, n, i)) /\ NoNewReads(r, n, NotReading(e))
  <2>1. Elsewhere(r, n, i) /\ DataElsewhere(r, n, i) /\ Fits(r, n, i)
    BY <1>6, <1>7, <1>8 DEF Elsewhere, DataElsewhere, Fits, Cached
  <2> QED BY <1>1, <1>2, <1>5, <1>6, <2>1, SlotChanged
<1>10. ASSUME NEW u \in Users, e.key = Temp(u)
       PROVE  Exists(n, Temp(u)) /\ Exists(s, Temp(u)) /\ Holds(n, u) = Holds(s, u)
  <2>1. Holds(r, u) = r.data[r.dir[Temp(u)]]
    BY <1>2, <1>7, <1>10, HoldsWhat
  <2>2. /\ e.file = n.dir[Temp(u)] /\ e.at <= Len(n.data[e.file]) /\ e.file \in Files /\ Exists(n, Temp(u))
    BY <1>1, <1>6, <1>9, <1>10, OpenExists DEF Sound, EntryOK, Uploading
  <2>3. e.at \in Nat /\ n.data[e.file] \in Seq(B)
    BY <1>5, <2>2, Fields DEF Entries
  <2>4. Holds(n, u) = Overwritten(n.data[e.file], e.at, <<>>)
    BY <1>1, <1>6, <1>9, <1>10, HoldsWhat
  <2>5. Holds(n, u) = n.data[n.dir[Temp(u)]]
    BY <2>2, <2>3, <2>4, OverwrittenNothing
  <2>6. Exists(r, Temp(u)) /\ Exists(s, Temp(u))
    BY <1>2, <1>6, <2>2 DEF Exists
  <2>7. Holds(r, u) = Holds(s, u)
    BY <1>2, <2>6 DEF Quiet, SameTemps
  <2> QED BY <1>6, <2>1, <2>2, <2>5, <2>6, <2>7
<1>11. Cached(n, e.key) = {i}
  BY <1>1, <1>6, <1>7 DEF Cached
<1>12. Slot(n, e.key) = i
  BY <1>1, <1>6, <1>9, SlotOf
<1>13. SameTemps(s, n, NotUploaded(e)) /\ SameNames(s, n, Visible)
  <2>1. \A u \in NotUploaded(e) : u \in NotUploading(r, n, i)
    BY <1>2, <1>6, Names DEF NotUploaded, NotUploading
  <2>2. \A u \in NotUploaded(e) : u \in Users
    BY DEF NotUploaded
  <2> QED BY <1>2, <1>9, <2>1, <2>2 DEF Quiet, SameTemps, SameNames
<1>14. NoNewReads(s, n, NotReading(e))
  BY <1>2, <1>6, <1>9 DEF Quiet, NoNewReads, NotReading
<1>15. Elsewhere(s, n, i) /\ Kept(s, n, e)
  BY <1>2, <1>6, <1>10, <1>11, <1>12 DEF Elsewhere, Kept
<1> QED BY <1>3, <1>9, <1>13, <1>14, <1>15
-----------------------------------------------------------------------------
(* A step that only the upload of one user sees. *)
SameBut(s, t, u) == /\ SameTemps(s, t, Users \ {u}) /\ SameNames(s, t, Visible) /\ NoNewReads(s, t, Users)

LEMMA SameButTwice ==
    ASSUME NEW r, NEW s, NEW t, NEW u, SameBut(r, s, u), SameBut(s, t, u) PROVE SameBut(r, t, u)
BY DEF SameBut, SameTemps, SameNames, NoNewReads

LEMMA QuietSameBut == ASSUME NEW s, NEW t, NEW u, Quiet(s, t) PROVE SameBut(s, t, u)
BY DEF Quiet, SameBut, SameTemps

(* The open file of u in slot i. *)
OpenFor(s, i, u) == s.slots[i].key = Temp(u)
Moved(s, t, i, u, pos) == OpenFor(t, i, u) /\ Tell(t, i) = pos /\ Holds(t, u) = Holds(s, u)

LEMMA HoldsFlushed ==
    ASSUME NEW B, NEW s, Sound(s, B), NEW i \in Slots, NEW u \in Users, OpenFor(s, i, u), s.slots[i].pend = <<>>
    PROVE  Holds(s, u) = s.data[s.slots[i].file]
<1>1. /\ s.slots[i].at <= Len(s.data[s.slots[i].file]) /\ s.slots[i].file \in Files
  BY OpenExists DEF Sound, EntryOK, Uploading, OpenFor
<1>2. s.slots[i].at \in Nat /\ s.data[s.slots[i].file] \in Seq(B)
  BY <1>1, Fields DEF Sound
<1>3. Holds(s, u) = Overwritten(s.data[s.slots[i].file], s.slots[i].at, <<>>)
  BY HoldsWhat DEF OpenFor
<1> QED BY <1>1, <1>2, <1>3, OverwrittenNothing

(* What the upload of u changes is in its slot. *)
LEMMA UploadChanged ==
    ASSUME NEW B, NEW s, Sound(s, B), NEW t \in States(B), NEW i \in Slots, NEW u \in Users, OpenFor(s, i, u),
           Elsewhere(s, t, i), t.data = s.data, OpenFor(t, i, u), EntryOK(t, t.slots[i])
    PROVE  Sound(t, B) /\ SameBut(s, t, u)
<1>1. DataElsewhere(s, t, i) /\ Fits(s, t, i)
  BY DEF DataElsewhere, Fits, OpenFor
<1>2. /\ Sound(t, B) /\ SameTemps(s, t, NotUploading(s, t, i))
      /\ SameNames(s, t, Visible) /\ NoNewReads(s, t, NotReading(t.slots[i]))
  BY <1>1, SlotChanged
<1>3. \A w \in Users : /\ w # u => w \in NotUploading(s, t, i)
                       /\ w \in NotReading(t.slots[i])
  BY Names DEF NotUploading, NotReading, OpenFor
<1> QED BY <1>2, <1>3 DEF SameBut, SameTemps, NoNewReads

LEMMA SeekKeeps ==
    ASSUME NEW B, NEW s, Sound(s, B), NEW i \in Slots, NEW u \in Users, OpenFor(s, i, u),
           NEW pos \in Nat, pos <= Len(Holds(s, u)), NEW t, t = Seek(s, i, pos)
    PROVE  Sound(t, B) /\ SameBut(s, t, u) /\ Elsewhere(s, t, i) /\ Moved(s, t, i, u, pos)
<1>1. CASE pos = Tell(s, i)
  BY <1>1, QuietSame, QuietSameBut DEF Seek, Elsewhere, Moved
<1>2. CASE pos # Tell(s, i)
  <2> DEFINE r == Flush(s, i, TRUE)
             n == [r EXCEPT !.slots[i].at = pos]
  <2>1. Sound(r, B) /\ Quiet(s, r) /\ Elsewhere(s, r, i) /\ Flushed(s, r, i)
    BY FlushKeeps
  <2>2. t = n
    BY <1>2 DEF Seek
  <2> HIDE DEF r
  <2>3. r \in States(B) /\ OpenFor(r, i, u)
    BY <2>1 DEF Sound, Flushed, OpenFor
  <2>4. n \in States(B)
    BY <2>3 DEF States, Entries
  <2>5. /\ n.dir = r.dir /\ n.data = r.data /\ n.deleters = r.deleters /\ n.next = r.next
        /\ \A j \in Slots \ {i} : n.slots[j] = r.slots[j]
        /\ n.slots[i].key = r.slots[i].key /\ n.slots[i].file = r.slots[i].file
        /\ n.slots[i].at = pos /\ n.slots[i].pend = <<>> /\ n.slots[i].open = r.slots[i].open
    BY <2>1, <2>3 DEF States, Entries, Flushed
  <2> HIDE DEF n
  <2>6. Holds(r, u) = r.data[r.slots[i].file] /\ Holds(r, u) = Holds(s, u)
    <3>1. Exists(s, Temp(u))
      BY OpenExists DEF OpenFor
    <3> QED BY <2>1, <2>3, <3>1, HoldsFlushed DEF Quiet, SameTemps, Flushed
  <2>7. EntryOK(n, n.slots[i])
    <3>1. /\ r.slots[i].open /\ r.slots[i].file = r.dir[Temp(u)] /\ r.slots[i].file # NoFile
      BY <2>1, <2>3, Names DEF Sound, EntryOK, Uploading, OpenFor
    <3>2. /\ n.slots[i].key # Empty.key
          /\ \A w \in Users : n.slots[i].key = Temp(w) => w = u
          /\ \A w \in Users : n.slots[i].key # Reading(w) /\ n.slots[i].key # Grabbed(w)
      BY <2>3, <2>5, Names DEF OpenFor
    <3> QED BY <2>5, <2>6, <3>1, <3>2 DEF EntryOK, Uploading, Unwritten, Shut
  <2>8. Elsewhere(r, n, i) /\ OpenFor(n, i, u)
    BY <2>3, <2>5 DEF Elsewhere, OpenFor
  <2>9. Sound(n, B) /\ SameBut(r, n, u)
    BY <2>1, <2>3, <2>4, <2>5, <2>7, <2>8, UploadChanged
  <2>10. Holds(n, u) = n.data[n.slots[i].file]
    BY <2>5, <2>8, <2>9, HoldsFlushed
  <2>11. Moved(s, n, i, u, pos)
    <3>1. Len(<<>>) = 0
      BY EmptySeq
    <3>2. Tell(n, i) = pos
      BY <2>5, <3>1 DEF Tell
    <3>3. Holds(n, u) = Holds(s, u)
      BY <2>5, <2>6, <2>10
    <3> QED BY <2>8, <3>2, <3>3 DEF Moved
  <2>12. Elsewhere(s, n, i)
    BY <2>1, <2>8 DEF Elsewhere
  <2>13. SameBut(s, n, u)
    BY <2>1, <2>9, QuietSameBut, SameButTwice
  <2> QED BY <2>2, <2>9, <2>11, <2>12, <2>13
<1> QED BY <1>1, <1>2

LEMMA PutKeeps ==
    ASSUME NEW B, NEW s, Sound(s, B), NEW i \in Slots, NEW u \in Users, OpenFor(s, i, u),
           NEW b \in B, NEW t, t = Put(s, i, b)
    PROVE  /\ Sound(t, B) /\ SameBut(s, t, u) /\ Elsewhere(s, t, i) /\ OpenFor(t, i, u)
           /\ Tell(t, i) = Tell(s, i) + 1 /\ Holds(t, u) = Overwritten(Holds(s, u), Tell(s, i), <<b>>)
<1> DEFINE e == s.slots[i]
           d == s.data[e.file]
<1>1. s \in States(B) /\ e \in Entries(B)
  BY DEF Sound, States
<1>2. /\ e.file = s.dir[Temp(u)] /\ e.file \in Files /\ e.open /\ e.at <= Len(d) /\ d \in Seq(B)
      /\ e.at \in Nat /\ e.pend \in Seq(B) /\ Len(e.pend) \in Nat
  BY <1>1, OpenExists, Fields DEF Sound, EntryOK, Uploading, OpenFor
<1>3. Append(e.pend, b) \in Seq(B) /\ Len(Append(e.pend, b)) = Len(e.pend) + 1
  BY <1>2, AppendProperties
<1> DEFINE more == Append(e.pend, b)
           g == [e EXCEPT !.pend = more]
<1>0. g \in Entries(B) /\ g.key = e.key /\ g.file = e.file /\ g.at = e.at /\ g.open = e.open /\ g.pend = more
  <2> HIDE DEF e, more
  <2>1. more \in Seq(B) BY <1>3 DEF more
  <2> QED BY <1>1, <2>1 DEF Entries
<1>4. t = [s EXCEPT !.slots[i] = g]
  BY DEF Put
<1> HIDE DEF g
<1>5. t \in States(B)
  BY <1>0, <1>1, <1>4 DEF States
<1>6. /\ t.dir = s.dir /\ t.data = s.data /\ t.deleters = s.deleters
      /\ \A j \in Slots \ {i} : t.slots[j] = s.slots[j]
      /\ t.slots[i].key = e.key /\ t.slots[i].file = e.file
      /\ t.slots[i].at = e.at /\ t.slots[i].pend = Append(e.pend, b) /\ t.slots[i].open = e.open
  BY <1>0, <1>1, <1>4 DEF States
<1>7. EntryOK(t, t.slots[i])
  <2>1. e.file # NoFile
    BY <1>2, FilesAre
  <2>2. /\ t.slots[i].key # Empty.key
        /\ \A w \in Users : t.slots[i].key = Temp(w) => w = u
        /\ \A w \in Users : t.slots[i].key # Reading(w) /\ t.slots[i].key # Grabbed(w)
    BY <1>6, Names DEF OpenFor
  <2> QED BY <1>2, <1>6, <2>1, <2>2 DEF EntryOK, Uploading, Unwritten, Shut
<1>8. Elsewhere(s, t, i) /\ OpenFor(t, i, u)
  BY <1>6 DEF Elsewhere, OpenFor
<1>9. Sound(t, B) /\ SameBut(s, t, u)
  BY <1>5, <1>6, <1>7, <1>8, UploadChanged
<1>10. Tell(t, i) = Tell(s, i) + 1
  BY <1>2, <1>3, <1>6 DEF Tell
<1>11. Holds(s, u) = Overwritten(d, e.at, e.pend) /\ Holds(t, u) = Overwritten(d, e.at, Append(e.pend, b))
  <2>1. Holds(s, u) = Overwritten(s.data[s.slots[i].file], s.slots[i].at, s.slots[i].pend)
    BY HoldsWhat DEF OpenFor
  <2>2. Holds(t, u) = Overwritten(t.data[t.slots[i].file], t.slots[i].at, t.slots[i].pend)
    BY <1>8, <1>9, HoldsWhat DEF OpenFor
  <2> QED BY <1>6, <2>1, <2>2
<1>12. Holds(t, u) = Overwritten(Holds(s, u), Tell(s, i), <<b>>)
  <2> HIDE DEF d, e
  <2>1. Overwritten(Overwritten(d, e.at, e.pend), e.at + Len(e.pend), <<b>>) = Overwritten(d, e.at, Append(e.pend, b))
    <3>1. PICK old \in Seq(B), at \in Nat, new \in Seq(B) : old = d /\ at = e.at /\ new = e.pend
      BY <1>2
    <3>2. at <= Len(old)
      BY <1>2, <3>1
    <3>3. Overwritten(Overwritten(old, at, new), at + Len(new), <<b>>) = Overwritten(old, at, Append(new, b))
      BY <3>2, OverwrittenTwice
    <3> QED BY <3>1, <3>3
  <2>2. Tell(s, i) = e.at + Len(e.pend)
    BY DEF Tell, e
  <2> QED BY <1>11, <2>1, <2>2
<1> QED BY <1>8, <1>9, <1>10, <1>12

(* server_up_load() from fseeko() on *)
Appended(s, t, i, u, pos, b) ==
    /\ OpenFor(t, i, u) /\ Holds(t, u) = Overwritten(Holds(s, u), pos, <<b>>)
    /\ pos + 1 >= Len(Holds(s, u)) => AtEnd(t, u)

LEMMA AppendKeeps ==
    ASSUME NEW B, NEW s, Sound(s, B), NEW i \in Slots, NEW u \in Users, OpenFor(s, i, u),
           NEW pos \in Nat, pos <= Len(Holds(s, u)), NEW b \in B
    PROVE  \E t : /\ AppendBlock(s, i, pos, b, TRUE) = {Ok(t)}
                  /\ Sound(t, B) /\ SameBut(s, t, u) /\ Elsewhere(s, t, i) /\ Appended(s, t, i, u, pos, b)
<1> DEFINE q == Seek(s, i, pos)
           full == Len(q.slots[i].pend) = Buffer
           r == IF full THEN Flush(q, i, TRUE) ELSE q
           t == Put(r, i, b)
<1>1. Sound(q, B) /\ SameBut(s, q, u) /\ Elsewhere(s, q, i) /\ Moved(s, q, i, u, pos)
  BY SeekKeeps
<1>2. AppendBlock(s, i, pos, b, TRUE) = {Ok(t)}
  BY DEF AppendBlock
<1> HIDE DEF q
<1>3. Sound(r, B) /\ SameBut(s, r, u) /\ Elsewhere(s, r, i) /\ Moved(s, r, i, u, pos)
  <2> DEFINE f == Flush(q, i, TRUE)
  <2>1. Sound(f, B) /\ Quiet(q, f) /\ Elsewhere(q, f, i) /\ Flushed(q, f, i)
    BY <1>1, FlushKeeps
  <2> HIDE DEF f
  <2>2. SameBut(s, f, u)
    BY <1>1, <2>1, QuietSameBut, SameButTwice
  <2>3. Elsewhere(s, f, i)
    BY <1>1, <2>1 DEF Elsewhere
  <2>4. Exists(q, Temp(u))
    BY <1>1, OpenExists DEF Moved, OpenFor
  <2>5. Moved(s, f, i, u, pos)
    BY <1>1, <2>1, <2>4 DEF Moved, Flushed, OpenFor, Quiet, SameTemps
  <2> QED BY <1>1, <2>1, <2>2, <2>3, <2>5 DEF f
<1> HIDE DEF r
<1>4. /\ Sound(t, B) /\ SameBut(r, t, u) /\ Elsewhere(r, t, i) /\ OpenFor(t, i, u)
      /\ Tell(t, i) = Tell(r, i) + 1 /\ Holds(t, u) = Overwritten(Holds(r, u), Tell(r, i), <<b>>)
  BY <1>3, PutKeeps DEF Moved
<1> HIDE DEF t
<1>5. SameBut(s, t, u) /\ Elsewhere(s, t, i)
  BY <1>3, <1>4, SameButTwice DEF Elsewhere
<1>6. Holds(t, u) = Overwritten(Holds(s, u), pos, <<b>>) /\ Tell(t, i) = pos + 1
  BY <1>3, <1>4 DEF Moved
<1>7. ASSUME pos + 1 >= Len(Holds(s, u)) PROVE AtEnd(t, u)
  <2>1. Holds(s, u) \in Seq(B) /\ <<b>> \in Seq(B) /\ Len(<<b>>) = 1
    BY OpenExists, HoldsType DEF OpenFor
  <2>2. Len(Holds(t, u)) = pos + 1
    <3> DEFINE h == Holds(s, u)
               c == <<b>>
    <3>1. h \in Seq(B) /\ c \in Seq(B) /\ Len(c) = 1 /\ pos <= Len(h) /\ pos + 1 >= Len(h)
      BY <1>7, <2>1
    <3> HIDE DEF h, c
    <3>2. pos + Len(c) >= Len(h)
      BY <3>1
    <3>3. Len(Overwritten(h, pos, c)) = pos + Len(c)
      <4>1. h \in Seq(B) /\ c \in Seq(B) /\ pos <= Len(h)
        BY <3>1
      <4> QED BY <3>2, <4>1, OverwrittenType
    <3> QED BY <1>6, <3>1, <3>3 DEF h, c
  <2>3. \A j \in Slots : t.slots[j].key = Temp(u) => j = i
    <3>1. ASSUME NEW j \in Slots, t.slots[j].key = Temp(u), j # i PROVE FALSE
      <4>1. t.slots[j] = Empty
        BY <1>4, <3>1 DEF Sound, OneSlot, OpenFor
      <4> QED BY <3>1, <4>1, Names
    <3> QED BY <3>1
  <2> QED BY <1>6, <2>2, <2>3 DEF AtEnd
<1> QED BY <1>2, <1>4, <1>5, <1>6, <1>7 DEF Appended
-----------------------------------------------------------------------------
(* A file is left to write to when a path has none. *)
LEMMA ImageCount ==
    ASSUME NEW S, IsFiniteSet(S), NEW f, DOMAIN f = S, f = [x \in S |-> f[x]]
    PROVE  LET T == {f[x] : x \in S} IN
           IsFiniteSet(T) /\ Cardinality(T) \in Nat /\ Cardinality(S) \in Nat /\ Cardinality(T) <= Cardinality(S)
<1> DEFINE T == {f[x] : x \in S}
<1>1. f \in Surjection(S, T)
  <2>1. f \in [S -> T] OBVIOUS
  <2> QED BY <2>1 DEF Surjection
<1>2. IsFiniteSet(T) /\ Cardinality(T) <= Cardinality(S)
  BY <1>1, FS_Surjection
<1> QED BY <1>2, FS_CardinalityType

LEMMA PathsCount == /\ IsFiniteSet(Paths) /\ Cardinality(Paths) \in Nat /\ Cardinality(Users) \in Nat
                    /\ Cardinality(Paths) <= 1 + 2 * Cardinality(Users)
<1> DEFINE two == {"T", "G"}
           temps == two \X Users
           c == Cardinality(Users)
<1>1. IsFiniteSet(two) /\ Cardinality(two) = 2
  <2>1. two = {"T"} \cup {"G"} /\ "G" \notin {"T"}
    OBVIOUS
  <2>2. IsFiniteSet({"T"}) /\ Cardinality({"T"}) = 1
    BY FS_Singleton
  <2> HIDE DEF two
  <2> QED BY <2>1, <2>2, FS_AddElement
<1>2. c \in Nat
  BY FileStoreAssumption, FS_CardinalityType
<1>3. IsFiniteSet(temps) /\ Cardinality(temps) = 2 * c
  <2> HIDE DEF two
  <2> QED BY <1>1, FileStoreAssumption, FS_Product
<1> HIDE DEF temps, c
<1>4. Paths = temps \cup {Target}
  BY DEF Paths, temps
<1>5. IsFiniteSet(Paths) /\ Cardinality(Paths) = IF Target \in temps THEN Cardinality(temps) ELSE Cardinality(temps) + 1
  BY <1>3, <1>4, FS_AddElement
<1> QED BY <1>2, <1>3, <1>5 DEF c

LEMMA LowestIs == ASSUME NEW S \in SUBSET Nat, S # {} PROVE (CHOOSE x \in S : \A y \in S : x <= y) \in S
<1>1. \E x \in S : \A y \in S : ~ (<<y, x>> \in OpToRel(<, Nat))
  <2>1. S \subseteq Nat OBVIOUS
  <2> DEFINE R == OpToRel(<, Nat)
  <2>2. IsWellFoundedOn(R, Nat) BY NatLessThanWellFounded
  <2> HIDE DEF R
  <2>3. \E x \in S : \A y \in S : ~ (<<y, x>> \in R)
    BY <2>1, <2>2, WFMin, Zenon
  <2> QED BY <2>3 DEF R
<1>2. \E x \in S : \A y \in S : x <= y
  <2>1. PICK x \in S : \A y \in S : ~ (<<y, x>> \in OpToRel(<, Nat))
    BY <1>1
  <2>2. \A y \in S : ~ (y < x)
    BY <2>1 DEF OpToRel
  <2> QED BY <2>2
<1> QED BY <1>2

LEMMA UnusedLeft ==
    ASSUME NEW B, NEW s \in States(B), NEW p \in Paths, ~Exists(s, p)
    PROVE  Written(s, p) \in Unused(s)
<1> DEFINE f == [i \in Slots |-> s.slots[i].file]
           D == {s.dir[q] : q \in Paths}
           F == {s.slots[i].file : i \in Slots}
           c == Cardinality(Users)
<1>1. IsFiniteSet(D) /\ Cardinality(D) \in Nat /\ Cardinality(D) <= Cardinality(Paths)
  <2>1. s.dir = [q \in Paths |-> s.dir[q]] /\ DOMAIN s.dir = Paths
    BY DEF States
  <2> QED BY <2>1, PathsCount, ImageCount
<1>2. IsFiniteSet(Slots) /\ Cardinality(Slots) = Size
  BY FileStoreAssumption, FS_Interval DEF Slots
<1>3. IsFiniteSet(F) /\ Cardinality(F) \in Nat /\ Cardinality(F) <= Size
  <2>1. f = [i \in Slots |-> f[i]] /\ DOMAIN f = Slots
    OBVIOUS
  <2>2. F = {f[i] : i \in Slots}
    OBVIOUS
  <2> HIDE DEF f, F
  <2> QED BY <1>2, <2>1, <2>2, ImageCount
<1>4. NoFile \in D
  BY DEF Exists
<1>5. IsFiniteSet(Files) /\ Cardinality(Files) = 1 + 2 * c + Size
  <2>1. 1 + 2 * c + Size \in Nat
    BY PathsCount, FileStoreAssumption
  <2> QED BY <2>1, FS_Interval DEF Files
<1> HIDE DEF D, F, c, f
<1>6. IsFiniteSet(D \cup F) /\ Cardinality(D \cup F) <= 1 + 2 * c + Size
  <2>1. IsFiniteSet(D \cup F) /\ Cardinality(D \cup F) = Cardinality(D) + Cardinality(F) - Cardinality(D \cap F)
    BY <1>1, <1>3, FS_Union
  <2>2. IsFiniteSet(D \cap F)
    BY <1>1, FS_Intersection
  <2>3. Cardinality(D \cap F) \in Nat
    BY <2>2, FS_CardinalityType
  <2> QED BY <1>1, <1>3, <2>1, <2>3, PathsCount, FileStoreAssumption DEF c
<1>7. Cardinality(D \cup F) \in Nat
  BY <1>6, FS_CardinalityType
<1>8. Unused(s) # {}
  <2>1. SUFFICES ASSUME Files \subseteq D \cup F PROVE FALSE
    BY DEF Unused, D, F
  <2>2. NoFile \in D \cup F
    BY <1>4
  <2>3. Files \in SUBSET ((D \cup F) \ {NoFile})
    BY <2>1, FilesAre
  <2>4. /\ IsFiniteSet((D \cup F) \ {NoFile})
        /\ Cardinality((D \cup F) \ {NoFile}) = Cardinality(D \cup F) - 1
    BY <1>6, <2>2, FS_RemoveElement
  <2>5. Cardinality(Files) <= Cardinality((D \cup F) \ {NoFile})
    BY <2>3, <2>4, FS_Subset
  <2> QED BY <1>5, <1>6, <1>7, <2>4, <2>5, PathsCount, FileStoreAssumption DEF c
<1>9. Unused(s) \in SUBSET Nat
  BY FilesAre DEF Unused
<1> QED BY <1>8, <1>9, LowestIs DEF Written
-----------------------------------------------------------------------------
(* A step that links paths to nothing or to unused files, but none that is *)
(* open for an upload.                                                     *)
Relinked(s, t) ==
    /\ t.slots = s.slots /\ t.deleters = s.deleters
    /\ \A f \in Files \ Unused(s) : t.data[f] = s.data[f]
    /\ \A p \in Paths : t.dir[p] \in {s.dir[p], NoFile} \cup Unused(s)
    /\ \A u \in Users : Cached(s, Temp(u)) # {} => t.dir[Temp(u)] = s.dir[Temp(u)]
    /\ Links(t)
StillTemps(s, t) == {u \in Users : t.dir[Temp(u)] = s.dir[Temp(u)]}
StillNamed(s, t) == {p \in Visible : t.dir[p] = s.dir[p]}

LEMMA LinksChanged ==
    ASSUME NEW B, NEW s, Sound(s, B), NEW t \in States(B), Relinked(s, t)
    PROVE  /\ Sound(t, B)
           /\ SameTemps(s, t, StillTemps(s, t))
           /\ SameNames(s, t, StillNamed(s, t))
           /\ NoNewReads(s, t, Users)
<1> USE DEF Relinked
<1>1. s \in States(B)
  BY DEF Sound
<1>2. ASSUME NEW p \in Paths, s.dir[p] # NoFile PROVE t.data[s.dir[p]] = s.data[s.dir[p]]
  <2>1. s.dir[p] \in Files \ Unused(s)
    BY <1>1, <1>2, Fields DEF Unused
  <2> QED BY <2>1
<1>3. ASSUME NEW i \in Slots, s.slots[i].file # NoFile PROVE t.data[s.slots[i].file] = s.data[s.slots[i].file]
  <2>1. s.slots[i].file \in Files \ Unused(s)
    BY <1>1, <1>3, Fields DEF Unused
  <2> QED BY <2>1
<1>4. ASSUME NEW i \in Slots, NEW u \in Users, s.slots[i].key = Temp(u)
      PROVE  t.dir[Temp(u)] = s.dir[Temp(u)]
  BY <1>4 DEF Cached
<1>5. ASSUME NEW i \in Slots PROVE EntryOK(t, t.slots[i])
  <2> DEFINE e == s.slots[i]
  <2>1. EntryOK(s, e)
    BY DEF Sound
  <2>2. ASSUME NEW u \in Users, e.key = Temp(u)
        PROVE  e.open /\ e.file = t.dir[Temp(u)] /\ e.at <= Len(t.data[e.file])
    <3>1. e.open /\ e.file = s.dir[Temp(u)] /\ e.at <= Len(s.data[e.file])
      BY <2>1, <2>2 DEF EntryOK, Uploading
    <3>2. e.file # NoFile
      BY <2>2, OpenExists, FilesAre
    <3> QED BY <1>3, <1>4, <2>2, <3>1, <3>2
  <2>3. ASSUME NEW u \in Users, e.key = Reading(u), NEW w \in Users PROVE e.file # t.dir[Temp(w)]
    <3>1. e.file # s.dir[Temp(w)] /\ e.file # NoFile
      BY <2>1, <2>3, Names DEF EntryOK, Unwritten
    <3>2. e.file \notin Unused(s)
      BY DEF Unused
    <3>3. t.dir[Temp(w)] \in {s.dir[Temp(w)], NoFile} \cup Unused(s)
      BY Names
    <3> QED BY <3>1, <3>2, <3>3
  <2> HIDE DEF e
  <2>4. Uploading(t, e)
    BY <2>2 DEF Uploading
  <2>5. Unwritten(t, e)
    BY <2>1, <2>3 DEF EntryOK, Unwritten
  <2>6. t.slots[i] = e
    BY DEF e
  <2> QED BY <2>1, <2>4, <2>5, <2>6 DEF EntryOK
<1>6. Sound(t, B)
  BY <1>5 DEF Sound, OneSlot
<1>7. ASSUME NEW u \in Users, t.dir[Temp(u)] = s.dir[Temp(u)]
      PROVE  /\ Exists(t, Temp(u)) <=> Exists(s, Temp(u))
             /\ Exists(s, Temp(u)) => Holds(t, u) = Holds(s, u)
             /\ AtEnd(s, u) => AtEnd(t, u)
  <2>1. ASSUME Exists(s, Temp(u)) PROVE Holds(t, u) = Holds(s, u)
    <3>1. CASE \A i \in Slots : s.slots[i].key # Temp(u)
      <4>1. Holds(s, u) = s.data[s.dir[Temp(u)]] /\ Holds(t, u) = t.data[t.dir[Temp(u)]]
        BY <1>6, <3>1, HoldsWhat
      <4> QED BY <1>2, <1>7, <2>1, <4>1, Names DEF Exists
    <3>2. ASSUME NEW i \in Slots, s.slots[i].key = Temp(u) PROVE Holds(t, u) = Holds(s, u)
      <4>1. Holds(s, u) = Overwritten(s.data[s.slots[i].file], s.slots[i].at, s.slots[i].pend)
        BY <3>2, HoldsWhat
      <4>2. Holds(t, u) = Overwritten(t.data[t.slots[i].file], t.slots[i].at, t.slots[i].pend)
        BY <1>6, <3>2, HoldsWhat
      <4>3. s.slots[i].file # NoFile
        BY <3>2, OpenExists, FilesAre
      <4> QED BY <1>3, <4>1, <4>2, <4>3
    <3> QED BY <3>1, <3>2
  <2>2. Exists(t, Temp(u)) <=> Exists(s, Temp(u))
    BY <1>7 DEF Exists
  <2>3. ASSUME AtEnd(s, u), NEW i \in Slots, t.slots[i].key = Temp(u) PROVE Tell(t, i) = Len(Holds(t, u))
    <3>1. Tell(s, i) = Len(Holds(s, u)) /\ Tell(t, i) = Tell(s, i) /\ Exists(s, Temp(u))
      BY <2>3, OpenExists DEF AtEnd, Tell
    <3> QED BY <2>1, <3>1
  <2> QED BY <2>1, <2>2, <2>3 DEF AtEnd
<1>8. SameNames(s, t, StillNamed(s, t))
  BY <1>2, Kinds DEF SameNames, StillNamed, Shows, Exists
<1>9. ASSUME NEW u \in Users, NEW d, Reads(t, u, d) PROVE Reads(s, u, d)
  <2>1. PICK i \in Slots : s.slots[i].key = Reading(u) /\ t.data[s.slots[i].file] = d
    BY <1>9 DEF Reads
  <2>2. EntryOK(s, s.slots[i])
    BY DEF Sound
  <2>3. s.slots[i].file # NoFile
    BY <2>1, <2>2, Names DEF EntryOK
  <2> QED BY <1>3, <2>1, <2>3 DEF Reads
<1> QED BY <1>6, <1>7, <1>8, <1>9 DEF SameTemps, StillTemps, NoNewReads

(* unlink() *)
OthersOf(p) == {u \in Users : Temp(u) # p}
Linked(s, t) == t.slots = s.slots /\ t.deleters = s.deleters /\ t.next = s.next
LinkedBut(s, t, p) == Linked(s, t) /\ \A q \in Paths \ {p} : t.dir[q] = s.dir[q]

LEMMA UnlinkKeeps ==
    ASSUME NEW B, NEW s, Sound(s, B), NEW p \in Paths, p \in Visible \/ Cached(s, p) = {}, NEW t, t = Unlink(s, p)
    PROVE  /\ Sound(t, B) /\ SameTemps(s, t, OthersOf(p)) /\ SameNames(s, t, Visible \ {p})
           /\ NoNewReads(s, t, Users) /\ ~Exists(t, p) /\ LinkedBut(s, t, p)
<1>1. s \in States(B)
  BY DEF Sound
<1>2. t = [s EXCEPT !.dir[p] = NoFile]
  BY DEF Unlink
<1>3. t \in States(B)
  BY <1>1, <1>2 DEF States
<1>4. /\ t.slots = s.slots /\ t.deleters = s.deleters /\ t.next = s.next /\ t.data = s.data
      /\ t.dir[p] = NoFile
      /\ \A q \in Paths : q # p => t.dir[q] = s.dir[q]
  BY <1>1, <1>2 DEF States
<1>5. Relinked(s, t)
  <2>1. Links(t)
    BY <1>4 DEF Sound, Links
  <2>2. ASSUME NEW u \in Users, Cached(s, Temp(u)) # {} PROVE t.dir[Temp(u)] = s.dir[Temp(u)]
    BY <1>4, <2>2, Kinds, Names
  <2> QED BY <1>4, <2>1, <2>2 DEF Relinked
<1>6. /\ Sound(t, B) /\ SameTemps(s, t, StillTemps(s, t)) /\ SameNames(s, t, StillNamed(s, t))
      /\ NoNewReads(s, t, Users)
  BY <1>3, <1>5, LinksChanged
<1>7. OthersOf(p) \subseteq StillTemps(s, t) /\ Visible \ {p} \subseteq StillNamed(s, t)
  BY <1>4, Names, Kinds DEF OthersOf, StillTemps, StillNamed
<1>8. SameTemps(s, t, OthersOf(p)) /\ SameNames(s, t, Visible \ {p})
  BY <1>6, <1>7 DEF SameTemps, SameNames
<1> QED BY <1>4, <1>6, <1>8 DEF Exists, Linked, LinkedBut

(* fopen() for writing, of a path that is not there *)
LEMMA WriteKeeps ==
    ASSUME NEW B, NEW s, Sound(s, B), NEW p \in Paths, ~Exists(s, p), p \in Visible \/ Cached(s, p) = {},
           NEW d \in Seq(B), NEW t, t = Write(s, p, d)
    PROVE  /\ Sound(t, B) /\ SameTemps(s, t, OthersOf(p)) /\ SameNames(s, t, Visible \ {p})
           /\ NoNewReads(s, t, Users) /\ Exists(t, p) /\ Shows(t, p) = d /\ LinkedBut(s, t, p)
<1> DEFINE f == Written(s, p)
<1>1. s \in States(B)
  BY DEF Sound
<1>2. f \in Unused(s)
  BY <1>1, UnusedLeft
<1> HIDE DEF f
<1>3. f \in Files /\ f # NoFile /\ \A q \in Paths : s.dir[q] # f
  BY <1>2, FilesAre DEF Unused
<1>4. t = [s EXCEPT !.dir[p] = f, !.data[f] = d]
  BY DEF Write, f
<1>5. t \in States(B)
  <2> DEFINE D == [s.dir EXCEPT ![p] = f]
             A == [s.data EXCEPT ![f] = d]
  <2>1. D \in [Paths -> Files \cup {NoFile}]
    BY <1>1, <1>3 DEF States
  <2>2. A \in [Files -> Seq(B)]
    BY <1>1, <1>3 DEF States
  <2>3. t = [s EXCEPT !.dir = D, !.data = A]
    BY <1>1, <1>4 DEF States
  <2> HIDE DEF D, A
  <2> QED BY <1>1, <2>1, <2>2, <2>3 DEF States
<1>6. /\ t.slots = s.slots /\ t.deleters = s.deleters /\ t.next = s.next
      /\ t.data[f] = d /\ \A g \in Files : g # f => t.data[g] = s.data[g]
      /\ t.dir[p] = f
      /\ \A q \in Paths : q # p => t.dir[q] = s.dir[q]
  BY <1>1, <1>3, <1>4 DEF States
<1>7. Relinked(s, t)
  <2>1. Links(t)
    BY <1>3, <1>6 DEF Sound, Links
  <2>2. ASSUME NEW u \in Users, Cached(s, Temp(u)) # {} PROVE t.dir[Temp(u)] = s.dir[Temp(u)]
    BY <1>6, <2>2, Kinds, Names
  <2> QED BY <1>2, <1>6, <2>1, <2>2 DEF Relinked
<1>8. /\ Sound(t, B) /\ SameTemps(s, t, StillTemps(s, t)) /\ SameNames(s, t, StillNamed(s, t))
      /\ NoNewReads(s, t, Users)
  BY <1>5, <1>7, LinksChanged
<1>9. OthersOf(p) \subseteq StillTemps(s, t) /\ Visible \ {p} \subseteq StillNamed(s, t)
  BY <1>6, Names, Kinds DEF OthersOf, StillTemps, StillNamed
<1>10. SameTemps(s, t, OthersOf(p)) /\ SameNames(s, t, Visible \ {p})
  BY <1>8, <1>9 DEF SameTemps, SameNames
<1>11. Exists(t, p) /\ Shows(t, p) = d /\ LinkedBut(s, t, p)
  BY <1>3, <1>6 DEF Exists, Shows, Linked, LinkedBut
<1> QED BY <1>8, <1>10, <1>11

(* The files that are gone were of no use to anybody. *)
LEMMA ReclaimedKeeps ==
    ASSUME NEW B, NEW s, Sound(s, B), NEW t, t = Reclaimed(s)
    PROVE  /\ Sound(t, B) /\ Quiet(s, t) /\ Linked(s, t) /\ t.dir = s.dir /\ t.damaged = s.damaged
<1>1. s \in States(B)
  BY DEF Sound
<1> DEFINE new == [f \in Files |-> IF f \in Unused(s) THEN <<>> ELSE s.data[f]]
<1>2. new \in [Files -> Seq(B)] /\ \A f \in Files \ Unused(s) : new[f] = s.data[f]
  BY <1>1, EmptySeq, Fields
<1>3. t = [s EXCEPT !.data = new]
  BY DEF Reclaimed
<1> HIDE DEF new
<1>4. t \in States(B)
  BY <1>1, <1>2, <1>3 DEF States
<1>5. /\ t.slots = s.slots /\ t.deleters = s.deleters /\ t.next = s.next /\ t.dir = s.dir
      /\ t.data = new /\ t.damaged = s.damaged
  BY <1>1, <1>3 DEF States
<1>6. Relinked(s, t)
  <2>1. Links(t)
    BY <1>5 DEF Sound, Links
  <2> QED BY <1>2, <1>5, <2>1 DEF Relinked
<1>7. /\ Sound(t, B) /\ SameTemps(s, t, StillTemps(s, t)) /\ SameNames(s, t, StillNamed(s, t))
      /\ NoNewReads(s, t, Users)
  BY <1>4, <1>6, LinksChanged
<1>8. StillTemps(s, t) = Users /\ StillNamed(s, t) = Visible
  BY <1>5 DEF StillTemps, StillNamed
<1> QED BY <1>5, <1>7, <1>8 DEF Quiet, Linked

(* CloseCached() *)
LEMMA CloseCachedKeeps ==
    ASSUME NEW B, NEW s, Sound(s, B), NEW k, k # Empty.key, NEW t, t = CloseCached(s, k, TRUE)
    PROVE  /\ Sound(t, B) /\ Quiet(s, t) /\ Cached(t, k) = {}
           /\ t.dir = s.dir /\ t.deleters = s.deleters
           /\ \A h : Cached(t, h) \subseteq Cached(s, h) \/ h = Empty.key
<1>1. CASE Cached(s, k) = {}
  BY <1>1, QuietSame DEF CloseCached
<1>2. CASE Cached(s, k) # {}
  <2>1. PICK i \in Slots : s.slots[i].key = k
    BY <1>2 DEF Cached
  <2>2. Cached(s, k) = {i} /\ Slot(s, k) = i
    BY <2>1, SlotOf
  <2>3. t = Close(s, i, TRUE)
    BY <1>2, <2>2 DEF CloseCached
  <2>4. Sound(t, B) /\ Quiet(s, t) /\ Elsewhere(s, t, i) /\ Emptied(s, t, i)
    BY <2>3, CloseKeeps
  <2>5. Cached(t, k) = {}
    <3>1. ASSUME NEW j \in Slots, t.slots[j].key = k PROVE FALSE
      <4>1. j # i
        BY <2>4, <3>1 DEF Emptied
      <4>2. j \in Cached(s, k)
        BY <2>4, <3>1, <4>1 DEF Cached, Elsewhere
      <4> QED BY <2>2, <4>1, <4>2
    <3> QED BY <3>1 DEF Cached
  <2>6. \A h : Cached(t, h) \subseteq Cached(s, h) \/ h = Empty.key
    BY <2>4 DEF Cached, Elsewhere, Emptied
  <2> QED BY <2>4, <2>5, <2>6 DEF Elsewhere
<1> QED BY <1>1, <1>2
-----------------------------------------------------------------------------
(* The last block, or one more, is written. *)
LEMMA OverwrittenEnd ==
    ASSUME NEW B, NEW old \in Seq(B), NEW pos \in Nat, pos <= Len(old), Len(old) <= pos + 1, NEW b \in B
    PROVE  Overwritten(old, pos, <<b>>) = Append(SubSeq(old, 1, pos), b)
<1>1. Len(old) \in Nat /\ pos + 1 \in Nat /\ <<b>> \in Seq(B) /\ Len(<<b>>) = 1 /\ <<b>>[1] = b
  BY LenProperties
<1> DEFINE start == SubSeq(old, 1, pos)
           n == pos + 1
           f == [i \in 1..n |-> IF i \in pos + 1..pos + Len(<<b>>) THEN <<b>>[i - pos] ELSE old[i]]
           h == Append(start, b)
<1>2. /\ start \in Seq(B) /\ Len(start) = pos
      /\ \A i \in 1..pos : start[i] = old[i]
  <2>1. 1 \in Int /\ pos \in Int /\ \A i \in 1..pos : i \in 1..Len(old)
    BY <1>1
  <2>2. old \in Seq(B)
    OBVIOUS
  <2> QED BY <1>1, <2>1, <2>2, SubSeqProperties
<1> HIDE DEF start
<1>3. Overwritten(old, pos, <<b>>) = f
  <2>1. (IF pos + Len(<<b>>) > Len(old) THEN pos + Len(<<b>>) ELSE Len(old)) = n
    BY <1>1
  <2> QED BY <2>1 DEF Overwritten
<1>4. /\ h \in Seq(B) /\ Len(h) = n /\ h[pos + 1] = b
      /\ \A i \in 1..pos : h[i] = start[i]
  BY <1>2, AppendProperties
<1> HIDE DEF h
<1>5. h = [i \in 1..n |-> h[i]]
  BY <1>4, LenProperties
<1>6. ASSUME NEW i \in 1..n PROVE f[i] = h[i]
  <2>1. CASE i = pos + 1
    BY <1>1, <1>4, <2>1
  <2>2. CASE i # pos + 1
    <3>1. i \in 1..pos BY <2>2
    <3> QED BY <1>1, <1>2, <1>4, <3>1
  <2> QED BY <2>1, <2>2
<1>7. f = h
  BY <1>5, <1>6
<1> QED BY <1>3, <1>7 DEF h, start

LEMMA FirstBlock == ASSUME NEW x, NEW b PROVE Append(SubSeq(x, 1, 0), b) = <<b>>
<1>1. SubSeq(x, 1, 0) = <<>>
  BY SubSeqEmpty
<1>2. Append(<<>>, b) = <<b>>
  OBVIOUS
<1> QED BY <1>1, <1>2

(* server_up_load() *)
UpLoaded(s, t, u, pos, b) ==
    /\ Exists(t, Temp(u)) /\ AtEnd(t, u)
    /\ IF pos = 0 THEN Holds(t, u) = <<b>>
       ELSE Exists(s, Temp(u)) /\ Len(Holds(s, u)) \in {pos, pos + 1}
            /\ Holds(t, u) = Append(SubSeq(Holds(s, u), 1, pos), b)
Refused(s, t, u, pos) ==
    ~Exists(t, Temp(u)) /\ pos # 0 /\ (Exists(s, Temp(u)) => Len(Holds(s, u)) \notin {pos, pos + 1})

LEMMA OpenedEntry ==
    ASSUME NEW B, NEW k \in KeySet, NEW f \in Files \cup {NoFile}, NEW pos \in Nat
    PROVE  /\ Opened(k, f, pos) \in Entries(B)
           /\ Opened(k, f, pos).key = k /\ Opened(k, f, pos).file = f /\ Opened(k, f, pos).at = pos
           /\ Opened(k, f, pos).pend = <<>> /\ Opened(k, f, pos).open
BY EmptySeq DEF Opened, Entries

(* A temporary file is opened. *)
ForUpload(s, u, pos) == Opened(Temp(u), s.dir[Temp(u)], pos)
ReadyFor(s, t, u) == /\ s.next \in Slots /\ OpenFor(t, s.next, u) /\ Slot(t, Temp(u)) = s.next
                     /\ Holds(t, u) = Holds(s, u)

LEMMA KeepForUpload ==
    ASSUME NEW B, NEW s, Sound(s, B), NEW u \in Users, Exists(s, Temp(u)), Cached(s, Temp(u)) = {},
           NEW pos \in Nat, pos <= Len(Holds(s, u)),
           NEW t, t = Keep(s, ForUpload(s, u, pos), TRUE)
    PROVE  Sound(t, B) /\ SameBut(s, t, u) /\ ReadyFor(s, t, u)
<1> DEFINE e == Opened(Temp(u), s.dir[Temp(u)], pos)
<1>1. s \in States(B) /\ s.dir[Temp(u)] \in Files /\ Temp(u) \in KeySet /\ s.next \in Slots
  BY Names, Fields DEF Sound, Exists, States
<1>2. /\ e \in Entries(B) /\ e.key = Temp(u) /\ e.file = s.dir[Temp(u)] /\ e.at = pos
      /\ e.pend = <<>> /\ e.open
  BY <1>1, OpenedEntry
<1>3. Holds(s, u) = s.data[s.dir[Temp(u)]]
  BY HoldsWhat DEF Cached
<1> HIDE DEF e
<1>4. EntryOK(s, e)
  <2>1. /\ e.key # Empty.key
        /\ \A w \in Users : e.key = Temp(w) => w = u
        /\ \A w \in Users : e.key # Reading(w) /\ e.key # Grabbed(w)
    BY <1>2, Names
  <2> QED BY <1>2, <1>3, <2>1 DEF EntryOK, Uploading, Unwritten, Shut, Exists
<1>5. t = Keep(s, e, TRUE)
  BY DEF e, ForUpload
<1>6. /\ Sound(t, B) /\ SameTemps(s, t, NotUploaded(e)) /\ SameNames(s, t, Visible)
      /\ NoNewReads(s, t, NotReading(e)) /\ Kept(s, t, e)
  <2>1. e.key # Empty.key /\ Cached(s, e.key) = {}
    BY <1>2, Names
  <2> QED BY <1>2, <1>4, <1>5, <2>1, KeepKeeps
<1>7. Users \ {u} \subseteq NotUploaded(e) /\ Users \subseteq NotReading(e)
  BY <1>2, Names DEF NotUploaded, NotReading
<1>8. SameBut(s, t, u)
  BY <1>6, <1>7 DEF SameBut, SameTemps, NoNewReads
<1> QED BY <1>1, <1>2, <1>6, <1>8 DEF Kept, OpenFor, ReadyFor

UpLoads(s, r, u, pos, b, B) ==
    \E t : /\ Sound(t, B) /\ SameBut(s, t, u)
           /\ \/ r = Ok(t) /\ UpLoaded(s, t, u, pos, b)
              \/ r = Error(t) /\ Refused(s, t, u, pos)

LEMMA UpLoadKeeps ==
    ASSUME NEW B, NEW s, Sound(s, B), NEW u \in Users, AtEnd(s, u), NEW pos \in Nat, NEW b \in B,
           NEW r \in UpLoad(s, u, pos, b, TRUE)
    PROVE  UpLoads(s, r, u, pos, b, B)
<1>. SUFFICES \E t : /\ Sound(t, B) /\ SameBut(s, t, u)
                     /\ \/ r = Ok(t) /\ UpLoaded(s, t, u, pos, b)
                        \/ r = Error(t) /\ Refused(s, t, u, pos)
  BY DEF UpLoads
<1> DEFINE p == Temp(u)
           open == Cached(s, p) # {}
           end == IF open THEN Tell(s, Slot(s, p)) ELSE Len(s.data[s.dir[p]])
           closed == CloseCached(s, p, TRUE)
           without == Unlink(closed, p)
           new == Write(without, p, <<>>)
           begun == Keep(new, ForUpload(new, u, 0), TRUE)
           kept == IF open THEN s ELSE Keep(s, ForUpload(s, u, pos), TRUE)
<1>1. /\ pos = 0 /\ (~open \/ end > 1) => r \in AppendBlock(begun, new.next, pos, b, TRUE)
      /\ ~(pos = 0 /\ (~open \/ end > 1)) => 
            /\ ~open /\ ~Exists(s, p) => r = Error(s)
            /\ open \/ Exists(s, p) =>
                  /\ pos > end \/ pos + 1 < end => r = Error(without)
                  /\ ~(pos > end \/ pos + 1 < end) => r \in AppendBlock(kept, Slot(kept, p), pos, b, TRUE)
  BY DEF UpLoad, ForUpload
<1>2. p \in Paths /\ p # Empty.key /\ p \notin Visible
  BY Names, Kinds
<1>3. /\ Sound(closed, B) /\ Quiet(s, closed) /\ Cached(closed, p) = {}
      /\ closed.dir = s.dir /\ closed.deleters = s.deleters
  BY <1>2, CloseCachedKeeps
<1> HIDE DEF closed
<1>4. /\ Sound(without, B) /\ SameBut(s, without, u) /\ Cached(without, p) = {} /\ ~Exists(without, p)
  <2>1. /\ Sound(without, B) /\ SameTemps(closed, without, OthersOf(p)) /\ SameNames(closed, without, Visible \ {p})
        /\ NoNewReads(closed, without, Users) /\ ~Exists(without, p) /\ LinkedBut(closed, without, p)
    BY <1>2, <1>3, UnlinkKeeps
  <2> HIDE DEF without
  <2>2. Users \ {u} \subseteq OthersOf(p) /\ Visible \ {p} = Visible
    BY <1>2, Names DEF OthersOf
  <2>3. SameBut(closed, without, u)
    BY <2>1, <2>2 DEF SameBut, SameTemps
  <2>4. Cached(without, p) = {}
    BY <1>3, <2>1 DEF Cached, LinkedBut, Linked
  <2> QED BY <1>3, <2>1, <2>3, <2>4, QuietSameBut, SameButTwice
<1> HIDE DEF without
<1>5. open => end = Len(Holds(s, u)) /\ Exists(s, p)
  <2>1. ASSUME NEW i \in Slots, s.slots[i].key = p PROVE end = Len(Holds(s, u)) /\ Exists(s, p)
    <3>1. Cached(s, p) = {i} /\ Slot(s, p) = i
      BY <1>2, <2>1, SlotOf
    <3>2. Exists(s, p)
      BY <2>1, OpenExists
    <3> QED BY <2>1, <3>1, <3>2 DEF AtEnd
  <2> QED BY <2>1 DEF Cached
<1>6. ~open => end = Len(Holds(s, u))
  <2>1. ASSUME ~open PROVE Holds(s, u) = s.data[s.dir[p]]
    BY <2>1, HoldsWhat DEF Cached
  <2> QED BY <2>1
<1>7. CASE pos = 0 /\ (~open \/ end > 1)
  <2>1. /\ Sound(new, B) /\ SameTemps(without, new, OthersOf(p)) /\ SameNames(without, new, Visible \ {p})
        /\ NoNewReads(without, new, Users) /\ Exists(new, p) /\ Shows(new, p) = <<>> /\ LinkedBut(without, new, p)
    <3>1. <<>> \in Seq(B)
      BY EmptySeq
    <3> QED BY <1>2, <1>4, <3>1, WriteKeeps
  <2> HIDE DEF new
  <2>2. Users \ {u} \subseteq OthersOf(p) /\ Visible \ {p} = Visible
    BY <1>2, Names DEF OthersOf
  <2>3. SameBut(s, new, u)
    <3>1. SameBut(without, new, u)
      BY <2>1, <2>2 DEF SameBut, SameTemps
    <3> QED BY <1>4, <3>1, SameButTwice
  <2>4. Cached(new, p) = {}
    BY <1>4, <2>1 DEF Cached, LinkedBut, Linked
  <2>5. Holds(new, u) = <<>> /\ Len(Holds(new, u)) = 0
    <3>1. Holds(new, u) = new.data[new.dir[p]]
      BY <2>1, <2>4, HoldsWhat DEF Cached
    <3>2. Len(<<>>) = 0
      BY EmptySeq
    <3> QED BY <2>1, <3>1, <3>2 DEF Shows
  <2>6. /\ Sound(begun, B) /\ SameBut(new, begun, u) /\ new.next \in Slots /\ OpenFor(begun, new.next, u)
        /\ Holds(begun, u) = <<>>
    <3>1. 0 <= Len(Holds(new, u)) /\ 0 \in Nat /\ begun = Keep(new, ForUpload(new, u, 0), TRUE)
      BY <2>5
    <3> HIDE DEF begun
    <3>2. Sound(begun, B) /\ SameBut(new, begun, u) /\ ReadyFor(new, begun, u)
      BY <2>1, <2>4, <3>1, KeepForUpload
    <3> QED BY <2>5, <3>2 DEF ReadyFor
  <2> HIDE DEF begun
  <2>7. PICK t : /\ AppendBlock(begun, new.next, pos, b, TRUE) = {Ok(t)}
                 /\ Sound(t, B) /\ SameBut(begun, t, u) /\ Elsewhere(begun, t, new.next)
                 /\ Appended(begun, t, new.next, u, pos, b)
    <3>1. pos <= Len(Holds(begun, u))
      BY <1>7, <2>5, <2>6
    <3> QED BY <2>6, <3>1, AppendKeeps
  <2>8. Holds(t, u) = <<b>>
    <3>1. <<>> \in Seq(B) /\ Len(<<>>) = 0
      BY EmptySeq
    <3>2. Overwritten(<<>>, 0, <<b>>) = Append(SubSeq(<<>>, 1, 0), b)
      <4> DEFINE none == <<>>
      <4>1. none \in Seq(B) /\ 0 <= Len(none) /\ Len(none) <= 0 + 1 /\ 0 \in Nat
        BY <3>1
      <4> HIDE DEF none
      <4>2. Overwritten(none, 0, <<b>>) = Append(SubSeq(none, 1, 0), b)
        BY <4>1, OverwrittenEnd
      <4> QED BY <4>2 DEF none
    <3>3. Append(SubSeq(<<>>, 1, 0), b) = <<b>>
      BY FirstBlock
    <3> QED BY <1>7, <2>6, <2>7, <3>2, <3>3 DEF Appended
  <2>9. Exists(t, p)
    BY <2>6, <2>7, OpenExists DEF Appended, OpenFor
  <2>10. AtEnd(t, u)
    BY <1>7, <2>5, <2>6, <2>7 DEF Appended
  <2>11. SameBut(s, t, u)
    BY <2>3, <2>6, <2>7, SameButTwice
  <2> QED BY <1>1, <1>7, <2>7, <2>8, <2>9, <2>10, <2>11 DEF UpLoaded
<1>8. CASE ~(pos = 0 /\ (~open \/ end > 1)) /\ ~open /\ ~Exists(s, p)
  <2>1. SameBut(s, s, u)
    BY QuietSame, QuietSameBut
  <2> QED BY <1>1, <1>8, <2>1 DEF Refused
<1>9. CASE ~(pos = 0 /\ (~open \/ end > 1)) /\ (open \/ Exists(s, p)) /\ (pos > end \/ pos + 1 < end)
  <2>1. Exists(s, p) /\ end = Len(Holds(s, u))
    BY <1>5, <1>6, <1>9
  <2>2. end \in Nat
    BY <2>1, HoldsType, LenProperties
  <2> HIDE DEF end
  <2>3. pos # 0
    BY <1>9, <2>2
  <2>4. Len(Holds(s, u)) \notin {pos, pos + 1}
    BY <1>9, <2>1, <2>2
  <2> QED BY <1>1, <1>4, <1>9, <2>3, <2>4 DEF Refused
<1>10. CASE ~(pos = 0 /\ (~open \/ end > 1)) /\ (open \/ Exists(s, p)) /\ ~(pos > end \/ pos + 1 < end)
  <2>1. Exists(s, p) /\ end = Len(Holds(s, u))
    BY <1>5, <1>6, <1>10
  <2>2. end \in Nat
    BY <2>1, HoldsType, LenProperties
  <2> HIDE DEF end
  <2>3. pos <= Len(Holds(s, u)) /\ Len(Holds(s, u)) <= pos + 1
    BY <1>10, <2>1, <2>2
  <2>4. \E i \in Slots : /\ Sound(kept, B) /\ SameBut(s, kept, u) /\ OpenFor(kept, i, u) /\ Slot(kept, p) = i
                         /\ Holds(kept, u) = Holds(s, u)
    <3>1. CASE open
      <4>1. PICK i \in Slots : s.slots[i].key = p
        BY <3>1 DEF Cached
      <4>2. Slot(s, p) = i
        BY <1>2, <4>1, SlotOf
      <4> QED BY <3>1, <4>1, <4>2, QuietSame, QuietSameBut DEF OpenFor
    <3>2. CASE ~open
      <4>1. kept = Keep(s, ForUpload(s, u, pos), TRUE)
        BY <3>2
      <4> HIDE DEF kept
      <4>2. Sound(kept, B) /\ SameBut(s, kept, u) /\ ReadyFor(s, kept, u)
        BY <2>1, <2>3, <3>2, <4>1, KeepForUpload
      <4> QED BY <4>2 DEF ReadyFor
    <3> QED BY <3>1, <3>2
  <2>5. PICK i \in Slots : /\ Sound(kept, B) /\ SameBut(s, kept, u) /\ OpenFor(kept, i, u) /\ Slot(kept, p) = i
                           /\ Holds(kept, u) = Holds(s, u)
    BY <2>4
  <2> HIDE DEF kept
  <2>6. PICK t : /\ AppendBlock(kept, i, pos, b, TRUE) = {Ok(t)}
                 /\ Sound(t, B) /\ SameBut(kept, t, u) /\ Elsewhere(kept, t, i) /\ Appended(kept, t, i, u, pos, b)
    <3>1. pos <= Len(Holds(kept, u))
      BY <2>3, <2>5
    <3> QED BY <2>5, <3>1, AppendKeeps
  <2>7. r = Ok(t)
    BY <1>1, <1>10, <2>5, <2>6
  <2>8. Holds(t, u) = Append(SubSeq(Holds(s, u), 1, pos), b)
    <3>1. Holds(s, u) \in Seq(B)
      BY <2>1, HoldsType
    <3>2. Holds(t, u) = Overwritten(Holds(s, u), pos, <<b>>)
      BY <2>5, <2>6 DEF Appended
    <3> QED BY <2>3, <3>1, <3>2, OverwrittenEnd
  <2>9. Exists(t, p)
    BY <2>6, OpenExists DEF Appended, OpenFor
  <2>10. AtEnd(t, u)
    BY <2>1, <2>2, <2>3, <2>5, <2>6 DEF Appended
  <2>11. SameBut(s, t, u)
    BY <2>5, <2>6, SameButTwice
  <2>12. CASE pos = 0
    <3>1. Append(SubSeq(Holds(s, u), 1, 0), b) = <<b>>
      BY FirstBlock
    <3> QED BY <2>6, <2>7, <2>8, <2>9, <2>10, <2>11, <2>12, <3>1 DEF UpLoaded
  <2>13. CASE pos # 0
    <3>1. Len(Holds(s, u)) \in {pos, pos + 1}
      BY <2>1, <2>2, <2>3
    <3> QED BY <2>1, <2>6, <2>7, <2>8, <2>9, <2>10, <2>11, <2>13, <3>1 DEF UpLoaded
  <2> QED BY <2>12, <2>13
<1> QED BY <1>7, <1>8, <1>9, <1>10
-----------------------------------------------------------------------------
(* The temporary file of u is closed and unlinked. *)
LEMMA UnlinkTempKeeps ==
    ASSUME NEW B, NEW s, Sound(s, B), NEW u \in Users,
           NEW t, t = Unlink(CloseCached(s, Temp(u), TRUE), Temp(u))
    PROVE  Sound(t, B) /\ SameBut(s, t, u) /\ ~Exists(t, Temp(u))
<1> DEFINE p == Temp(u)
           closed == CloseCached(s, p, TRUE)
<1>1. p \in Paths /\ p # Empty.key /\ p \notin Visible
  BY Names, Kinds
<1>2. Sound(closed, B) /\ Quiet(s, closed) /\ Cached(closed, p) = {}
  BY <1>1, CloseCachedKeeps
<1>3. t = Unlink(closed, p)
  OBVIOUS
<1> HIDE DEF closed
<1>4. /\ Sound(t, B) /\ SameTemps(closed, t, OthersOf(p)) /\ SameNames(closed, t, Visible \ {p})
      /\ NoNewReads(closed, t, Users) /\ ~Exists(t, p)
  BY <1>1, <1>2, <1>3, UnlinkKeeps
<1>5. Users \ {u} \subseteq OthersOf(p) /\ Visible \ {p} = Visible
  BY <1>1, Names DEF OthersOf
<1>6. SameBut(closed, t, u)
  BY <1>4, <1>5 DEF SameBut, SameTemps
<1> QED BY <1>2, <1>4, <1>6, QuietSameBut, SameButTwice

Cancels(s, r, u, B) ==
    \E t : r = Ok(t) /\ Sound(t, B) /\ SameBut(s, t, u) /\ ~Exists(t, Temp(u))

LEMMA CancelKeeps ==
    ASSUME NEW B, NEW s, Sound(s, B), NEW u \in Users, NEW r \in Cancel(s, u)
    PROVE  Cancels(s, r, u, B)
<1>. SUFFICES \E t : r = Ok(t) /\ Sound(t, B) /\ SameBut(s, t, u) /\ ~Exists(t, Temp(u))
  BY DEF Cancels
<1> DEFINE t == Unlink(CloseCached(s, Temp(u), TRUE), Temp(u))
<1>1. r = Ok(t)
  BY DEF Cancel
<1>2. Sound(t, B) /\ SameBut(s, t, u) /\ ~Exists(t, Temp(u))
  BY UnlinkTempKeeps
<1> QED BY <1>1, <1>2

(* A step that changes nothing but what is under the names P, and the      *)
(* temporary files of the users outside U.                                 *)
Changes(s, t, U, P) == SameTemps(s, t, U) /\ SameNames(s, t, Visible \ P) /\ NoNewReads(s, t, Users)

LEMMA ChangesTwice ==
    ASSUME NEW r, NEW s, NEW t, NEW U, NEW P, Changes(r, s, U, P), Changes(s, t, U, P) PROVE Changes(r, t, U, P)
BY DEF Changes, SameTemps, SameNames, NoNewReads

LEMMA QuietChanges == ASSUME NEW s, NEW t, NEW U \in SUBSET Users, NEW P, Quiet(s, t) PROVE Changes(s, t, U, P)
BY DEF Quiet, Changes, SameTemps, SameNames

LEMMA UnlinkNamed ==
    ASSUME NEW B, NEW s, Sound(s, B), NEW p \in Visible, NEW t, t = Unlink(s, p)
    PROVE  Sound(t, B) /\ Changes(s, t, Users, {p}) /\ ~Exists(t, p) /\ LinkedBut(s, t, p)
<1>1. p \in Paths /\ OthersOf(p) = Users
  BY Kinds DEF OthersOf
<1>2. /\ Sound(t, B) /\ SameTemps(s, t, OthersOf(p)) /\ SameNames(s, t, Visible \ {p})
      /\ NoNewReads(s, t, Users) /\ ~Exists(t, p) /\ LinkedBut(s, t, p)
  BY <1>1, UnlinkKeeps
<1> QED BY <1>1, <1>2 DEF Changes

LEMMA WriteNamed ==
    ASSUME NEW B, NEW s, Sound(s, B), NEW p \in Visible, ~Exists(s, p), NEW d \in Seq(B), NEW t, t = Write(s, p, d)
    PROVE  /\ Sound(t, B) /\ Changes(s, t, Users, {p}) /\ Exists(t, p) /\ Shows(t, p) = d
           /\ LinkedBut(s, t, p)
<1>1. p \in Paths /\ OthersOf(p) = Users
  BY Kinds DEF OthersOf
<1>2. /\ Sound(t, B) /\ SameTemps(s, t, OthersOf(p)) /\ SameNames(s, t, Visible \ {p})
      /\ NoNewReads(s, t, Users) /\ Exists(t, p) /\ Shows(t, p) = d /\ LinkedBut(s, t, p)
  BY <1>1, WriteKeeps
<1> QED BY <1>1, <1>2 DEF Changes

LEMMA ShowsType ==
    ASSUME NEW B, NEW s, Sound(s, B), NEW p \in Paths
    PROVE  Shows(s, p) \in Seq(B) /\ Len(Shows(s, p)) \in Nat
<1>1. Shows(s, p) \in Seq(B)
  BY EmptySeq, Fields DEF Sound, Shows, Exists
<1> QED BY <1>1, LenProperties

(* server_del_file() *)
Deletes(s, r, B) ==
    \E t : /\ Sound(t, B) /\ Changes(s, t, Users, {Target})
           /\ \/ r = Ok(t) /\ ~Exists(t, Target)
              \/ r = Error(t) /\ t = s

LEMMA DelFileKeeps ==
    ASSUME NEW B, NEW s, Sound(s, B), NEW u \in Users, NEW r \in DelFile(s, u)
    PROVE  Deletes(s, r, B)
<1>. SUFFICES \E t : /\ Sound(t, B) /\ Changes(s, t, Users, {Target})
                     /\ \/ r = Ok(t) /\ ~Exists(t, Target)
                        \/ r = Error(t) /\ t = s
  BY DEF Deletes
<1>1. CASE u \in s.deleters /\ Exists(s, Target)
  <2> DEFINE t == Unlink(s, Target)
  <2>1. r = Ok(t)
    BY <1>1 DEF DelFile
  <2>2. Sound(t, B) /\ Changes(s, t, Users, {Target}) /\ ~Exists(t, Target)
    BY Kinds, UnlinkNamed
  <2> QED BY <2>1, <2>2
<1>2. CASE ~(u \in s.deleters /\ Exists(s, Target))
  <2>1. r = Error(s)
    BY <1>2 DEF DelFile
  <2> QED BY <2>1, QuietSame, QuietChanges
<1> QED BY <1>1, <1>2

(* server_grab_done() *)
EndsGrab(s, r, u, B) ==
    \E t : /\ Sound(t, B) /\ Changes(s, t, Users, {Grabbed(u)})
           /\ \/ r = Ok(t) /\ ~Exists(t, Grabbed(u))
              \/ r = Error(t) /\ t = s

LEMMA GrabDoneKeeps ==
    ASSUME NEW B, NEW s, Sound(s, B), NEW u \in Users, NEW r \in GrabDone(s, u)
    PROVE  EndsGrab(s, r, u, B)
<1>. SUFFICES \E t : /\ Sound(t, B) /\ Changes(s, t, Users, {Grabbed(u)})
                     /\ \/ r = Ok(t) /\ ~Exists(t, Grabbed(u))
                        \/ r = Error(t) /\ t = s
  BY DEF EndsGrab
<1>1. CASE u \in s.deleters /\ Exists(s, Grabbed(u))
  <2> DEFINE closed == CloseCached(s, Grabbed(u), TRUE)
             t == Unlink(closed, Grabbed(u))
  <2>1. r = Ok(t)
    BY <1>1 DEF GrabDone
  <2>2. Sound(closed, B) /\ Quiet(s, closed)
    BY Names, CloseCachedKeeps
  <2> HIDE DEF closed
  <2>3. Sound(t, B) /\ Changes(closed, t, Users, {Grabbed(u)}) /\ ~Exists(t, Grabbed(u))
    BY <2>2, Kinds, UnlinkNamed
  <2> HIDE DEF t
  <2>4. Changes(s, t, Users, {Grabbed(u)})
    BY <2>2, <2>3, QuietChanges, ChangesTwice
  <2> QED BY <2>1, <2>3, <2>4
<1>2. CASE ~(u \in s.deleters /\ Exists(s, Grabbed(u)))
  <2>1. r = Error(s)
    BY <1>2 DEF GrabDone
  <2> QED BY <2>1, QuietSame, QuietChanges
<1> QED BY <1>1, <1>2

(* server_install().  What the upload holds comes under the name, or it    *)
(* was refused; the temporary file is gone in any case.                    *)
Installs(s, r, u, B) ==
    \E t : /\ Sound(t, B) /\ Changes(s, t, Users \ {u}, {Target}) /\ ~Exists(t, Temp(u))
           /\ \/ /\ r = Ok(t) /\ Exists(s, Temp(u)) /\ Exists(t, Target)
                 /\ Shows(t, Target) = Holds(s, u)
              \/ r = Error(t) /\ (~Exists(t, Target) \/ SameNames(s, t, {Target}))

LEMMA InstallKeeps ==
    ASSUME NEW B, NEW s, Sound(s, B), NEW u \in Users, NEW r \in Install(s, u, TRUE)
    PROVE  Installs(s, r, u, B)
<1>. SUFFICES \E t : /\ Sound(t, B) /\ Changes(s, t, Users \ {u}, {Target}) /\ ~Exists(t, Temp(u))
                     /\ \/ /\ r = Ok(t) /\ Exists(s, Temp(u)) /\ Exists(t, Target)
                           /\ Shows(t, Target) = Holds(s, u)
                        \/ r = Error(t) /\ (~Exists(t, Target) \/ SameNames(s, t, {Target}))
  BY DEF Installs
<1> DEFINE p == Temp(u)
           closed == CloseCached(s, p, TRUE)
           bare == Unlink(closed, Target)
           whole == bare.data[bare.dir[p]]
<1>1. p \in Paths /\ p # Empty.key /\ p \notin Visible /\ Target \in Visible /\ p # Target
  BY Names, Kinds
<1>2. Sound(closed, B) /\ Quiet(s, closed) /\ Cached(closed, p) = {} /\ closed.dir = s.dir
  BY <1>1, CloseCachedKeeps
<1>3. Changes(s, closed, Users \ {u}, {Target})
  BY <1>2, QuietChanges
<1>4. CASE Exists(s, Target) /\ u \notin s.deleters
  <2> DEFINE t == Unlink(closed, p)
  <2>1. r = Error(t)
    BY <1>4 DEF Install
  <2>2. Sound(t, B) /\ SameBut(s, t, u) /\ ~Exists(t, p)
    BY UnlinkTempKeeps
  <2> HIDE DEF t
  <2>3. SameNames(s, t, {Target}) /\ Changes(s, t, Users \ {u}, {Target})
    BY <1>1, <2>2 DEF SameBut, Changes, SameNames
  <2> QED BY <2>1, <2>2, <2>3
<1>5. CASE ~(Exists(s, Target) /\ u \notin s.deleters)
  <2>1. /\ Sound(bare, B) /\ Changes(closed, bare, Users, {Target}) /\ ~Exists(bare, Target)
        /\ LinkedBut(closed, bare, Target)
    BY <1>1, <1>2, UnlinkNamed
  <2> HIDE DEF bare, closed
  <2>2. /\ Cached(bare, p) = {} /\ (Exists(bare, p) <=> Exists(s, p))
        /\ Exists(s, p) => Holds(bare, u) = Holds(s, u)
    <3>1. Cached(bare, p) = {}
      BY <1>2, <2>1 DEF Cached, LinkedBut, Linked
    <3> QED BY <1>2, <2>1, <3>1 DEF Changes, Quiet, SameTemps
  <2>3. Changes(s, bare, Users \ {u}, {Target})
    <3>1. Changes(closed, bare, Users \ {u}, {Target})
      BY <2>1 DEF Changes, SameTemps
    <3> QED BY <1>3, <3>1, ChangesTwice
  <2>4. PICK q \in Copy(bare, p, Target, TRUE) : r = [q EXCEPT !.srv = Unlink(@, p)]
    BY <1>5 DEF Install, bare, closed
  (* Unlinking p last *)
  <2>5. ASSUME NEW x, Sound(x, B), Cached(x, p) = {}, Changes(s, x, Users \ {u}, {Target}), NEW y, y = Unlink(x, p)
        PROVE  /\ Sound(y, B) /\ Changes(s, y, Users \ {u}, {Target}) /\ ~Exists(y, p)
               /\ SameNames(x, y, {Target})
    <3>1. /\ Sound(y, B) /\ SameTemps(x, y, OthersOf(p)) /\ SameNames(x, y, Visible \ {p})
          /\ NoNewReads(x, y, Users) /\ ~Exists(y, p)
      BY <1>1, <2>5, UnlinkKeeps
    <3>2. Users \ {u} \subseteq OthersOf(p) /\ Visible \ {p} = Visible
      BY <1>1, Names DEF OthersOf
    <3>3. Changes(x, y, Users \ {u}, {Target}) /\ SameNames(x, y, {Target})
      BY <1>1, <3>1, <3>2 DEF Changes, SameTemps, SameNames
    <3> QED BY <2>5, <3>1, <3>3, ChangesTwice
  <2>6. CASE ~Exists(bare, p)
    <3> DEFINE t == Unlink(bare, p)
    <3>1. r = Error(t)
      BY <2>4, <2>6 DEF Copy, Error, Result
    <3>2. Sound(t, B) /\ Changes(s, t, Users \ {u}, {Target}) /\ ~Exists(t, p) /\ SameNames(bare, t, {Target})
      BY <2>1, <2>2, <2>3, <2>5
    <3> HIDE DEF t
    <3>3. ~Exists(t, Target)
      BY <2>1, <3>2 DEF SameNames
    <3> QED BY <3>1, <3>2, <3>3
  <2>7. CASE Exists(bare, p)
    <3> DEFINE x == Write(bare, Target, whole)
               t == Unlink(x, p)
    <3>1. r = Ok(t)
      BY <2>4, <2>7 DEF Copy, Ok, Result
    <3>2. whole = Holds(s, u) /\ whole \in Seq(B)
      <4>1. Holds(bare, u) = whole
        BY <2>1, <2>2, HoldsWhat DEF Cached
      <4>2. Holds(bare, u) \in Seq(B)
        BY <2>1, <2>7, HoldsType
      <4> QED BY <2>2, <2>7, <4>1, <4>2
    <3> HIDE DEF whole
    <3>3. /\ Sound(x, B) /\ Changes(bare, x, Users, {Target}) /\ Exists(x, Target) /\ Shows(x, Target) = whole
          /\ LinkedBut(bare, x, Target)
      BY <1>1, <2>1, <3>2, WriteNamed
    <3> HIDE DEF x
    <3>4. Cached(x, p) = {}
      BY <2>2, <3>3 DEF Cached, LinkedBut, Linked
    <3>5. Changes(s, x, Users \ {u}, {Target})
      <4>1. Changes(bare, x, Users \ {u}, {Target})
        BY <3>3 DEF Changes, SameTemps
      <4> QED BY <2>3, <4>1, ChangesTwice
    <3>6. Sound(t, B) /\ Changes(s, t, Users \ {u}, {Target}) /\ ~Exists(t, p) /\ SameNames(x, t, {Target})
      BY <2>5, <3>3, <3>4, <3>5
    <3> HIDE DEF t
    <3>7. Exists(t, Target) /\ Shows(t, Target) = Holds(s, u)
      BY <3>2, <3>3, <3>6 DEF SameNames
    <3> QED BY <2>2, <2>7, <3>1, <3>6, <3>7
  <2> QED BY <2>6, <2>7
<1> QED BY <1>4, <1>5
-----------------------------------------------------------------------------
(* serve_file() *)
Piece(d, pos) == IF pos < Len(d) THEN <<d[pos + 1]>> ELSE <<>>

(* server_get_file().  A file that u reads stays what it is; else it is    *)
(* what is under the name now.                                             *)
Got(s, t, u, d) == /\ Reads(t, u, d)
                   /\ \/ t = s
                      \/ /\ Cached(s, Reading(u)) = {} /\ Exists(s, Target) /\ d = Shows(s, Target)
                         /\ \A c : Reads(t, u, c) => c = d

Gets(s, r, u, pos, B) ==
    \E t : /\ Sound(t, B) /\ SameTemps(s, t, Users) /\ SameNames(s, t, Visible)
           /\ NoNewReads(s, t, Users \ {u})
           /\ \/ r = Error(t) /\ t = s
              \/ \E d : r = Result(t, "data", Piece(d, pos)) /\ Got(s, t, u, d)

LEMMA GetFileKeeps ==
    ASSUME NEW B, NEW s, Sound(s, B), NEW u \in Users, NEW pos \in Nat, NEW r \in GetFile(s, u, pos)
    PROVE  Gets(s, r, u, pos, B)
<1>. SUFFICES \E t : /\ Sound(t, B) /\ SameTemps(s, t, Users) /\ SameNames(s, t, Visible)
                     /\ NoNewReads(s, t, Users \ {u})
                     /\ \/ r = Error(t) /\ t = s
                        \/ \E d : r = Result(t, "data", Piece(d, pos)) /\ Got(s, t, u, d)
  BY DEF Gets
<1> DEFINE k == Reading(u)
           e == Opened(k, s.dir[Target], 0)
           t == Keep(s, e, TRUE)
<1>0. k = <<"F", u>>
  BY DEF Reading
<1>1. SameTemps(s, s, Users) /\ SameNames(s, s, Visible) /\ NoNewReads(s, s, Users \ {u})
  BY DEF SameTemps, SameNames, NoNewReads
<1>2. s \in States(B)
  BY DEF Sound
<1>3. CASE Cached(s, k) # {}
  <2>1. PICK i \in Slots : s.slots[i].key = k
    BY <1>3 DEF Cached
  <2>2. Slot(s, k) = i
    BY <2>1, SlotOf, Names
  <2> DEFINE d == s.data[s.slots[i].file]
  <2>3. r = Serve(s, i, pos)
    BY <1>0, <1>3, <2>2 DEF GetFile
  <2>4. r = Result(s, "data", Piece(d, pos))
    BY <2>3 DEF Serve, Block, Piece
  <2>5. Got(s, s, u, d)
    BY <2>1 DEF Got, Reads
  <2> QED BY <1>1, <2>4, <2>5
<1>4. CASE Cached(s, k) = {} /\ Exists(s, Target)
  <2>1. r = Serve(t, s.next, pos)
    BY <1>0, <1>4 DEF GetFile
  <2>2. s.dir[Target] \in Files /\ s.dir[Target] # NoFile /\ s.next \in Slots
    BY <1>2, <1>4, Names, Fields DEF Exists, States
  <2>3. e \in Entries(B) /\ e.key = k /\ e.file = s.dir[Target] /\ e.pend = <<>> /\ e.open
    <3> DEFINE f == s.dir[Target]
    <3>1. k \in KeySet /\ 0 \in Nat /\ f \in Files \cup {NoFile}
      BY <2>2, Names
    <3>2. e = Opened(k, f, 0)
      OBVIOUS
    <3> HIDE DEF e, k, f
    <3>3. e \in Entries(B) /\ e.key = k /\ e.file = f /\ e.pend = <<>> /\ e.open
      BY <3>1, <3>2, EmptySeq DEF Opened, Entries
    <3> QED BY <3>3 DEF f
  <2> HIDE DEF e
  <2>4. EntryOK(s, e)
    <3>1. /\ e.key # Empty.key
          /\ \A w \in Users : e.key # Temp(w) /\ e.key # Grabbed(w)
      BY <2>3, Names
    <3>2. \A w \in Users : s.dir[Target] # s.dir[Temp(w)]
      BY <2>2, Names DEF Sound, Links
    <3> QED BY <2>2, <2>3, <3>1, <3>2 DEF EntryOK, Uploading, Unwritten, Shut
  <2>5. /\ Sound(t, B) /\ SameTemps(s, t, NotUploaded(e)) /\ SameNames(s, t, Visible)
        /\ NoNewReads(s, t, NotReading(e)) /\ Elsewhere(s, t, s.next) /\ Kept(s, t, e)
    <3>1. e.key # Empty.key /\ Cached(s, e.key) = {}
      BY <1>4, <2>3, Names
    <3> QED BY <2>3, <2>4, <3>1, KeepKeeps
  <2> HIDE DEF t
  <2>6. SameTemps(s, t, Users) /\ NoNewReads(s, t, Users \ {u})
    <3>1. Users \subseteq NotUploaded(e) /\ Users \ {u} \subseteq NotReading(e)
      BY <2>3, Names DEF NotUploaded, NotReading
    <3> QED BY <2>5, <3>1 DEF SameTemps, NoNewReads
  <2> DEFINE d == t.data[s.dir[Target]]
  <2>7. d = Shows(s, Target)
    BY <1>4, <2>5, Kinds DEF SameNames, Shows, Exists, Elsewhere
  <2>8. r = Result(t, "data", Piece(d, pos))
    BY <2>1, <2>3, <2>5 DEF Serve, Block, Piece, Kept
  <2>9. Got(s, t, u, d)
    <3>1. Reads(t, u, d)
      BY <2>2, <2>3, <2>5 DEF Reads, Kept
    <3>2. ASSUME NEW c, Reads(t, u, c) PROVE c = d
      <4>1. PICK i \in Slots : t.slots[i].key = k /\ t.data[t.slots[i].file] = c
        BY <3>2 DEF Reads
      <4>2. i = s.next
        BY <2>3, <2>5, <4>1 DEF Kept, Cached
      <4> QED BY <2>3, <2>5, <4>1, <4>2 DEF Kept
    <3> QED BY <1>4, <2>7, <3>1, <3>2 DEF Got
  <2> QED BY <2>5, <2>6, <2>8, <2>9
<1>5. CASE Cached(s, k) = {} /\ ~Exists(s, Target)
  <2>1. r = Error(s)
    BY <1>0, <1>5 DEF GetFile
  <2> QED BY <1>1, <2>1
<1> QED BY <1>3, <1>4, <1>5

(* server_secure_file(): what is under the name goes to the grabbed file. *)
Secured(s, t, u) == /\ Exists(s, Target) /\ ~Exists(t, Target) /\ Exists(t, Grabbed(u))
                    /\ Shows(t, Grabbed(u)) = Shows(s, Target)

LEMMA SecureFileKeeps ==
    ASSUME NEW B, NEW s, Sound(s, B), NEW u \in Users, NEW r \in SecureFile(s, u, TRUE)
    PROVE  \E t : /\ Sound(t, B) /\ Changes(s, t, Users, {Target, Grabbed(u)})
                  /\ \/ r = Ok(t) /\ Secured(s, t, u)
                     \/ r = Error(t) /\ t = s
<1> DEFINE g == Grabbed(u)
           bare == Unlink(s, g)
           whole == bare.data[bare.dir[Target]]
           x == Write(bare, g, whole)
           t == Unlink(x, Target)
<1>1. g \in Visible /\ Target \in Visible /\ g # Target /\ Target \in Paths
  BY Names, Kinds
<1>2. CASE ~Exists(s, Target)
  <2>1. r = Error(s)
    BY <1>2 DEF SecureFile
  <2> QED BY <2>1, QuietSame, QuietChanges
<1>3. CASE Exists(s, Target)
  <2>1. Sound(bare, B) /\ Changes(s, bare, Users, {g}) /\ ~Exists(bare, g)
    BY <1>1, UnlinkNamed
  <2>2. PICK q \in Copy(bare, Target, g, TRUE) :
            r = IF q.reply.kind = "ok" THEN [q EXCEPT !.srv = Unlink(@, Target)] ELSE q
    BY <1>3 DEF SecureFile
  <2> HIDE DEF bare
  <2>3. Exists(bare, Target) /\ Shows(bare, Target) = Shows(s, Target)
    BY <1>1, <1>3, <2>1 DEF Changes, SameNames
  <2>4. q = Ok(x)
    BY <2>2, <2>3 DEF Copy
  <2>5. r = Ok(t)
    BY <2>2, <2>4 DEF Ok, Result
  <2>6. whole = Shows(s, Target) /\ whole \in Seq(B)
    BY <1>1, <2>1, <2>3, ShowsType DEF Shows
  <2> HIDE DEF whole
  <2>7. Sound(x, B) /\ Changes(bare, x, Users, {g}) /\ Exists(x, g) /\ Shows(x, g) = whole
    BY <1>1, <2>1, <2>6, WriteNamed
  <2> HIDE DEF x
  <2>8. Sound(t, B) /\ Changes(x, t, Users, {Target}) /\ ~Exists(t, Target)
    BY <1>1, <2>7, UnlinkNamed
  <2> HIDE DEF t
  <2>9. Changes(s, t, Users, {Target, g})
    <3>1. /\ Changes(s, bare, Users, {Target, g}) /\ Changes(bare, x, Users, {Target, g})
          /\ Changes(x, t, Users, {Target, g})
      BY <2>1, <2>7, <2>8 DEF Changes, SameNames
    <3> QED BY <3>1, ChangesTwice
  <2>10. Secured(s, t, u)
    BY <1>1, <1>3, <2>6, <2>7, <2>8 DEF Changes, SameNames, Secured
  <2> QED BY <2>5, <2>8, <2>9, <2>10
<1> QED BY <1>2, <1>3

LEMMA PieceType ==
    ASSUME NEW B, NEW d \in Seq(B), NEW pos \in Nat
    PROVE  \/ Piece(d, pos) = <<>>
           \/ pos + 1 \in 1..Len(d) /\ d[pos + 1] \in B /\ Piece(d, pos) = <<d[pos + 1]>>
<1>1. Len(d) \in Nat
  BY LenProperties
<1>2. CASE pos < Len(d)
  <2>1. pos + 1 \in 1..Len(d)
    BY <1>1, <1>2
  <2>2. d[pos + 1] \in B
    BY <2>1, ElementOfSeq
  <2> QED BY <1>2, <2>1, <2>2 DEF Piece
<1>3. CASE ~(pos < Len(d))
  BY <1>3 DEF Piece
<1> QED BY <1>2, <1>3

LEMMA ReadsType ==
    ASSUME NEW B, NEW s, Sound(s, B), NEW u \in Users, NEW d, Reads(s, u, d)
    PROVE  d \in Seq(B) /\ \A c : Reads(s, u, c) => c = d
<1>1. PICK i \in Slots : s.slots[i].key = Reading(u) /\ s.data[s.slots[i].file] = d
  BY DEF Reads
<1>2. s.slots[i].file # NoFile
  BY <1>1, Names DEF Sound, EntryOK
<1>3. d \in Seq(B)
  BY <1>1, <1>2, Fields DEF Sound
<1>4. ASSUME NEW c, Reads(s, u, c) PROVE c = d
  <2>1. PICK j \in Slots : s.slots[j].key = Reading(u) /\ s.data[s.slots[j].file] = c
    BY <1>4 DEF Reads
  <2>2. j = i
    <3>1. ASSUME j # i PROVE s.slots[i] = Empty
      BY <1>1, <2>1, <3>1 DEF Sound, OneSlot
    <3> QED BY <1>1, <3>1, Names
  <2> QED BY <1>1, <2>1, <2>2
<1> QED BY <1>3, <1>4

(* server_grab_file() and serve_file().  What is served is of the grabbed  *)
(* file, unless a FILE was used that is closed.                            *)
Served(t, u, block, B) ==
    \/ block = <<>>
    \/ \E b \in B : /\ block = <<b>>
                    /\ ~t.damaged => /\ Exists(t, Grabbed(u))
                                     /\ \E i \in 1..Len(Shows(t, Grabbed(u))) : b = Shows(t, Grabbed(u))[i]

LEMMA BlockType ==
    ASSUME NEW B, NEW s, Sound(s, B), NEW f \in Files, NEW pos \in Nat
    PROVE  Block(s, f, pos) = Piece(s.data[f], pos) /\ s.data[f] \in Seq(B)
BY Fields DEF Sound, Block, Piece

LEMMA GrabFileKeeps ==
    ASSUME NEW B, NEW s, Sound(s, B), NEW u \in Users, NEW pos \in Nat, NEW r \in GrabFile(s, u, pos)
    PROVE  \E t : /\ Sound(t, B) /\ Quiet(s, t)
                  /\ \/ r = Error(t)
                     \/ \E block : r = Result(t, "data", block) /\ Served(t, u, block, B)
<1> DEFINE k == Grabbed(u)
           e == [Opened(k, s.dir[k], 0) EXCEPT !.open = FALSE]
           others == {s.slots[i].file : i \in {j \in Slots : s.slots[j].open}}
<1>0. s \in States(B) /\ k \in Paths /\ k \in Visible /\ k \in KeySet /\ k # Empty.key
  BY Names, Kinds DEF Sound
<1>1. CASE Cached(s, k) # {}
  <2> DEFINE t == [s EXCEPT !.damaged = TRUE]
  <2>1. PICK b \in {<<>>} \cup {Block(s, f, pos) : f \in others} : r = Result(t, "data", b)
    BY <1>1 DEF GrabFile
  <2>2. t \in States(B)
    BY <1>0 DEF States
  <2>3. t.damaged /\ t.dir = s.dir /\ t.data = s.data /\ t.slots = s.slots /\ t.deleters = s.deleters
    BY <1>0 DEF States
  <2> HIDE DEF t
  <2>4. Relinked(s, t)
    BY <2>3 DEF Relinked, Sound, Links
  <2>5. /\ Sound(t, B) /\ SameTemps(s, t, StillTemps(s, t)) /\ SameNames(s, t, StillNamed(s, t))
        /\ NoNewReads(s, t, Users)
    BY <2>2, <2>4, LinksChanged
  <2>6. StillTemps(s, t) = Users /\ StillNamed(s, t) = Visible
    BY <2>3 DEF StillTemps, StillNamed
  <2>7. Served(t, u, b, B)
    <3>1. CASE b = <<>>
      BY <3>1 DEF Served
    <3>2. ASSUME NEW f \in others, b = Block(s, f, pos) PROVE Served(t, u, b, B)
      <4>1. PICK i \in Slots : f = s.slots[i].file /\ s.slots[i].open
        BY <3>2
      <4>2. s.slots[i].key # Empty.key
        <5>1. ~Empty.open
          BY DEF Empty
        <5> QED BY <4>1, <5>1 DEF Sound, EntryOK
      <4>3. f # NoFile
        BY <4>1, <4>2 DEF Sound, EntryOK
      <4>4. f \in Files
        BY <1>0, <4>1, <4>3, Fields
      <4>5. b = Piece(s.data[f], pos) /\ s.data[f] \in Seq(B)
        BY <3>2, <4>4, BlockType
      <4> QED BY <2>3, <4>5, PieceType DEF Served
    <3> QED BY <3>1, <3>2
  <2> QED BY <2>1, <2>5, <2>6, <2>7 DEF Quiet
<1>2. CASE Cached(s, k) = {} /\ Exists(s, k)
  <2> DEFINE t == Keep(s, e, TRUE)
             d == s.data[s.dir[k]]
  <2>1. r = Result(t, "data", Block(s, s.dir[k], pos))
    BY <1>2 DEF GrabFile
  <2>2. s.dir[k] \in Files /\ s.dir[k] # NoFile
    BY <1>0, <1>2, Fields DEF Exists
  <2>3. e \in Entries(B) /\ e.key = k /\ e.file = s.dir[k] /\ e.pend = <<>> /\ ~e.open
    <3> DEFINE f == s.dir[k]
    <3>1. e = [Opened(k, f, 0) EXCEPT !.open = FALSE] /\ f \in Files \cup {NoFile} /\ k \in KeySet
      BY <1>0, <2>2
    <3> HIDE DEF e, k, f
    <3>2. e \in Entries(B) /\ e.key = k /\ e.file = f /\ e.pend = <<>> /\ ~e.open
      BY <3>1, EmptySeq DEF Opened, Entries
    <3> QED BY <3>2 DEF f
  <2> HIDE DEF e
  <2>4. EntryOK(s, e)
    <3>1. \A w \in Users : e.key # Temp(w) /\ e.key # Reading(w)
      BY <2>3, Names
    <3> QED BY <1>0, <2>2, <2>3, <3>1 DEF EntryOK, Uploading, Unwritten, Shut
  <2>5. /\ Sound(t, B) /\ SameTemps(s, t, NotUploaded(e)) /\ SameNames(s, t, Visible)
        /\ NoNewReads(s, t, NotReading(e))
    <3>1. e.key # Empty.key /\ Cached(s, e.key) = {}
      BY <1>0, <1>2, <2>3
    <3> QED BY <2>3, <2>4, <3>1, KeepKeeps
  <2> HIDE DEF t
  <2>6. Quiet(s, t)
    <3>1. NotUploaded(e) = Users /\ NotReading(e) = Users
      BY <2>3, Names DEF NotUploaded, NotReading
    <3> QED BY <2>5, <3>1 DEF Quiet
  <2>7. Exists(t, k) /\ Shows(t, k) = d
    BY <1>0, <1>2, <2>5 DEF SameNames, Shows
  <2>8. Block(s, s.dir[k], pos) = Piece(d, pos) /\ d \in Seq(B)
    BY <2>2, BlockType
  <2> HIDE DEF d
  <2>9. Served(t, u, Piece(d, pos), B)
    BY <2>7, <2>8, PieceType DEF Served
  <2> QED BY <2>1, <2>5, <2>6, <2>8, <2>9
<1>3. CASE Cached(s, k) = {} /\ ~Exists(s, k)
  <2>1. r = Error(s)
    BY <1>3 DEF GrabFile
  <2> QED BY <2>1, QuietSame
<1> QED BY <1>1, <1>2, <1>3

(* The handler of CC_GRAB_FILE *)
Grabs(s, r, u, pos, B) ==
    \E t : /\ Sound(t, B) /\ Changes(s, t, Users, {Target, Grabbed(u)})
           /\ Secured(s, t, u) \/ SameNames(s, t, {Target, Grabbed(u)})
           /\ \/ r = Error(t)
              \/ \E block : r = Result(t, "data", block) /\ Served(t, u, block, B)

LEMMA GrabKeeps ==
    ASSUME NEW B, NEW s, Sound(s, B), NEW u \in Users, NEW pos \in Nat, NEW old \in BOOLEAN,
           NEW r \in Grab(s, u, pos, old, TRUE)
    PROVE  Grabs(s, r, u, pos, B)
<1>. SUFFICES \E t : /\ Sound(t, B) /\ Changes(s, t, Users, {Target, Grabbed(u)})
                     /\ Secured(s, t, u) \/ SameNames(s, t, {Target, Grabbed(u)})
                     /\ \/ r = Error(t)
                        \/ \E block : r = Result(t, "data", block) /\ Served(t, u, block, B)
  BY DEF Grabs
<1>0. Target \in Visible /\ Grabbed(u) \in Visible /\ Target # Grabbed(u)
  BY Names, Kinds
<1>1. ASSUME NEW x, Sound(x, B), Changes(s, x, Users, {Target, Grabbed(u)}),
             Secured(s, x, u) \/ SameNames(s, x, {Target, Grabbed(u)}), r \in GrabFile(x, u, pos)
      PROVE  \E t : /\ Sound(t, B) /\ Changes(s, t, Users, {Target, Grabbed(u)})
                    /\ Secured(s, t, u) \/ SameNames(s, t, {Target, Grabbed(u)})
                    /\ \/ r = Error(t)
                       \/ \E block : r = Result(t, "data", block) /\ Served(t, u, block, B)
  <2>1. PICK t : /\ Sound(t, B) /\ Quiet(x, t)
                 /\ \/ r = Error(t)
                    \/ \E block : r = Result(t, "data", block) /\ Served(t, u, block, B)
    BY <1>1, GrabFileKeeps
  <2>2. Changes(s, t, Users, {Target, Grabbed(u)})
    BY <1>1, <2>1, QuietChanges, ChangesTwice
  <2>3. Secured(s, t, u) \/ SameNames(s, t, {Target, Grabbed(u)})
    BY <1>0, <1>1, <2>1 DEF Quiet, SameNames, Secured
  <2> QED BY <2>1, <2>2, <2>3
<1>2. /\ Sound(s, B) /\ Changes(s, s, Users, {Target, Grabbed(u)}) /\ SameNames(s, s, {Target, Grabbed(u)})
  BY QuietSame, QuietChanges DEF SameNames
<1>3. CASE u \notin s.deleters
  BY <1>2, <1>3 DEF Grab
<1>4. CASE u \in s.deleters /\ (old \/ pos # 0)
  <2>1. r \in GrabFile(s, u, pos)
    BY <1>4 DEF Grab
  <2> QED BY <1>1, <1>2, <2>1
<1>5. CASE u \in s.deleters /\ ~(old \/ pos # 0)
  <2>1. PICK q \in SecureFile(s, u, TRUE) :
            r \in IF q.reply.kind = "ok" THEN GrabFile(q.srv, u, pos) ELSE {q}
    BY <1>5 DEF Grab
  <2>2. PICK t : /\ Sound(t, B) /\ Changes(s, t, Users, {Target, Grabbed(u)})
                 /\ \/ q = Ok(t) /\ Secured(s, t, u)
                    \/ q = Error(t) /\ t = s
    BY SecureFileKeeps
  <2>3. CASE q = Ok(t) /\ Secured(s, t, u)
    <3>1. r \in GrabFile(t, u, pos)
      BY <2>1, <2>3 DEF Ok, Result
    <3> QED BY <1>1, <2>2, <2>3, <3>1
  <2>4. CASE q = Error(t) /\ t = s
    <3>1. r = Error(s)
      BY <2>1, <2>4 DEF Error, Result
    <3> QED BY <1>2, <3>1
  <2> QED BY <2>2, <2>3, <2>4
<1> QED BY <1>3, <1>4, <1>5
-----------------------------------------------------------------------------
LEMMA UpTo ==
    ASSUME NEW N \in Nat, NEW S, 0 \in S, \A n \in 0..N - 1 : n \in S => n + 1 \in S
    PROVE  0..N \subseteq S
<1> DEFINE T == 0..N \ S
           n == CHOOSE x \in T : \A y \in T : x <= y
<1>1. SUFFICES ASSUME T # {} PROVE FALSE
  OBVIOUS
<1>2. T \in SUBSET Nat
  OBVIOUS
<1>3. n \in T
  <2> HIDE DEF T
  <2> QED BY <1>1, <1>2, LowestIs
<1>4. \A y \in T : n <= y
  <2>1. \E x \in T : \A y \in T : x <= y
    <3> DEFINE R == OpToRel(<, Nat)
    <3>1. IsWellFoundedOn(R, Nat) BY NatLessThanWellFounded
    <3> HIDE DEF R, T
    <3>2. T \subseteq Nat BY <1>2
    <3>3. PICK x \in T : \A y \in T : ~ (<<y, x>> \in R)
      BY <3>1, <3>2, <1>1, WFMin, Zenon
    <3>4. \A y \in T : ~ (y < x)
      BY <1>2, <3>3 DEF R, OpToRel
    <3> QED BY <1>2, <3>4
  <2> HIDE DEF T
  <2> QED BY <2>1
<1> HIDE DEF n
<1>5. n # 0 /\ n - 1 \in 0..N - 1
  BY <1>3
<1>6. n - 1 \in S
  <2>1. n - 1 \in 0..N /\ ~(n <= n - 1) /\ n - 1 \notin T
    BY <1>3, <1>4, <1>5
  <2> QED BY <2>1
<1> QED BY <1>3, <1>5, <1>6

(* shutdown_caches(): the entries are closed one after the other. *)
Closing(s, f, n) == f = [m \in 0..n |-> IF m = 0 THEN s ELSE Close(f[m - 1], m - 1, TRUE)]

LEMMA ClosingDefined == ASSUME NEW s, NEW N \in Nat PROVE \E f : Closing(s, f, N)
<1> DEFINE S == {n \in Nat : \E f : Closing(s, f, n)}
<1>1. 0 \in S
  <2> DEFINE f == [m \in 0..0 |-> s]
  <2>1. Closing(s, f, 0)
    BY DEF Closing
  <2> QED BY <2>1
<1>2. ASSUME NEW n \in 0..N - 1, n \in S PROVE n + 1 \in S
  <2>1. PICK f : Closing(s, f, n)
    BY <1>2
  <2> DEFINE g == [m \in 0..n + 1 |-> IF m <= n THEN f[m] ELSE Close(f[n], n, TRUE)]
  <2>2. ASSUME NEW m \in 0..n + 1 PROVE g[m] = IF m = 0 THEN s ELSE Close(g[m - 1], m - 1, TRUE)
    <3>1. CASE m = 0
      <4>1. 0 \in 0..n /\ m <= n /\ f[0] = s
        BY <2>1, <3>1 DEF Closing
      <4>2. g[m] = s
        BY <3>1, <4>1
      <4> HIDE DEF g
      <4> QED BY <3>1, <4>2
    <3>2. CASE m # 0 /\ m <= n
      <4>1. m \in 0..n /\ m - 1 \in 0..n /\ m - 1 \in 0..n + 1
        BY <3>2
      <4>2. g[m] = f[m] /\ g[m - 1] = f[m - 1]
        BY <3>2, <4>1
      <4>3. f[m] = Close(f[m - 1], m - 1, TRUE)
        BY <2>1, <3>2, <4>1 DEF Closing
      <4> HIDE DEF g
      <4> QED BY <3>2, <4>1, <4>2, <4>3
    <3>3. CASE m = n + 1
      <4>1. n \in 0..n /\ n \in 0..n + 1 /\ m - 1 = n /\ m # 0 /\ ~(m <= n)
        BY <3>3
      <4>2. g[m] = Close(f[n], n, TRUE) /\ g[n] = f[n]
        BY <4>1
      <4> HIDE DEF g
      <4> QED BY <4>1, <4>2
    <3>4. m = 0 \/ (m # 0 /\ m <= n) \/ m = n + 1
      OBVIOUS
    <3> HIDE DEF g
    <3> QED BY <3>1, <3>2, <3>3, <3>4
  <2>3. g = [m \in 0..n + 1 |-> IF m = 0 THEN s ELSE Close(g[m - 1], m - 1, TRUE)]
    <3> DEFINE h == [m \in 0..n + 1 |-> IF m = 0 THEN s ELSE Close(g[m - 1], m - 1, TRUE)]
    <3>1. g = [m \in 0..n + 1 |-> g[m]]
      OBVIOUS
    <3> HIDE DEF g
    <3> QED BY <2>2, <3>1
  <2> HIDE DEF g
  <2>4. Closing(s, g, n + 1)
    BY <2>3 DEF Closing
  <2> QED BY <2>4
<1>3. 0..N \subseteq S
  <2> HIDE DEF S
  <2> QED BY <1>1, <1>2, UpTo
<1>4. N \in 0..N
  OBVIOUS
<1> QED BY <1>3, <1>4

LEMMA ShutDownKeeps ==
    ASSUME NEW B, NEW s, Sound(s, B), NEW t, t = ShutDown(s)
    PROVE  Sound(t, B) /\ Quiet(s, t)
<1> DEFINE c == CHOOSE f : Closing(s, f, Size)
           S == {n \in Nat : Sound(c[n], B) /\ Quiet(s, c[n])}
           n0 == [c[Size] EXCEPT !.next = 0]
<1>0. Size \in Nat /\ Size # 0 /\ 0 \in Slots
  BY FileStoreAssumption DEF Slots
<1>1. Closing(s, c, Size)
  <2>1. \E f : Closing(s, f, Size)
    BY <1>0, ClosingDefined
  <2> QED BY <2>1
<1>2. t = n0
  BY DEF ShutDown, Closing
<1> HIDE DEF c
<1>3. c[0] = s /\ \A n \in 0..Size - 1 : c[n + 1] = Close(c[n], n, TRUE)
  <2>1. ASSUME NEW n \in 0..Size - 1 PROVE c[n + 1] = Close(c[n], n, TRUE)
    <3>1. PICK m : m = n + 1
      OBVIOUS
    <3>2. m \in 0..Size /\ m # 0 /\ m - 1 = n
      BY <1>0, <3>1
    <3>3. c[m] = Close(c[m - 1], m - 1, TRUE)
      BY <1>1, <3>2 DEF Closing
    <3> QED BY <3>1, <3>2, <3>3
  <2>2. c[0] = s
    BY <1>0, <1>1 DEF Closing
  <2> QED BY <2>1, <2>2
<1>4. 0 \in S
  BY <1>3, QuietSame
<1>5. ASSUME NEW n \in 0..Size - 1, n \in S PROVE n + 1 \in S
  <2>1. c[n + 1] = Close(c[n], n, TRUE) /\ n \in Slots /\ Sound(c[n], B) /\ Quiet(s, c[n]) /\ n + 1 \in Nat
    <3>1. n \in Nat /\ n + 1 \in Nat /\ n \in Slots
      BY <1>0 DEF Slots
    <3> QED BY <1>3, <1>5, <3>1
  <2>2. Sound(c[n + 1], B) /\ Quiet(c[n], c[n + 1])
    BY <2>1, CloseKeeps
  <2> QED BY <2>1, <2>2, QuietTwice
<1>6. Sound(c[Size], B) /\ Quiet(s, c[Size])
  <2>1. 0..Size \subseteq S
    <3> HIDE DEF S
    <3> QED BY <1>0, <1>4, <1>5, UpTo
  <2>2. Size \in 0..Size
    BY <1>0
  <2> QED BY <2>1, <2>2
<1> DEFINE r == c[Size]
<1>7. t = [r EXCEPT !.next = 0] /\ Sound(r, B) /\ Quiet(s, r)
  BY <1>2, <1>6
<1> HIDE DEF r
<1>8. r \in States(B)
  BY <1>7 DEF Sound
<1>9. t \in States(B) /\ t.dir = r.dir /\ t.data = r.data /\ t.slots = r.slots /\ t.deleters = r.deleters
  BY <1>0, <1>7, <1>8 DEF States
<1>10. Relinked(r, t)
  BY <1>7, <1>9 DEF Relinked, Sound, Links
<1>11. /\ Sound(t, B) /\ SameTemps(r, t, StillTemps(r, t)) /\ SameNames(r, t, StillNamed(r, t))
       /\ NoNewReads(r, t, Users)
  BY <1>7, <1>9, <1>10, LinksChanged
<1>12. StillTemps(r, t) = Users /\ StillNamed(r, t) = Visible
  BY <1>9 DEF StillTemps, StillNamed
<1>13. Quiet(r, t)
  BY <1>11, <1>12 DEF Quiet
<1> QED BY <1>7, <1>11, <1>13, QuietTwice
-----------------------------------------------------------------------------
(* The programs. *)

Orderly == Faults \subseteq {"stop"}

Replies == [kind : {"ok", "error", "data"}, block : {<<>>} \cup {<<b>> : b \in Blocks}]
Jobs == [kind : {"none", "put", "cancel", "cat", "get", "grab", "del"}, file : Seq(Blocks), pos : Nat,
         eof : BOOLEAN, ran : BOOLEAN, replies : SUBSET Replies, got : Seq(Blocks),
         failed : BOOLEAN, steady : BOOLEAN]

(* A put goes on after no error, except that of a block behind the first.  *)
PutJob(j) == j.kind = "put" => /\ j.file \in Versions /\ j.pos <= Len(j.file)
                               /\ j.failed => j.pos # 0
                               /\ \A r \in j.replies : r.kind # "data"
JobOK(j) == /\ j \in Jobs /\ j.pos <= Len(j.file) + Len(j.got) /\ PutJob(j)
            /\ j.kind = "cat" => j.pos = Len(j.got)
            /\ j.kind = "none" => j.replies = {}

Typed == /\ started \in 0..MaxJobs /\ job \in [Users -> Jobs] /\ \A u \in Users : JobOK(job[u])
         /\ Sound(srv, Blocks) /\ \A u \in Users : AtEnd(srv, u)

(* A version is known by its number. *)
Number(d) == d[1].version
Issued(n) == {Version(v, k) : v \in 0..n, k \in Lengths}
Putting == {u \in Users : job[u].kind = "put"}
Known == published \cup {job[u].file : u \in Putting}
Numbered == /\ Known \subseteq Issued(started)
            /\ \A c, d \in Known : Number(c) = Number(d) => c = d
            /\ \A u, w \in Putting : job[u].file = job[w].file => u = w
            /\ acked \subseteq published

(* In what follows P are the published versions.  What is under a name, or *)
(* is read, is one of them; no two names have the same.                    *)
NamesKnown(s, P) ==
    /\ \A p \in Visible : Exists(s, p) => Shows(s, p) \in P
    /\ \A p, q \in Visible : Exists(s, p) /\ Exists(s, q) /\ Shows(s, p) = Shows(s, q) => p = q
ReadsKnown(s, P) == \A u \in Users : \A d : Reads(s, u, d) => d \in P

(* A put: whether its request was run, by this server or an earlier one.   *)
Done(j) == j.ran \/ \E r \in j.replies : r.kind = "ok"
Sent(j) == (IF Done(j) THEN {} ELSE {j.pos}) \cup {j.pos + 1}
PutFailed(s, j, u) == j.failed => ~Exists(s, Temp(u))
PutSends(s, j, u, P) ==
    j.pos < Len(j.file) =>
        /\ j.file \notin P
        /\ (j.pos > 0 \/ Done(j)) /\ ~j.failed =>
              Exists(s, Temp(u)) /\ \E n \in Sent(j) : Holds(s, u) = SubSeq(j.file, 1, n)
PutInstalls(s, j, u, P) ==
    j.pos = Len(j.file) /\ ~j.failed =>
        IF Exists(s, Temp(u)) THEN ~Done(j) /\ Holds(s, u) = j.file /\ j.file \notin P
        ELSE j.file \in P
PutOK(s, j, u, P) == j.kind = "put" => PutFailed(s, j, u) /\ PutSends(s, j, u, P) /\ PutInstalls(s, j, u, P)

(* A program that prints: what it has is of the file that is open for it.  *)
Printed(j, d) == /\ j.pos <= Len(d) /\ j.got = SubSeq(d, 1, j.pos) /\ (j.eof => j.pos = Len(d))
                 /\ \A r \in j.replies : r.kind = "data" => r.block = Piece(d, j.pos)
Begun(j) == j.pos > 0 \/ j.eof \/ \E r \in j.replies : r.kind = "data"
CatOK(s, j, u, P) == j.kind = "cat" /\ j.steady /\ Begun(j) => \E d \in P : Reads(s, u, d) /\ Printed(j, d)

(* A version handed out to a grab is under no name but that one's.         *)
HandedOK(s, h, P) == \E d \in P : /\ h[1] \in Users /\ h[2] = Number(d)
                                  /\ \A p \in Visible : Exists(s, p) /\ Shows(s, p) = d => p = Grabbed(h[1])

IInv == /\ Typed /\ Numbered /\ NamesKnown(srv, published) /\ ReadsKnown(srv, published)
        /\ \A u \in Users : PutOK(srv, job[u], u, published) /\ CatOK(srv, job[u], u, published)
        /\ \A h \in handed : HandedOK(srv, h, published)
-----------------------------------------------------------------------------
(* Versions *)

LEMMA VersionIs ==
    ASSUME NEW v, NEW n \in Nat \ {0}
    PROVE  /\ Len(Version(v, n)) = n /\ DOMAIN Version(v, n) = 1..n /\ Number(Version(v, n)) = v
           /\ \A i \in 1..n : Version(v, n)[i].version = v
  <1>1. DOMAIN Version(v, n) = 1..n /\ \A i \in 1..n : Version(v, n)[i].version = v
    BY DEF Version
  <1>2. Len(Version(v, n)) = n
    BY <1>1 DEF Version
  <1>. QED  BY <1>1, <1>2 DEF Number

LEMMA VersionType ==
    ASSUME NEW d \in Versions
    PROVE  /\ d \in Seq(Blocks) /\ Len(d) \in Nat \ {0} /\ d # <<>>
           /\ \A i \in 1..Len(d) : d[i] \in Blocks /\ d[i].version = Number(d)
  <1>1. PICK v \in 0..MaxJobs, n \in Lengths : d = Version(v, n)
    BY DEF Versions
  <1>2. n \in Nat \ {0}
    BY TransferAssumption
  <1>3. Len(d) = n /\ DOMAIN d = 1..n /\ \A i \in 1..n : d[i].version = Number(d)
    BY <1>1, <1>2, VersionIs
  <1>4. \A i \in 1..n : d[i] \in Blocks
    BY <1>3 DEF Blocks
  <1>5. d = [i \in 1..n |-> d[i]]
    BY <1>1 DEF Version
  <1>6. d \in Seq(Blocks)
    BY <1>2, <1>4, <1>5
  <1>. QED  BY <1>2, <1>3, <1>4, <1>6

LEMMA IssuedAre ==
    ASSUME NEW n \in 0..MaxJobs
    PROVE  /\ Issued(n) \subseteq Versions
           /\ \A d \in Issued(n) : Number(d) \in 0..n
           /\ n < MaxJobs => /\ Issued(n) \subseteq Issued(n + 1)
                             /\ \A k \in Lengths : /\ Version(n + 1, k) \in Issued(n + 1)
                                                   /\ Number(Version(n + 1, k)) = n + 1
                                                   /\ Version(n + 1, k) \notin Issued(n)
  <1>1. MaxJobs \in Nat /\ Lengths \subseteq Nat \ {0}
    BY TransferAssumption
  <1>2. \A v, k : k \in Lengths => Number(Version(v, k)) = v
    BY <1>1, VersionIs
  <1>3. Issued(n) \subseteq Versions
    BY <1>1 DEF Issued, Versions
  <1>4. \A d \in Issued(n) : Number(d) \in 0..n
    BY <1>2 DEF Issued
  <1>5. Issued(n) \subseteq Issued(n + 1)
    BY <1>1 DEF Issued
  <1>6. \A k \in Lengths : Version(n + 1, k) \in Issued(n + 1)
    BY <1>1 DEF Issued
  <1>7. n + 1 \notin 0..n
    BY <1>1
  <1>. QED  BY <1>2, <1>3, <1>4, <1>5, <1>6, <1>7

(* One block more of a version. *)
LEMMA NextBlock ==
    ASSUME NEW d \in Seq(Blocks), NEW pos \in Nat, pos <= Len(d), NEW n, n = pos + Len(Piece(d, pos))
    PROVE  /\ n \in Nat /\ n <= Len(d) /\ SubSeq(d, 1, pos) \o Piece(d, pos) = SubSeq(d, 1, n)
           /\ Piece(d, pos) = <<>> => n = Len(d)
  <1>1. Len(d) \in Nat
    OBVIOUS
  <1>2. CASE pos < Len(d)
    <2>1. Piece(d, pos) = <<d[pos + 1]>> /\ n = pos + 1
      BY <1>2 DEF Piece
    <2>2. pos + 1 \in 1..Len(d) /\ d[pos + 1] \in Blocks
      BY <1>1, <1>2
    <2>3. SubSeq(d, 1, pos) \o <<d[pos + 1]>> = SubSeq(d, 1, pos + 1)
      <3>1. SubSeq(d, 1, pos) \in Seq(Blocks) /\ Len(SubSeq(d, 1, pos)) = pos
        BY <1>1, SubSeqProperties
      <3>2. SubSeq(d, 1, pos + 1) = Append(SubSeq(d, 1, pos), d[pos + 1])
        <4>1. SubSeq(d, 1, pos + 1) = [i \in 1..pos + 1 |-> d[i]] /\ SubSeq(d, 1, pos) = [i \in 1..pos |-> d[i]]
          BY <1>1, <1>2
        <4>. QED  BY <1>1, <1>2, <2>2, <3>1, <4>1
      <3>. QED  BY <2>2, <3>1, <3>2, AppendIsConcat
    <2>. QED  BY <1>1, <1>2, <2>1, <2>3
  <1>3. CASE ~(pos < Len(d))
    <2>1. Piece(d, pos) = <<>> /\ n = pos
      BY <1>3 DEF Piece
    <2>. QED  BY <1>1, <1>3, <2>1
  <1>. QED  BY <1>2, <1>3
-----------------------------------------------------------------------------
(* What a request of u does to the names: they stay or go; what is under   *)
(* the target moves to the grabbed file; or the new version d is published.*)
Stay(s, t) == \A p \in Visible : Exists(t, p) => Exists(s, p) /\ Shows(t, p) = Shows(s, p)
Taken(s, t, u) ==
    \A p \in Visible : Exists(t, p) => /\ p # Target
                                       /\ p = Grabbed(u) => Exists(s, Target) /\ Shows(t, p) = Shows(s, Target)
                                       /\ p # Grabbed(u) => Exists(s, p) /\ Shows(t, p) = Shows(s, p)
Installed(s, t, d) ==
    /\ Exists(t, Target) /\ Shows(t, Target) = d
    /\ \A p \in Visible \ {Target} : Exists(t, p) => Exists(s, p) /\ Shows(t, p) = Shows(s, p)
Moves(s, t, u, d, P, Q) == \/ Stay(s, t) /\ Q = P
                           \/ Taken(s, t, u) /\ Q = P
                           \/ Installed(s, t, d) /\ d \notin P /\ Q = P \cup {d}

LEMMA MovesKeeps ==
    ASSUME NEW s, NEW t, NEW u \in Users, NEW d, NEW P, NEW Q, NamesKnown(s, P), Moves(s, t, u, d, P, Q)
    PROVE  NamesKnown(t, Q) /\ P \subseteq Q /\ \A h : HandedOK(s, h, P) => HandedOK(t, h, Q)
  <1>1. Target \in Visible /\ Grabbed(u) \in Visible /\ \A w \in Users : Grabbed(w) \in Visible /\ Grabbed(w) # Target
    BY Kinds, Names
  <1>2. CASE Stay(s, t) /\ Q = P
    BY <1>2 DEF Stay, NamesKnown, HandedOK
  <1>3. CASE Taken(s, t, u) /\ Q = P
    <2>1. NamesKnown(t, P)
      BY <1>1, <1>3 DEF Taken, NamesKnown
    <2>2. ASSUME NEW h, HandedOK(s, h, P) PROVE HandedOK(t, h, P)
      <3>1. PICK c \in P : /\ h[1] \in Users /\ h[2] = Number(c)
                           /\ \A p \in Visible : Exists(s, p) /\ Shows(s, p) = c => p = Grabbed(h[1])
        BY <2>2 DEF HandedOK
      <3>2. \A p \in Visible : Exists(t, p) /\ Shows(t, p) = c => p = Grabbed(h[1])
        BY <1>1, <1>3, <3>1 DEF Taken
      <3>. QED  BY <3>1, <3>2 DEF HandedOK
    <2>. QED  BY <1>3, <2>1, <2>2
  <1>4. CASE Installed(s, t, d) /\ d \notin P /\ Q = P \cup {d}
    <2>1. NamesKnown(t, Q)
      BY <1>1, <1>4 DEF Installed, NamesKnown
    <2>2. ASSUME NEW h, HandedOK(s, h, P) PROVE HandedOK(t, h, Q)
      <3>1. PICK c \in P : /\ h[1] \in Users /\ h[2] = Number(c)
                           /\ \A p \in Visible : Exists(s, p) /\ Shows(s, p) = c => p = Grabbed(h[1])
        BY <2>2 DEF HandedOK
      <3>2. \A p \in Visible : Exists(t, p) /\ Shows(t, p) = c => p = Grabbed(h[1])
        BY <1>1, <1>4, <3>1 DEF Installed
      <3>. QED  BY <1>4, <3>1, <3>2 DEF HandedOK
    <2>. QED  BY <1>4, <2>1, <2>2
  <1>. QED  BY <1>2, <1>3, <1>4 DEF Moves

(* The history of the published versions follows. *)
LEMMA MovesPublished ==
    ASSUME NEW s, NEW t, NEW u, NEW d, NEW P \in SUBSET Versions, NEW Q, Q = P \/ d \in Versions,
           NamesKnown(s, P), Moves(s, t, u, d, P, Q)
    PROVE  Q = P \cup (Named(t) \cap Versions)
  <1>1. Target \in Visible
    BY Kinds
  <1>2. Named(t) = IF Exists(t, Target) THEN {Shows(t, Target)} ELSE {}
    BY DEF Named, Shows
  <1>3. CASE (Stay(s, t) \/ Taken(s, t, u)) /\ Q = P
    <2>1. Named(t) \subseteq P
      BY <1>1, <1>2, <1>3 DEF Stay, Taken, NamesKnown
    <2>. QED  BY <1>3, <2>1
  <1>4. CASE Installed(s, t, d) /\ d \notin P /\ Q = P \cup {d}
    BY <1>2, <1>4 DEF Installed
  <1>. QED  BY <1>3, <1>4 DEF Moves

LEMMA StaySame == ASSUME NEW s, NEW t, SameNames(s, t, Visible) PROVE Stay(s, t)
  BY DEF SameNames, Stay

(* A step that nobody sees anything of follows. *)
LEMMA MovesQuiet ==
    ASSUME NEW r, NEW s, NEW t, NEW u, NEW d, NEW P, NEW Q, Moves(r, s, u, d, P, Q), SameNames(s, t, Visible)
    PROVE  Moves(r, t, u, d, P, Q)
  <1>1. \A p \in Visible : (Exists(t, p) <=> Exists(s, p)) /\ Shows(t, p) = Shows(s, p)
    BY DEF SameNames
  <1>2. Target \in Visible
    BY Kinds
  <1>3. Stay(r, s) => Stay(r, t)
    BY <1>1 DEF Stay
  <1>4. Taken(r, s, u) => Taken(r, t, u)
    BY <1>1 DEF Taken
  <1>5. Installed(r, s, d) => Installed(r, t, d)
    BY <1>1, <1>2 DEF Installed
  <1>. QED  BY <1>3, <1>4, <1>5 DEF Moves
-----------------------------------------------------------------------------
(* What a request of u does to open files: it is the upload of u that may  *)
(* change, and what u reads from now on may be what is under the name.     *)
NewReads(s, t, u) == /\ NoNewReads(s, t, Users \ {u})
                     /\ \A d : Reads(t, u, d) => Reads(s, u, d) \/ (Exists(s, Target) /\ d = Shows(s, Target))
Effect(s, t, u) == Sound(t, Blocks) /\ SameTemps(s, t, Users \ {u}) /\ AtEnd(t, u) /\ NewReads(s, t, u)

LEMMA EffectQuiet ==
    ASSUME NEW r, NEW s, NEW t, NEW u \in Users, Effect(r, s, u), Sound(t, Blocks), Quiet(s, t)
    PROVE  Effect(r, t, u)
  <1>1. SameTemps(r, t, Users \ {u})
    BY DEF Effect, Quiet, SameTemps
  <1>2. AtEnd(t, u)
    BY DEF Effect, Quiet, SameTemps
  <1>3. NewReads(r, t, u)
    BY DEF Effect, Quiet, NewReads, NoNewReads
  <1>. QED  BY <1>1, <1>2, <1>3 DEF Effect

LEMMA EffectReads ==
    ASSUME NEW s, NEW t, NEW u \in Users, NEW P, NamesKnown(s, P), ReadsKnown(s, P), NewReads(s, t, u)
    PROVE  ReadsKnown(t, P)
  <1>1. Target \in Visible
    BY Kinds
  <1>. QED  BY <1>1 DEF NamesKnown, ReadsKnown, NewReads, NoNewReads

(* A file that is not there is not open. *)
LEMMA GoneAtEnd ==
    ASSUME NEW s, Sound(s, Blocks), NEW u \in Users, ~Exists(s, Temp(u)) PROVE AtEnd(s, u)
  BY OpenExists DEF AtEnd

(* Steps that leave the temporary file, or all names, as they are. *)
LEMMA EffectOf ==
    ASSUME NEW s, NEW t, NEW u \in Users, Sound(t, Blocks), SameTemps(s, t, Users \ {u}), NoNewReads(s, t, Users),
           AtEnd(t, u) \/ ~Exists(t, Temp(u)) \/ (AtEnd(s, u) /\ SameTemps(s, t, Users))
    PROVE  Effect(s, t, u)
  <1>1. AtEnd(t, u)
    BY GoneAtEnd DEF SameTemps
  <1>2. NewReads(s, t, u)
    BY DEF NewReads, NoNewReads
  <1>. QED  BY <1>1, <1>2 DEF Effect
-----------------------------------------------------------------------------
(* What is known of a put stays known while its temporary file stays.      *)
SamePut(j, k) == /\ k.kind = j.kind /\ k.file = j.file /\ k.pos = j.pos /\ k.failed = j.failed
                 /\ Done(k) => Done(j)

LEMMA PutStays ==
    ASSUME NEW s, NEW t, NEW U, NEW u \in U, SameTemps(s, t, U), NEW j, NEW k, SamePut(j, k),
           NEW P, NEW Q, j.kind = "put" => (j.file \in P <=> j.file \in Q), PutOK(s, j, u, P)
    PROVE  PutOK(t, k, u, Q)
  <1>. SUFFICES ASSUME j.kind = "put" PROVE PutOK(t, k, u, Q)
    BY DEF PutOK, SamePut
  <1>1. /\ Exists(t, Temp(u)) <=> Exists(s, Temp(u))
        /\ Exists(s, Temp(u)) => Holds(t, u) = Holds(s, u)
    BY DEF SameTemps
  <1>2. PutFailed(s, j, u) /\ PutSends(s, j, u, P) /\ PutInstalls(s, j, u, P)
    BY DEF PutOK
  <1>3. PutFailed(t, k, u)
    BY <1>1, <1>2 DEF PutFailed, SamePut
  <1>4. PutSends(t, k, u, Q)
    <2>1. Sent(j) \subseteq Sent(k)
      BY DEF Sent, SamePut
    <2>. QED  BY <1>1, <1>2, <2>1 DEF PutSends, SamePut
  <1>5. PutInstalls(t, k, u, Q)
    BY <1>1, <1>2 DEF PutInstalls, SamePut
  <1>. QED  BY <1>3, <1>4, <1>5 DEF PutOK

(* What is known of a program that prints stays known while its file stays *)
(* open.                                                                   *)
SameCat(j, k) == /\ k.kind = j.kind /\ k.pos = j.pos /\ k.got = j.got /\ k.eof = j.eof
                 /\ k.replies \subseteq j.replies

LEMMA StillReads ==
    ASSUME NEW s, NEW t, Sound(s, Blocks), Sound(t, Blocks), NEW U \in SUBSET Users, NEW u \in U,
           NoNewReads(s, t, U), HeldOpen(t, u), NEW d, Reads(s, u, d)
    PROVE  Reads(t, u, d)
  <1>1. PICK i \in Slots : t.slots[i].key = Reading(u)
    BY DEF HeldOpen, Cached, Reading
  <1>2. PICK c : c = t.data[t.slots[i].file]
    OBVIOUS
  <1>3. Reads(t, u, c)
    BY <1>1, <1>2 DEF Reads
  <1>4. Reads(s, u, c)
    BY <1>3 DEF NoNewReads
  <1>5. c = d
    BY <1>4, ReadsType
  <1>. QED  BY <1>3, <1>5

LEMMA ReadsHeld == ASSUME NEW s, NEW u, NEW d, Reads(s, u, d) PROVE HeldOpen(s, u)
  BY DEF Reads, HeldOpen, Cached, Reading

LEMMA CatStays ==
    ASSUME NEW s, NEW t, Sound(s, Blocks), Sound(t, Blocks), NEW U \in SUBSET Users, NEW u \in U,
           NoNewReads(s, t, U), NEW j, NEW k, SameCat(j, k),
           k.kind = "cat" /\ k.steady => j.steady /\ (HeldOpen(s, u) => HeldOpen(t, u)),
           NEW P, NEW Q, P \subseteq Q, CatOK(s, j, u, P)
    PROVE  CatOK(t, k, u, Q)
  <1>. SUFFICES ASSUME k.kind = "cat", k.steady, Begun(k) PROVE \E d \in Q : Reads(t, u, d) /\ Printed(k, d)
    BY DEF CatOK
  <1>1. Begun(j)
    BY DEF Begun, SameCat
  <1>2. PICK d \in P : Reads(s, u, d) /\ Printed(j, d)
    BY <1>1 DEF CatOK, SameCat
  <1>3. Reads(t, u, d)
    BY <1>2, StillReads, ReadsHeld
  <1>4. Printed(k, d)
    BY <1>2 DEF Printed, SameCat
  <1>. QED  BY <1>2, <1>3, <1>4
-----------------------------------------------------------------------------
(* The program of a user when the server has run its request *)
Ran(j, reply, steady) ==
    [j EXCEPT !.ran = TRUE, !.replies = @ \cup {reply},
              !.failed = @ \/ (j.kind = "put" /\ reply.kind = "error"), !.steady = steady]

LEMMA RanIs ==
    ASSUME NEW j \in Jobs, NEW reply \in Replies, NEW steady \in BOOLEAN, NEW k, k = Ran(j, reply, steady)
    PROVE  /\ k \in Jobs /\ k.kind = j.kind /\ k.file = j.file /\ k.pos = j.pos /\ k.eof = j.eof
           /\ k.got = j.got /\ k.steady = steady /\ k.ran /\ Done(k)
           /\ k.replies = j.replies \cup {reply}
           /\ k.failed <=> j.failed \/ (j.kind = "put" /\ reply.kind = "error")
  <1>1. k \in Jobs
    BY DEF Ran, Jobs
  <1>2. /\ k.kind = j.kind /\ k.file = j.file /\ k.pos = j.pos /\ k.eof = j.eof
        /\ k.got = j.got /\ k.steady = steady /\ k.ran
        /\ k.replies = j.replies \cup {reply}
        /\ k.failed = (j.failed \/ (j.kind = "put" /\ reply.kind = "error"))
    BY DEF Ran, Jobs
  <1>. QED  BY <1>1, <1>2 DEF Done

LEMMA RanOK ==
    ASSUME NEW j, JobOK(j), j.kind # "none", NEW reply \in Replies, NEW steady \in BOOLEAN,
           j.kind = "put" => reply.kind # "data" /\ (reply.kind = "error" => j.pos # 0)
    PROVE  JobOK(Ran(j, reply, steady))
  <1> DEFINE k == Ran(j, reply, steady)
  <1>1. /\ j \in Jobs /\ j.pos <= Len(j.file) + Len(j.got) /\ PutJob(j)
        /\ j.kind = "cat" => j.pos = Len(j.got)
    BY DEF JobOK
  <1>2. /\ k \in Jobs /\ k.kind = j.kind /\ k.file = j.file /\ k.pos = j.pos /\ k.got = j.got
        /\ k.replies = j.replies \cup {reply}
        /\ k.failed <=> j.failed \/ (j.kind = "put" /\ reply.kind = "error")
    BY <1>1, RanIs
  <1>. HIDE DEF k
  <1>3. PutJob(k)
    BY <1>1, <1>2 DEF PutJob
  <1>4. JobOK(k)
    BY <1>1, <1>2, <1>3 DEF JobOK
  <1>. QED  BY <1>4 DEF k

(* What is said of a reply that is handed out to a grab *)
GrabbedOK(t, u, block) ==
    block # <<>> /\ ~t.damaged => /\ Exists(t, Grabbed(u))
                                  /\ block[1].version = Number(Shows(t, Grabbed(u)))

(* What the server does when it runs the request of u, who does j, and     *)
(* comes to t.                                                             *)
RunsTo(s, t, reply, u, j, P, Q) ==
    /\ Effect(s, t, u) /\ Moves(s, t, u, j.file, P, Q) /\ (Q # P => j.kind = "put")
    /\ j.kind = "put" => reply.kind # "data" /\ (reply.kind = "error" => j.pos # 0)
    /\ \A steady \in BOOLEAN : /\ PutOK(t, Ran(j, reply, steady), u, Q)
                               /\ steady => CatOK(t, Ran(j, reply, steady), u, Q) \/ ~j.steady
                                            \/ (HeldOpen(s, u) /\ ~HeldOpen(t, u))
    /\ j.kind \in {"get", "grab"} => GrabbedOK(t, u, reply.block)
Runs(s, r, u, j, P) ==
    \E t, Q : \E reply \in Replies : r = [srv |-> t, reply |-> reply] /\ RunsTo(s, t, reply, u, j, P, Q)

LEMMA Answers ==
    ASSUME NEW t
    PROVE  /\ \E reply \in Replies : /\ Ok(t) = [srv |-> t, reply |-> reply]
                                     /\ reply.kind = "ok" /\ reply.block = <<>>
           /\ \E reply \in Replies : /\ Error(t) = [srv |-> t, reply |-> reply]
                                     /\ reply.kind = "error" /\ reply.block = <<>>
  <1>1. ASSUME NEW k \in {"ok", "error", "data"}
        PROVE  \E reply \in Replies : /\ Result(t, k, <<>>) = [srv |-> t, reply |-> reply]
                                      /\ reply.kind = k /\ reply.block = <<>>
    <2> DEFINE reply == [kind |-> k, block |-> <<>>]
    <2>1. reply \in Replies
      BY DEF Replies
    <2>2. Result(t, k, <<>>) = [srv |-> t, reply |-> reply] /\ reply.kind = k /\ reply.block = <<>>
      BY DEF Result
    <2>. QED  BY <2>1, <2>2
  <1>. QED  BY <1>1 DEF Ok, Error

LEMMA Data ==
    ASSUME NEW t, NEW block, block = <<>> \/ \E b \in Blocks : block = <<b>>
    PROVE  \E reply \in Replies : /\ Result(t, "data", block) = [srv |-> t, reply |-> reply]
                                  /\ reply.kind = "data" /\ reply.block = block
  <1> DEFINE reply == [kind |-> "data", block |-> block]
  <1>1. reply \in Replies
    BY DEF Replies
  <1>2. Result(t, "data", block) = [srv |-> t, reply |-> reply] /\ reply.kind = "data" /\ reply.block = block
    BY DEF Result
  <1>. QED  BY <1>1, <1>2

(* Programs other than puts and prints *)
LEMMA OthersRun ==
    ASSUME NEW s, NEW t, NEW u \in Users, NEW j \in Jobs, j.kind \notin {"put", "cat"}, NEW reply \in Replies,
           NEW P, NEW Q, Effect(s, t, u), Moves(s, t, u, j.file, P, Q), Q = P,
           GrabbedOK(t, u, reply.block)
    PROVE  RunsTo(s, t, reply, u, j, P, Q)
  <1>1. \A steady \in BOOLEAN : Ran(j, reply, steady).kind = j.kind
    BY RanIs
  <1>. QED  BY <1>1 DEF RunsTo, PutOK, CatOK
-----------------------------------------------------------------------------
(* What is known before the server runs the request of u, who does j. *)
Ready(s, u, j, P) ==
    /\ Sound(s, Blocks) /\ AtEnd(s, u) /\ JobOK(j) /\ PutOK(s, j, u, P) /\ CatOK(s, j, u, P)
    /\ NamesKnown(s, P) /\ ReadsKnown(s, P) /\ P \subseteq Versions

(* The first blocks of a file *)
LEMMA FirstBlocks ==
    ASSUME NEW B, NEW d \in Seq(B), NEW m \in 0..Len(d)
    PROVE  /\ SubSeq(d, 1, m) \in Seq(B) /\ Len(SubSeq(d, 1, m)) = m
           /\ \A i \in 1..m : SubSeq(d, 1, m)[i] = d[i]
  <1>1. m \in Nat /\ 1..m \subseteq 1..Len(d) /\ m - 1 + 1 = m
    OBVIOUS
  <1>2. \A i \in 1..m : d[i] \in B
    BY <1>1
  <1>3. /\ SubSeq(d, 1, m) \in Seq(B) /\ Len(SubSeq(d, 1, m)) = IF 1 <= m THEN m - 1 + 1 ELSE 0
        /\ \A i \in 1..m - 1 + 1 : SubSeq(d, 1, m)[i] = d[1 + i - 1]
    BY <1>1, <1>2, SubSeqProperties
  <1>4. \A i \in 1..m : 1 + i - 1 = i
    OBVIOUS
  <1>. QED  BY <1>1, <1>3, <1>4

(* A block is sent after those before it, or once more. *)
LEMMA BlockSent ==
    ASSUME NEW d \in Seq(Blocks), NEW pos \in Nat, pos < Len(d), NEW n \in {pos, pos + 1}
    PROVE  /\ Len(SubSeq(d, 1, n)) = n /\ d[pos + 1] \in Blocks
           /\ Append(SubSeq(SubSeq(d, 1, n), 1, pos), d[pos + 1]) = SubSeq(d, 1, pos + 1)
           /\ <<d[1]>> = SubSeq(d, 1, 1)
  <1>1. Len(d) \in Nat /\ n \in 0..Len(d) /\ pos \in 0..n /\ pos \in 0..Len(d) /\ pos + 1 \in 0..Len(d)
        /\ 1 \in 0..Len(d) /\ 1..pos \subseteq 1..n
    OBVIOUS
  <1> DEFINE Opening(c, m) == SubSeq(c, 1, m)
  <1>a. \A c \in Seq(Blocks) : \A m \in 0..Len(c) : /\ Opening(c, m) \in Seq(Blocks) /\ Len(Opening(c, m)) = m
                                                   /\ \A i \in 1..m : Opening(c, m)[i] = c[i]
    BY FirstBlocks
  <1>b. PICK e, f, g : e = Opening(d, n) /\ f = Opening(e, pos) /\ g = Opening(d, pos + 1)
    OBVIOUS
  <1> HIDE DEF Opening
  <1>2. e \in Seq(Blocks) /\ Len(e) = n /\ \A i \in 1..n : e[i] = d[i]
    BY <1>1, <1>a, <1>b
  <1>3. f \in Seq(Blocks) /\ Len(f) = pos /\ \A i \in 1..pos : f[i] = e[i]
    BY <1>1, <1>2, <1>a, <1>b
  <1>4. g \in Seq(Blocks) /\ Len(g) = pos + 1 /\ \A i \in 1..pos + 1 : g[i] = d[i]
    BY <1>1, <1>a, <1>b
  <1>5. PICK b \in Blocks : b = d[pos + 1]
    BY <1>1
  <1>6. PICK h \in Seq(Blocks) : /\ h = Append(f, b) /\ Len(h) = pos + 1 /\ h[pos + 1] = b
                                 /\ \A i \in 1..pos : h[i] = f[i]
    BY <1>3, AppendProperties
  <1>7. \A i \in 1..pos + 1 : h[i] = g[i]
    BY <1>1, <1>2, <1>3, <1>4, <1>5, <1>6
  <1>8. h = g
    BY <1>4, <1>6, <1>7, SeqEqual
  <1>9. <<d[1]>> = SubSeq(d, 1, 1)
    <2>1. PICK c : c = Opening(d, 1)
      OBVIOUS
    <2>2. c \in Seq(Blocks) /\ Len(c) = 1 /\ \A i \in 1..1 : c[i] = d[i]
      BY <1>1, <1>a, <2>1
    <2>3. c = <<d[1]>>
      BY <2>2
    <2>. QED  BY <2>1, <2>3 DEF Opening
  <1>. QED  BY <1>b, <1>2, <1>3, <1>4, <1>5, <1>6, <1>8, <1>9 DEF Opening

LEMMA PutReady ==
    ASSUME NEW s, NEW u \in Users, NEW j, NEW P, Ready(s, u, j, P), j.kind = "put"
    PROVE  /\ j \in Jobs /\ j.file \in Versions /\ j.file \in Seq(Blocks) /\ Len(j.file) \in Nat \ {0}
           /\ j.pos \in Nat /\ j.pos <= Len(j.file) /\ j.failed \in BOOLEAN /\ (j.failed => j.pos # 0)
           /\ PutFailed(s, j, u) /\ PutSends(s, j, u, P) /\ PutInstalls(s, j, u, P)
  <1>1. j \in Jobs /\ PutJob(j)
    BY DEF Ready, JobOK
  <1>2. j.pos \in Nat /\ j.failed \in BOOLEAN
    BY <1>1 DEF Jobs
  <1>. QED  BY <1>1, <1>2, VersionType DEF PutJob, Ready, PutOK

LEMMA UpLoadRuns ==
    ASSUME NEW s, NEW u \in Users, NEW j, NEW P, Ready(s, u, j, P), j.kind = "put", j.pos < Len(j.file),
           NEW r \in UpLoad(s, u, j.pos, j.file[j.pos + 1], TRUE)
    PROVE  Runs(s, r, u, j, P)
  <1>1. /\ j \in Jobs /\ j.file \in Seq(Blocks) /\ Len(j.file) \in Nat
        /\ j.pos \in Nat /\ j.failed \in BOOLEAN /\ (j.failed => j.pos # 0)
        /\ PutFailed(s, j, u) /\ PutSends(s, j, u, P)
    BY PutReady
  <1>2. PICK d, pos, b : d = j.file /\ pos = j.pos /\ b = d[pos + 1]
    OBVIOUS
  <1>3. b \in Blocks
    BY <1>1, <1>2, BlockSent
  <1>4. PICK t : /\ Sound(t, Blocks) /\ SameBut(s, t, u)
                 /\ \/ r = Ok(t) /\ UpLoaded(s, t, u, pos, b)
                    \/ r = Error(t) /\ Refused(s, t, u, pos)
    <2>1. Sound(s, Blocks) /\ AtEnd(s, u) /\ r \in UpLoad(s, u, pos, b, TRUE) /\ pos \in Nat
      BY <1>1, <1>2 DEF Ready
    <2>2. UpLoads(s, r, u, pos, b, Blocks)
      BY <1>3, <2>1, UpLoadKeeps
    <2>. QED  BY <2>2 DEF UpLoads
  <1>5. Effect(s, t, u)
    BY <1>4, EffectOf DEF SameBut, UpLoaded, Refused
  <1>6. Moves(s, t, u, d, P, P)
    BY <1>4, StaySame DEF SameBut, Moves
  <1>7. CASE r = Ok(t) /\ UpLoaded(s, t, u, pos, b)
    <2>1. PICK reply \in Replies : Ok(t) = [srv |-> t, reply |-> reply] /\ reply.kind = "ok" /\ reply.block = <<>>
      BY Answers
    <2>2. ~j.failed
      BY <1>1, <1>2, <1>7 DEF UpLoaded, PutFailed
    <2>3. Exists(t, Temp(u)) /\ Holds(t, u) = SubSeq(d, 1, pos + 1)
      <3>1. CASE pos = 0
        BY <1>1, <1>2, <1>7, <3>1, BlockSent DEF UpLoaded
      <3>2. CASE pos # 0
        <4>1. PICK n \in {pos, pos + 1} : Holds(s, u) = SubSeq(d, 1, n)
          BY <1>1, <1>2, <2>2, <3>2 DEF PutSends, Sent
        <4>. QED  BY <1>1, <1>2, <1>7, <3>2, <4>1, BlockSent DEF UpLoaded
      <3>. QED  BY <3>1, <3>2
    <2>4. ASSUME NEW steady \in BOOLEAN PROVE PutOK(t, Ran(j, reply, steady), u, P)
      <3>1. PICK k : k = Ran(j, reply, steady)
        OBVIOUS
      <3>2. k.kind = "put" /\ k.file = d /\ k.pos = pos /\ Done(k) /\ (k.failed <=> j.failed)
        BY <1>1, <1>2, <2>1, <3>1, RanIs
      <3>3. PutFailed(t, k, u)
        BY <2>2, <3>2 DEF PutFailed
      <3>4. PutSends(t, k, u, P)
        BY <1>1, <1>2, <2>3, <3>2 DEF PutSends, Sent
      <3>5. PutInstalls(t, k, u, P)
        BY <1>1, <1>2, <3>2 DEF PutInstalls
      <3>. QED  BY <3>1, <3>3, <3>4, <3>5 DEF PutOK
    <2>5. \A steady \in BOOLEAN : Ran(j, reply, steady).kind = "put"
      BY <1>1, RanIs
    <2>6. RunsTo(s, t, reply, u, j, P, P)
      BY <1>2, <1>5, <1>6, <2>1, <2>4, <2>5 DEF RunsTo, CatOK
    <2>. QED  BY <1>7, <2>1, <2>6 DEF Runs
  <1>8. CASE r = Error(t) /\ Refused(s, t, u, pos)
    <2>1. PICK reply \in Replies : Error(t) = [srv |-> t, reply |-> reply] /\ reply.kind = "error" /\ reply.block = <<>>
      BY Answers
    <2>2. ~Exists(t, Temp(u)) /\ pos # 0
      BY <1>8 DEF Refused
    <2>4. ASSUME NEW steady \in BOOLEAN PROVE PutOK(t, Ran(j, reply, steady), u, P)
      <3>1. PICK k : k = Ran(j, reply, steady)
        OBVIOUS
      <3>2. k.kind = "put" /\ k.file = d /\ k.pos = pos /\ k.failed
        BY <1>1, <1>2, <2>1, <3>1, RanIs
      <3>. QED  BY <1>1, <1>2, <2>2, <3>1, <3>2 DEF PutOK, PutFailed, PutSends, PutInstalls
    <2>5. \A steady \in BOOLEAN : Ran(j, reply, steady).kind = "put"
      BY <1>1, RanIs
    <2>6. RunsTo(s, t, reply, u, j, P, P)
      BY <1>2, <1>5, <1>6, <2>1, <2>2, <2>4, <2>5 DEF RunsTo, CatOK
    <2>. QED  BY <1>8, <2>1, <2>6 DEF Runs
  <1>. QED  BY <1>4, <1>7, <1>8

LEMMA InstallRuns ==
    ASSUME NEW s, NEW u \in Users, NEW j, NEW P, Ready(s, u, j, P), j.kind = "put", j.pos = Len(j.file),
           NEW r \in Install(s, u, TRUE)
    PROVE  Runs(s, r, u, j, P)
  <1>1. /\ j \in Jobs /\ Len(j.file) \in Nat \ {0} /\ j.failed \in BOOLEAN
        /\ PutFailed(s, j, u) /\ PutInstalls(s, j, u, P)
    BY PutReady
  <1>2. PICK d : d = j.file
    OBVIOUS
  <1>3. Sound(s, Blocks)
    BY DEF Ready
  <1>4. PICK t : /\ Sound(t, Blocks) /\ Changes(s, t, Users \ {u}, {Target}) /\ ~Exists(t, Temp(u))
                 /\ \/ /\ r = Ok(t) /\ Exists(s, Temp(u)) /\ Exists(t, Target)
                       /\ Shows(t, Target) = Holds(s, u)
                    \/ r = Error(t) /\ (~Exists(t, Target) \/ SameNames(s, t, {Target}))
    <2>1. Installs(s, r, u, Blocks)
      BY <1>3, InstallKeeps
    <2>. QED  BY <2>1 DEF Installs
  <1>5. Effect(s, t, u)
    BY <1>4, EffectOf DEF Changes
  <1>6. \A p \in Visible \ {Target} : Exists(t, p) => Exists(s, p) /\ Shows(t, p) = Shows(s, p)
    BY <1>4 DEF Changes, SameNames
  <1>7. CASE r = Ok(t) /\ Exists(s, Temp(u)) /\ Exists(t, Target) /\ Shows(t, Target) = Holds(s, u)
    <2>1. PICK reply \in Replies : Ok(t) = [srv |-> t, reply |-> reply] /\ reply.kind = "ok" /\ reply.block = <<>>
      BY Answers
    <2>2. ~j.failed
      BY <1>1, <1>7 DEF PutFailed
    <2>3. Holds(s, u) = d /\ d \notin P
      BY <1>2, <1>7, <2>2, <1>1 DEF PutInstalls
    <2>4. Moves(s, t, u, d, P, P \cup {d})
      BY <1>6, <1>7, <2>3 DEF Moves, Installed
    <2>5. ASSUME NEW steady \in BOOLEAN PROVE PutOK(t, Ran(j, reply, steady), u, P \cup {d})
      <3>1. PICK k : k = Ran(j, reply, steady)
        OBVIOUS
      <3>2. k.kind = "put" /\ k.file = d /\ k.pos = Len(d) /\ (k.failed <=> j.failed)
        BY <1>1, <1>2, <2>1, <3>1, RanIs
      <3>3. PutFailed(t, k, u)
        BY <2>2, <3>2 DEF PutFailed
      <3>4. PutSends(t, k, u, P \cup {d})
        BY <1>1, <1>2, <3>2 DEF PutSends
      <3>5. PutInstalls(t, k, u, P \cup {d})
        BY <1>4, <3>2 DEF PutInstalls
      <3>. QED  BY <3>1, <3>3, <3>4, <3>5 DEF PutOK
    <2>6. \A steady \in BOOLEAN : Ran(j, reply, steady).kind = "put"
      BY <1>1, RanIs
    <2>7. RunsTo(s, t, reply, u, j, P, P \cup {d})
      BY <1>2, <1>5, <2>1, <2>4, <2>5, <2>6 DEF RunsTo, CatOK
    <2>. QED  BY <1>7, <2>1, <2>7 DEF Runs
  <1>8. CASE r = Error(t) /\ (~Exists(t, Target) \/ SameNames(s, t, {Target}))
    <2>1. PICK reply \in Replies : Error(t) = [srv |-> t, reply |-> reply] /\ reply.kind = "error" /\ reply.block = <<>>
      BY Answers
    <2>2. Stay(s, t)
      BY <1>6, <1>8 DEF Stay, SameNames
    <2>3. Moves(s, t, u, d, P, P)
      BY <2>2 DEF Moves
    <2>4. ASSUME NEW steady \in BOOLEAN PROVE PutOK(t, Ran(j, reply, steady), u, P)
      <3>1. PICK k : k = Ran(j, reply, steady)
        OBVIOUS
      <3>2. k.kind = "put" /\ k.file = d /\ k.pos = Len(d) /\ k.failed
        BY <1>1, <1>2, <2>1, <3>1, RanIs
      <3>. QED  BY <1>1, <1>2, <1>4, <3>1, <3>2 DEF PutOK, PutFailed, PutSends, PutInstalls
    <2>5. \A steady \in BOOLEAN : Ran(j, reply, steady).kind = "put"
      BY <1>1, RanIs
    <2>6. RunsTo(s, t, reply, u, j, P, P)
      BY <1>1, <1>2, <1>5, <2>1, <2>3, <2>4, <2>5 DEF RunsTo, CatOK
    <2>. QED  BY <1>8, <2>1, <2>6 DEF Runs
  <1>. QED  BY <1>4, <1>7, <1>8

(* Requests of programs other than puts and prints *)
LEMMA OtherRuns ==
    ASSUME NEW s, NEW r, NEW u \in Users, NEW j, NEW P, Ready(s, u, j, P), j.kind \notin {"put", "cat"},
           NEW t, Effect(s, t, u), Stay(s, t) \/ Taken(s, t, u),
           NEW reply \in Replies, r = [srv |-> t, reply |-> reply], GrabbedOK(t, u, reply.block)
    PROVE  Runs(s, r, u, j, P)
  <1>1. j \in Jobs
    BY DEF Ready, JobOK
  <1>2. Moves(s, t, u, j.file, P, P)
    BY DEF Moves
  <1>3. RunsTo(s, t, reply, u, j, P, P)
    BY <1>1, <1>2, OthersRun
  <1>. QED  BY <1>3 DEF Runs

LEMMA PlainRuns ==
    ASSUME NEW s, NEW r, NEW u \in Users, NEW j, NEW P, Ready(s, u, j, P), j.kind \notin {"put", "cat"},
           NEW t, Effect(s, t, u), Stay(s, t) \/ Taken(s, t, u), r = Ok(t) \/ r = Error(t)
    PROVE  Runs(s, r, u, j, P)
  <1>1. PICK reply \in Replies : r = [srv |-> t, reply |-> reply] /\ reply.block = <<>>
    BY Answers
  <1>2. GrabbedOK(t, u, reply.block)
    BY <1>1 DEF GrabbedOK
  <1>. QED  BY <1>1, <1>2, OtherRuns

LEMMA CancelRuns ==
    ASSUME NEW s, NEW u \in Users, NEW j, NEW P, Ready(s, u, j, P), j.kind = "cancel", NEW r \in Cancel(s, u)
    PROVE  Runs(s, r, u, j, P)
  <1>1. Sound(s, Blocks)
    BY DEF Ready
  <1>2. PICK t : r = Ok(t) /\ Sound(t, Blocks) /\ SameBut(s, t, u) /\ ~Exists(t, Temp(u))
    <2>1. Cancels(s, r, u, Blocks)
      BY <1>1, CancelKeeps
    <2>. QED  BY <2>1 DEF Cancels
  <1>3. Effect(s, t, u)
    BY <1>2, EffectOf DEF SameBut
  <1>4. Stay(s, t)
    BY <1>2, StaySame DEF SameBut
  <1>. QED  BY <1>2, <1>3, <1>4, PlainRuns

LEMMA StayChanges ==
    ASSUME NEW s, NEW t, NEW U, NEW p \in Visible, Changes(s, t, U, {p}), ~Exists(t, p) PROVE Stay(s, t)
  BY DEF Changes, SameNames, Stay

LEMMA EffectChanges ==
    ASSUME NEW s, NEW t, NEW u \in Users, NEW P, Sound(t, Blocks), AtEnd(s, u), Changes(s, t, Users, P)
    PROVE  Effect(s, t, u)
  <1>1. SameTemps(s, t, Users \ {u}) /\ SameTemps(s, t, Users) /\ NoNewReads(s, t, Users)
    BY DEF Changes, SameTemps
  <1>. QED  BY <1>1, EffectOf

(* The server has nothing left to do. *)
LEMMA EffectSame ==
    ASSUME NEW s, NEW u \in Users, Sound(s, Blocks), AtEnd(s, u) PROVE Effect(s, s, u) /\ Stay(s, s)
  BY DEF Effect, SameTemps, NewReads, NoNewReads, Stay

LEMMA DelFileRuns ==
    ASSUME NEW s, NEW u \in Users, NEW j, NEW P, Ready(s, u, j, P), j.kind = "del", NEW r \in DelFile(s, u)
    PROVE  Runs(s, r, u, j, P)
  <1>1. Sound(s, Blocks) /\ AtEnd(s, u)
    BY DEF Ready
  <1>2. PICK t : /\ Sound(t, Blocks) /\ Changes(s, t, Users, {Target})
                 /\ \/ r = Ok(t) /\ ~Exists(t, Target)
                    \/ r = Error(t) /\ t = s
    <2>1. Deletes(s, r, Blocks)
      BY <1>1, DelFileKeeps
    <2>. QED  BY <2>1 DEF Deletes
  <1>3. Effect(s, t, u)
    BY <1>1, <1>2, EffectChanges
  <1>4. Stay(s, t)
    <2>1. CASE ~Exists(t, Target)
      <3>1. PICK p \in Visible : p = Target
        BY Kinds
      <3>2. Changes(s, t, Users, {p}) /\ ~Exists(t, p)
        BY <1>2, <2>1, <3>1
      <3>. QED  BY <3>2, StayChanges
    <2>2. CASE t = s
      BY <1>1, <2>2, EffectSame
    <2>. QED  BY <1>2, <2>1, <2>2
  <1>. QED  BY <1>2, <1>3, <1>4, PlainRuns

LEMMA GrabDoneRuns ==
    ASSUME NEW s, NEW u \in Users, NEW j, NEW P, Ready(s, u, j, P), j.kind \in {"get", "grab"},
           NEW r \in GrabDone(s, u)
    PROVE  Runs(s, r, u, j, P)
  <1>1. Sound(s, Blocks) /\ AtEnd(s, u)
    BY DEF Ready
  <1>2. PICK t : /\ Sound(t, Blocks) /\ Changes(s, t, Users, {Grabbed(u)})
                 /\ \/ r = Ok(t) /\ ~Exists(t, Grabbed(u))
                    \/ r = Error(t) /\ t = s
    <2>1. EndsGrab(s, r, u, Blocks)
      BY <1>1, GrabDoneKeeps
    <2>. QED  BY <2>1 DEF EndsGrab
  <1>3. Effect(s, t, u)
    BY <1>1, <1>2, EffectChanges
  <1>4. Stay(s, t)
    <2>1. CASE ~Exists(t, Grabbed(u))
      <3>1. PICK p \in Visible : p = Grabbed(u)
        BY Kinds
      <3>2. Changes(s, t, Users, {p}) /\ ~Exists(t, p)
        BY <1>2, <2>1, <3>1
      <3>. QED  BY <3>2, StayChanges
    <2>2. CASE t = s
      BY <1>1, <2>2, EffectSame
    <2>. QED  BY <1>2, <2>1, <2>2
  <1>. QED  BY <1>2, <1>3, <1>4, PlainRuns

(* An answer from the server as it is *)
LEMMA PutRepeats ==
    ASSUME NEW s, NEW u \in Users, NEW j, NEW P, Ready(s, u, j, P), j.kind = "put", j.ran
    PROVE  Runs(s, Ok(s), u, j, P)
  <1>1. j \in Jobs /\ Sound(s, Blocks) /\ AtEnd(s, u) /\ PutOK(s, j, u, P)
    BY PutReady DEF Ready
  <1>2. PICK reply \in Replies : Ok(s) = [srv |-> s, reply |-> reply] /\ reply.kind = "ok" /\ reply.block = <<>>
    BY Answers
  <1>3. Effect(s, s, u) /\ Moves(s, s, u, j.file, P, P)
    BY <1>1, EffectSame DEF Moves
  <1>4. ASSUME NEW steady \in BOOLEAN PROVE PutOK(s, Ran(j, reply, steady), u, P)
    <2>1. PICK k : k = Ran(j, reply, steady)
      OBVIOUS
    <2>2. k.kind = "put" /\ k.file = j.file /\ k.pos = j.pos /\ (k.failed <=> j.failed) /\ k.failed \in BOOLEAN
      BY <1>1, <1>2, <2>1, RanIs DEF Jobs
    <2>3. SamePut(j, k)
      BY <1>1, <2>2 DEF SamePut, Done, Jobs
    <2>4. SameTemps(s, s, {u})
      BY DEF SameTemps
    <2>5. PutOK(s, k, u, P)
      BY <1>1, <2>3, <2>4, PutStays
    <2>. QED  BY <2>1, <2>5
  <1>5. \A steady \in BOOLEAN : Ran(j, reply, steady).kind = "put"
    BY <1>1, RanIs
  <1>6. RunsTo(s, s, reply, u, j, P, P)
    BY <1>2, <1>3, <1>4, <1>5 DEF RunsTo, CatOK
  <1>. QED  BY <1>2, <1>6 DEF Runs

LEMMA OtherRepeats ==
    ASSUME NEW s, NEW u \in Users, NEW j, NEW P, Ready(s, u, j, P), j.kind \notin {"put", "cat"}
    PROVE  Runs(s, Ok(s), u, j, P)
  <1>1. Effect(s, s, u) /\ Stay(s, s)
    BY EffectSame DEF Ready
  <1>. QED  BY <1>1, PlainRuns

LEMMA GrabRuns ==
    ASSUME NEW s, NEW u \in Users, NEW j, NEW P, Ready(s, u, j, P), j.kind \in {"get", "grab"},
           NEW old \in BOOLEAN, NEW r \in Grab(s, u, j.pos, old, TRUE)
    PROVE  Runs(s, r, u, j, P)
  <1>1. /\ Sound(s, Blocks) /\ AtEnd(s, u) /\ NamesKnown(s, P) /\ P \subseteq Versions
        /\ j.pos \in Nat
    BY DEF Ready, JobOK, Jobs
  <1>2. PICK pos \in Nat : pos = j.pos
    BY <1>1
  <1>3. PICK t : /\ Sound(t, Blocks) /\ Changes(s, t, Users, {Target, Grabbed(u)})
                 /\ Secured(s, t, u) \/ SameNames(s, t, {Target, Grabbed(u)})
                 /\ \/ r = Error(t)
                    \/ \E block : r = Result(t, "data", block) /\ Served(t, u, block, Blocks)
    <2>1. Grabs(s, r, u, pos, Blocks)
      BY <1>1, <1>2, GrabKeeps
    <2>. QED  BY <2>1 DEF Grabs
  <1>4. Effect(s, t, u)
    BY <1>1, <1>3, EffectChanges
  <1>5. \A p \in Visible \ {Target, Grabbed(u)} : Exists(t, p) => Exists(s, p) /\ Shows(t, p) = Shows(s, p)
    BY <1>3 DEF Changes, SameNames
  <1>6. Stay(s, t) \/ Taken(s, t, u)
    <2>1. CASE Secured(s, t, u)
      BY <1>5, <2>1 DEF Secured, Taken
    <2>2. CASE SameNames(s, t, {Target, Grabbed(u)})
      BY <1>5, <2>2 DEF SameNames, Stay
    <2>. QED  BY <1>3, <2>1, <2>2
  <1>7. CASE r = Error(t)
    BY <1>4, <1>6, <1>7, PlainRuns
  <1>8. CASE \E block : r = Result(t, "data", block) /\ Served(t, u, block, Blocks)
    <2>1. PICK block : r = Result(t, "data", block) /\ Served(t, u, block, Blocks)
      BY <1>8
    <2>2. block = <<>> \/ \E b \in Blocks : block = <<b>>
      BY <2>1 DEF Served
    <2>3. PICK reply \in Replies : r = [srv |-> t, reply |-> reply] /\ reply.block = block
      BY <2>1, <2>2, Data
    <2>4. GrabbedOK(t, u, block)
      <3>1. SUFFICES ASSUME block # <<>>, ~t.damaged
                     PROVE  Exists(t, Grabbed(u)) /\ block[1].version = Number(Shows(t, Grabbed(u)))
        BY DEF GrabbedOK
      <3>2. PICK b \in Blocks : /\ block = <<b>> /\ Exists(t, Grabbed(u))
                                /\ \E i \in 1..Len(Shows(t, Grabbed(u))) : b = Shows(t, Grabbed(u))[i]
        BY <2>1, <3>1 DEF Served
      <3>3. NamesKnown(t, P)
        <4>1. Moves(s, t, u, <<>>, P, P)
          BY <1>6 DEF Moves
        <4>. QED  BY <1>1, <4>1, MovesKeeps
      <3>4. Shows(t, Grabbed(u)) \in Versions
        BY <1>1, <3>2, <3>3, Kinds DEF NamesKnown
      <3>5. b.version = Number(Shows(t, Grabbed(u)))
        BY <3>2, <3>4, VersionType
      <3>. QED  BY <3>2, <3>5
    <2>. QED  BY <1>4, <1>6, <2>3, <2>4, OtherRuns
  <1>. QED  BY <1>3, <1>7, <1>8

(* What a program that prints knows when its request was run *)
LEMMA PrintRuns ==
    ASSUME NEW s, NEW t, NEW u \in Users, NEW j, NEW P, Ready(s, u, j, P), j.kind = "cat", j.steady,
           NEW reply \in Replies, HeldOpen(s, u) => HeldOpen(t, u),
           NEW d \in P, Reads(t, u, d), t = s \/ Cached(s, Reading(u)) = {},
           reply.kind = "data" => reply.block = Piece(d, j.pos),
           NEW steady \in BOOLEAN, NEW k, k = Ran(j, reply, steady)
    PROVE  Printed(k, d)
  <1>1. j \in Jobs /\ j.pos = Len(j.got) /\ Sound(s, Blocks) /\ CatOK(s, j, u, P)
    BY DEF Ready, JobOK
  <1>2. k.pos = j.pos /\ k.got = j.got /\ k.eof = j.eof /\ k.replies = j.replies \cup {reply}
    BY <1>1, RanIs
  <1>3. d \in Seq(Blocks)
    BY VersionType DEF Ready
  <1>4. Printed(j, d)
    <2>1. CASE Begun(j)
      <3>1. PICK c \in P : Reads(s, u, c) /\ Printed(j, c)
        BY <1>1, <2>1 DEF CatOK
      <3>2. t = s
        BY <3>1, ReadsHeld DEF HeldOpen, Reading
      <3>3. c = d
        BY <1>1, <3>1, <3>2, ReadsType
      <3>. QED  BY <3>1, <3>3
    <2>2. CASE ~Begun(j)
      <3>1. j.pos \in Nat /\ j.got \in Seq(Blocks) /\ j.eof \in BOOLEAN
        BY <1>1 DEF Jobs
      <3>2. j.pos = 0 /\ ~j.eof /\ ~\E r \in j.replies : r.kind = "data"
        BY <2>2, <3>1 DEF Begun
      <3>3. j.got = <<>>
        BY <1>1, <3>1, <3>2, EmptySeq
      <3>4. SubSeq(d, 1, 0) = <<>>
        BY SubSeqEmpty
      <3>5. Len(d) \in Nat
        BY <1>3
      <3>. QED  BY <3>2, <3>3, <3>4, <3>5 DEF Printed
    <2>. QED  BY <2>1, <2>2
  <1>. QED  BY <1>2, <1>4 DEF Printed

LEMMA GetFileRuns ==
    ASSUME NEW s, NEW u \in Users, NEW j, NEW P, Ready(s, u, j, P), j.kind = "cat", NEW r \in GetFile(s, u, j.pos)
    PROVE  Runs(s, r, u, j, P)
  <1>1. /\ Sound(s, Blocks) /\ AtEnd(s, u) /\ NamesKnown(s, P) /\ ReadsKnown(s, P) /\ P \subseteq Versions
        /\ j \in Jobs /\ j.pos \in Nat /\ CatOK(s, j, u, P)
    BY DEF Ready, JobOK, Jobs
  <1>2. PICK pos \in Nat : pos = j.pos
    BY <1>1
  <1>3. PICK t : /\ Sound(t, Blocks) /\ SameTemps(s, t, Users) /\ SameNames(s, t, Visible)
                 /\ NoNewReads(s, t, Users \ {u})
                 /\ \/ r = Error(t) /\ t = s
                    \/ \E d : r = Result(t, "data", Piece(d, pos)) /\ Got(s, t, u, d)
    <2>1. Gets(s, r, u, pos, Blocks)
      BY <1>1, <1>2, GetFileKeeps
    <2>. QED  BY <2>1 DEF Gets
  <1>4. Moves(s, t, u, j.file, P, P)
    BY <1>3, StaySame DEF Moves
  <1>5. \A reply \in Replies : \A steady \in BOOLEAN : Ran(j, reply, steady).kind = "cat"
    BY <1>1, RanIs
  <1>6. CASE r = Error(t) /\ t = s
    <2>1. PICK reply \in Replies : Error(t) = [srv |-> t, reply |-> reply] /\ reply.kind = "error" /\ reply.block = <<>>
      BY Answers
    <2>2. Effect(s, t, u)
      BY <1>1, <1>6, EffectSame
    <2>3. ASSUME j.steady, NEW steady \in BOOLEAN PROVE CatOK(t, Ran(j, reply, steady), u, P)
      <3>1. PICK k : k = Ran(j, reply, steady)
        OBVIOUS
      <3>2. /\ k.kind = j.kind /\ k.pos = j.pos /\ k.got = j.got /\ k.eof = j.eof
            /\ k.replies = j.replies \cup {reply}
        BY <1>1, <3>1, RanIs
      <3>3. SUFFICES ASSUME Begun(k) PROVE \E d \in P : Reads(t, u, d) /\ Printed(k, d)
        BY <3>1 DEF CatOK
      <3>4. Begun(j)
        BY <2>1, <3>2, <3>3 DEF Begun
      <3>5. PICK d \in P : Reads(s, u, d) /\ Printed(j, d)
        BY <1>1, <2>3, <3>4 DEF CatOK
      <3>. QED  BY <1>6, <2>1, <3>2, <3>5 DEF Printed
    <2>4. RunsTo(s, t, reply, u, j, P, P)
      BY <1>4, <1>5, <2>2, <2>3 DEF RunsTo, PutOK
    <2>. QED  BY <1>6, <2>1, <2>4 DEF Runs
  <1>7. CASE \E d : r = Result(t, "data", Piece(d, pos)) /\ Got(s, t, u, d)
    <2>1. PICK d : r = Result(t, "data", Piece(d, pos)) /\ Got(s, t, u, d)
      BY <1>7
    <2>2. Reads(t, u, d) /\ (t = s \/ Cached(s, Reading(u)) = {})
      BY <2>1 DEF Got
    <2>3. d \in P
      BY <1>1, <2>1, Kinds DEF Got, ReadsKnown, NamesKnown
    <2>4. d \in Seq(Blocks)
      BY <1>1, <2>3, VersionType
    <2>5. PICK reply \in Replies : /\ r = [srv |-> t, reply |-> reply]
                                   /\ reply.kind = "data" /\ reply.block = Piece(d, pos)
      <3>1. PICK block : block = Piece(d, pos)
        OBVIOUS
      <3>2. block = <<>> \/ \E b \in Blocks : block = <<b>>
        BY <2>4, <3>1, PieceType
      <3>. QED  BY <2>1, <3>1, <3>2, Data
    <2>6. Effect(s, t, u)
      <3>1. NewReads(s, t, u)
        BY <1>3, <2>1 DEF NewReads, Got
      <3>2. AtEnd(t, u) /\ SameTemps(s, t, Users \ {u})
        BY <1>1, <1>3 DEF SameTemps
      <3>. QED  BY <1>3, <3>1, <3>2 DEF Effect
    <2>7. ASSUME j.steady, HeldOpen(s, u) => HeldOpen(t, u), NEW steady \in BOOLEAN
          PROVE  CatOK(t, Ran(j, reply, steady), u, P)
      <3>1. PICK k : k = Ran(j, reply, steady)
        OBVIOUS
      <3>2. Printed(k, d)
        BY <1>2, <2>2, <2>3, <2>5, <2>7, <3>1, PrintRuns
      <3>. QED  BY <2>2, <2>3, <3>1, <3>2 DEF CatOK
    <2>8. RunsTo(s, t, reply, u, j, P, P)
      BY <1>4, <1>5, <2>5, <2>6, <2>7 DEF RunsTo, PutOK
    <2>. QED  BY <2>5, <2>8 DEF Runs
  <1>. QED  BY <1>3, <1>6, <1>7
-----------------------------------------------------------------------------
(* The invariant is what a request needs. *)
LEMMA InvReady ==
    ASSUME IInv, NEW u \in Users PROVE Ready(srv, u, job[u], published)
  <1>1. Known \subseteq Issued(started) /\ started \in 0..MaxJobs
    BY DEF IInv, Typed, Numbered
  <1>2. published \subseteq Versions
    BY <1>1, IssuedAre DEF Known
  <1>. QED  BY <1>2 DEF IInv, Typed, Ready

LEMMA RunRuns ==
    ASSUME IInv, NEW u \in Users, Waiting(u), ~job[u].ran, NEW r \in Run(u, TRUE)
    PROVE  Runs(srv, r, u, job[u], published)
  <1>1. Ready(srv, u, job[u], published)
    BY InvReady
  <1>2. PICK j : j = job[u]
    OBVIOUS
  <1>3. j \in Jobs
    BY <1>1, <1>2 DEF Ready, JobOK
  <1>4. j.kind \in {"put", "cancel", "cat", "get", "grab", "del"}
    BY <1>2, <1>3 DEF Jobs, Waiting
  <1>5. CASE j.kind = "put" /\ j.pos < Len(j.file)
    <2>1. Command(j) = "UP_LOAD"
      BY <1>5 DEF Command
    <2>2. r \in UpLoad(srv, u, j.pos, j.file[j.pos + 1], TRUE)
      BY <1>2, <2>1 DEF Run
    <2>. QED  BY <1>1, <1>2, <1>5, <2>2, UpLoadRuns
  <1>6. CASE j.kind = "put" /\ ~(j.pos < Len(j.file))
    <2>1. Command(j) = "INSTALL"
      BY <1>6 DEF Command
    <2>2. r \in Install(srv, u, TRUE)
      BY <1>2, <2>1 DEF Run
    <2>3. j.pos = Len(j.file)
      <3>1. j.pos \in Nat /\ j.pos <= Len(j.file) /\ Len(j.file) \in Nat
        BY <1>1, <1>2, <1>6, PutReady
      <3>. QED  BY <1>6, <3>1
    <2>. QED  BY <1>1, <1>2, <1>6, <2>2, <2>3, InstallRuns
  <1>7. CASE j.kind = "cancel"
    <2>1. Command(j) = "CANCEL"
      BY <1>7 DEF Command
    <2>2. r \in Cancel(srv, u)
      BY <1>2, <2>1 DEF Run
    <2>. QED  BY <1>1, <1>2, <1>7, <2>2, CancelRuns
  <1>8. CASE j.kind = "cat"
    <2>1. Command(j) = "GET_FILE"
      BY <1>8 DEF Command
    <2>2. r \in GetFile(srv, u, j.pos)
      BY <1>2, <2>1 DEF Run
    <2>. QED  BY <1>1, <1>2, <1>8, <2>2, GetFileRuns
  <1>9. CASE j.kind \in {"get", "grab"} /\ ~j.eof
    <2>1. Command(j) = "GRAB_FILE"
      BY <1>9 DEF Command
    <2>2. PICK old \in BOOLEAN : old = FALSE
      OBVIOUS
    <2>3. r \in Grab(srv, u, j.pos, old, TRUE)
      BY <1>2, <2>1, <2>2 DEF Run
    <2>. QED  BY <1>1, <1>2, <1>9, <2>3, GrabRuns
  <1>10. CASE j.kind \in {"get", "grab"} /\ j.eof
    <2>1. Command(j) = "GRAB_DONE"
      BY <1>10 DEF Command
    <2>2. r \in GrabDone(srv, u)
      BY <1>2, <2>1 DEF Run
    <2>. QED  BY <1>1, <1>2, <1>10, <2>2, GrabDoneRuns
  <1>11. CASE j.kind = "del"
    <2>1. Command(j) = "DEL_FILE"
      BY <1>11 DEF Command
    <2>2. r \in DelFile(srv, u)
      BY <1>2, <2>1 DEF Run
    <2>. QED  BY <1>1, <1>2, <1>11, <2>2, DelFileRuns
  <1>. QED  BY <1>4, <1>5, <1>6, <1>7, <1>8, <1>9, <1>10, <1>11

LEMMA RepeatRuns ==
    ASSUME IInv, NEW u \in Users, Waiting(u), job[u].ran, NEW r \in RunOld(u)
    PROVE  Runs(srv, r, u, job[u], published)
  <1>1. Ready(srv, u, job[u], published)
    BY InvReady
  <1>2. PICK j : j = job[u]
    OBVIOUS
  <1>3. j \in Jobs
    BY <1>1, <1>2 DEF Ready, JobOK
  <1>4. j.kind \in {"put", "cancel", "cat", "get", "grab", "del"}
    BY <1>2, <1>3 DEF Jobs, Waiting
  <1>5. CASE j.kind = "put"
    <2>1. Command(j) \in {"UP_LOAD", "INSTALL"}
      BY <1>5 DEF Command
    <2>2. r = Ok(srv)
      BY <1>2, <2>1 DEF RunOld
    <2>. QED  BY <1>1, <1>2, <1>5, <2>2, PutRepeats
  <1>6. CASE j.kind = "cat"
    <2>1. Command(j) = "GET_FILE"
      BY <1>6 DEF Command
    <2>2. r \in GetFile(srv, u, j.pos)
      BY <1>2, <2>1 DEF RunOld
    <2>. QED  BY <1>1, <1>2, <1>6, <2>2, GetFileRuns
  <1>7. CASE j.kind \in {"get", "grab"} /\ ~j.eof
    <2>1. Command(j) = "GRAB_FILE"
      BY <1>7 DEF Command
    <2>2. PICK old \in BOOLEAN : old = TRUE
      OBVIOUS
    <2>3. r \in Grab(srv, u, j.pos, old, TRUE)
      BY <1>2, <2>1, <2>2 DEF RunOld
    <2>. QED  BY <1>1, <1>2, <1>7, <2>3, GrabRuns
  <1>8. CASE j.kind \in {"cancel", "del"} \/ (j.kind \in {"get", "grab"} /\ j.eof)
    <2>1. Command(j) \in {"CANCEL", "GRAB_DONE", "DEL_FILE"}
      BY <1>8 DEF Command
    <2>2. r = Ok(srv)
      BY <1>2, <2>1 DEF RunOld
    <2>. QED  BY <1>1, <1>2, <1>8, <2>2, OtherRepeats
  <1>. QED  BY <1>4, <1>5, <1>6, <1>7, <1>8
-----------------------------------------------------------------------------
(* A result of the server's reaches the network and the history. *)
StillHeld(s, t, j, w) == j.kind = "cat" => j.steady /\ (HeldOpen(s, w) => HeldOpen(t, w))

LEMMA AnswerIs ==
    ASSUME IInv, NEW u \in Users, NEW r, NEW t, NEW reply \in Replies, r = [srv |-> t, reply |-> reply],
           Sound(t, Blocks), Answer(u, r)
    PROVE  /\ srv' = Reclaimed(t) /\ Sound(srv', Blocks) /\ Quiet(t, srv')
           /\ \A w \in Users : HeldOpen(srv', w) <=> HeldOpen(t, w)
           /\ srv'.damaged = t.damaged
           /\ \A w \in Users \ {u} : job'[w] = [job[w] EXCEPT !.steady = StillHeld(srv, srv', job[w], w)]
           /\ job'[u] = Ran(job[u], reply, StillHeld(srv, srv', job[u], u))
           /\ DOMAIN job' = Users
           /\ published' = published \cup (Named(srv') \cap Versions)
           /\ handed' = IF Command(job[u]) = "GRAB_FILE" /\ reply.block # <<>> /\ ~t.damaged
                        THEN handed \cup {<<u, reply.block[1].version>>} ELSE handed
           /\ started' = started /\ acked' = acked
  <1>1. r.srv = t /\ r.reply = reply
    OBVIOUS
  <1>2. srv' = Reclaimed(t)
    BY <1>1 DEF Answer
  <1>3. Sound(srv', Blocks) /\ Quiet(t, srv') /\ Linked(t, srv') /\ srv'.damaged = t.damaged
    BY <1>2, ReclaimedKeeps
  <1>4. \A w \in Users : HeldOpen(srv', w) <=> HeldOpen(t, w)
    BY <1>3 DEF Linked, HeldOpen, Cached
  <1>5. job' = [w \in Users |->
                   IF w # u THEN [job[w] EXCEPT !.steady = StillHeld(srv, srv', job[w], w)]
                   ELSE Ran(job[w], reply, StillHeld(srv, srv', job[w], w))]
    BY <1>1, <1>2 DEF Answer, StillHeld, Ran
  <1>6. /\ \A w \in Users \ {u} : job'[w] = [job[w] EXCEPT !.steady = StillHeld(srv, srv', job[w], w)]
        /\ job'[u] = Ran(job[u], reply, StillHeld(srv, srv', job[u], u))
        /\ DOMAIN job' = Users
    BY <1>5
  <1>7. published' = published \cup (Named(srv') \cap Versions)
    BY <1>1, <1>2 DEF Answer
  <1>8. handed' = IF Command(job[u]) = "GRAB_FILE" /\ reply.block # <<>> /\ ~t.damaged
                  THEN handed \cup {<<u, reply.block[1].version>>} ELSE handed
    <2>1. handed' = IF Command(job[u]) = "GRAB_FILE" /\ reply.block # <<>> /\ ~(srv').damaged
                    THEN handed \cup {<<u, reply.block[1].version>>} ELSE handed
      BY <1>1, <1>2 DEF Answer
    <2>. QED  BY <1>3, <2>1
  <1>9. started' = started /\ acked' = acked
    BY DEF Answer
  <1>. QED  BY <1>2, <1>3, <1>4, <1>6, <1>7, <1>8, <1>9

(* A job of which only "steady" changes *)
LEMMA SteadyIs ==
    ASSUME NEW j, JobOK(j), NEW steady \in BOOLEAN, NEW k, k = [j EXCEPT !.steady = steady]
    PROVE  JobOK(k) /\ SamePut(j, k) /\ SameCat(j, k) /\ k.steady = steady /\ k.kind = j.kind /\ k.file = j.file
  <1>1. j \in Jobs
    BY DEF JobOK
  <1>2. /\ k.kind = j.kind /\ k.file = j.file /\ k.pos = j.pos /\ k.eof = j.eof /\ k.ran = j.ran
        /\ k.replies = j.replies /\ k.got = j.got /\ k.failed = j.failed /\ k.steady = steady
    BY <1>1 DEF Jobs
  <1>3. k \in Jobs
    BY <1>1 DEF Jobs
  <1>4. JobOK(k)
    BY <1>2, <1>3 DEF JobOK, PutJob
  <1>. QED  BY <1>2, <1>4 DEF SamePut, SameCat, Done

LEMMA AnswerKeeps ==
    ASSUME IInv, NEW u \in Users, Waiting(u), NEW r, Runs(srv, r, u, job[u], published), Answer(u, r)
    PROVE  IInv'
  <1>1. PICK t, Q : \E reply \in Replies : /\ r = [srv |-> t, reply |-> reply]
                                           /\ RunsTo(srv, t, reply, u, job[u], published, Q)
    BY DEF Runs
  <1>2. PICK reply \in Replies : /\ r = [srv |-> t, reply |-> reply]
                                 /\ RunsTo(srv, t, reply, u, job[u], published, Q)
    BY <1>1
  <1>3. PICK s, P : s = srv /\ P = published
    OBVIOUS
  <1>4. /\ Effect(s, t, u) /\ Moves(s, t, u, job[u].file, P, Q) /\ (Q # P => job[u].kind = "put")
        /\ job[u].kind = "put" => reply.kind # "data" /\ (reply.kind = "error" => job[u].pos # 0)
    BY <1>2, <1>3 DEF RunsTo
  <1>5. Sound(s, Blocks) /\ Sound(t, Blocks) /\ P \subseteq Versions /\ \A w \in Users : JobOK(job[w])
    <2>1. Ready(srv, u, job[u], published)
      BY InvReady
    <2>. QED  BY <1>3, <1>4, <2>1 DEF Ready, Effect, IInv, Typed
  <1>6. PICK t2, Q2, steady, jobs : /\ t2 = srv' /\ Q2 = published' /\ jobs = job'
                                    /\ steady = [w \in Users |-> StillHeld(srv, srv', job[w], w)]
    OBVIOUS
  <1>7. /\ Sound(t2, Blocks) /\ Quiet(t, t2)
        /\ \A w \in Users : HeldOpen(t2, w) <=> HeldOpen(t, w)
        /\ \A w \in Users \ {u} : jobs[w] = [job[w] EXCEPT !.steady = steady[w]]
        /\ jobs[u] = Ran(job[u], reply, steady[u])
        /\ DOMAIN jobs = Users /\ jobs = [w \in Users |-> jobs[w]]
        /\ Q2 = P \cup (Named(t2) \cap Versions)
        /\ started' = started /\ acked' = acked
    <2>1. jobs = [w \in Users |-> jobs[w]]
      BY <1>6 DEF Answer
    <2>. QED  BY <1>2, <1>3, <1>5, <1>6, <2>1, AnswerIs
  <1>8. handed' = IF Command(job[u]) = "GRAB_FILE" /\ reply.block # <<>> /\ ~t.damaged
                  THEN handed \cup {<<u, reply.block[1].version>>} ELSE handed
    BY <1>2, <1>5, AnswerIs
  <1>9. \A w \in Users : /\ steady[w] \in BOOLEAN
                         /\ steady[w] <=> (job[w].kind = "cat" =>
                                              job[w].steady /\ (HeldOpen(s, w) => HeldOpen(t2, w)))
    <2>1. \A w \in Users : job[w].steady \in BOOLEAN
      BY <1>5 DEF JobOK, Jobs
    <2>. QED  BY <1>3, <1>6, <2>1 DEF StillHeld
  <1>10. Effect(s, t2, u) /\ Moves(s, t2, u, job[u].file, P, Q)
    <2>1. SameNames(t, t2, Visible)
      BY <1>7 DEF Quiet
    <2>. QED  BY <1>4, <1>7, <2>1, EffectQuiet, MovesQuiet
  <1>11. Q2 = Q
    <2>1. Q = P \/ job[u].file \in Versions
      BY <1>4, <1>5 DEF JobOK, PutJob
    <2>2. NamesKnown(s, P)
      BY <1>3 DEF IInv
    <2>. QED  BY <1>5, <1>7, <1>10, <2>1, <2>2, MovesPublished
  <1>12. \A w \in Users : JobOK(jobs[w]) /\ jobs[w].kind = job[w].kind /\ jobs[w].file = job[w].file
    <2>1. ASSUME NEW w \in Users \ {u}
          PROVE  JobOK(jobs[w]) /\ jobs[w].kind = job[w].kind /\ jobs[w].file = job[w].file
      BY <1>5, <1>7, <1>9, SteadyIs
    <2>2. JobOK(jobs[u]) /\ jobs[u].kind = job[u].kind /\ jobs[u].file = job[u].file
      <3>1. PICK j, b : b \in BOOLEAN /\ j = job[u] /\ b = steady[u]
        BY <1>9
      <3>2. jobs[u] = Ran(j, reply, b) /\ JobOK(j) /\ j \in Jobs /\ j.kind # "none"
        BY <1>5, <1>7, <3>1 DEF JobOK, Waiting
      <3>3. j.kind = "put" => reply.kind # "data" /\ (reply.kind = "error" => j.pos # 0)
        BY <1>4, <3>1
      <3>4. JobOK(Ran(j, reply, b))
        BY <3>1, <3>2, <3>3, RanOK
      <3>5. Ran(j, reply, b).kind = j.kind /\ Ran(j, reply, b).file = j.file
        BY <3>1, <3>2, RanIs
      <3>. QED  BY <3>1, <3>2, <3>4, <3>5
    <2>. QED  BY <2>1, <2>2
  <1>13. Typed'
    <2>1. jobs \in [Users -> Jobs]
      BY <1>7, <1>12 DEF JobOK
    <2>2. ASSUME NEW w \in Users PROVE AtEnd(t2, w)
      <3>1. CASE w = u
        BY <1>10, <3>1 DEF Effect
      <3>2. CASE w # u
        BY <1>3, <1>10, <3>2 DEF Effect, SameTemps, IInv, Typed
      <3>. QED  BY <3>1, <3>2
    <2>3. started' \in 0..MaxJobs
      BY <1>7 DEF IInv, Typed
    <2>. QED  BY <1>6, <1>7, <1>12, <2>1, <2>2, <2>3 DEF Typed
  <1>14. P \subseteq Q2 /\ NamesKnown(t2, Q2) /\ \A h : HandedOK(s, h, P) => HandedOK(t2, h, Q2)
    <2>1. NamesKnown(s, P)
      BY <1>3 DEF IInv
    <2>2. PICK d : d = job[u].file
      OBVIOUS
    <2>3. Moves(s, t2, u, d, P, Q2)
      BY <1>10, <1>11, <2>2
    <2>. QED  BY <2>1, <2>3, MovesKeeps
  <1>15. ReadsKnown(t2, Q2)
    <2>1. NamesKnown(s, P) /\ ReadsKnown(s, P)
      BY <1>3 DEF IInv
    <2>2. ReadsKnown(t2, P)
      BY <1>10, <2>1, EffectReads DEF Effect
    <2>. QED  BY <1>14, <2>2 DEF ReadsKnown
  <1>16. Q2 = P \/ (job[u].kind = "put" /\ Q2 = P \cup {job[u].file})
    BY <1>4, <1>10, <1>11 DEF Moves
  <1>17. Numbered'
    <2>1. Putting' = Putting
      BY <1>6, <1>12 DEF Putting
    <2>2. Known' = Known
      BY <1>3, <1>6, <1>12, <1>16, <2>1 DEF Known, Putting
    <2>3. Issued(started)' = Issued(started)
      BY <1>7 DEF Issued
    <2>4. acked' \subseteq published'
      BY <1>3, <1>6, <1>7, <1>14 DEF IInv, Numbered
    <2>5. \A w, x \in Putting : (job[w].file = job[x].file)' => w = x
      BY <1>6, <1>12 DEF IInv, Numbered, Putting
    <2>. QED  BY <2>1, <2>2, <2>3, <2>4, <2>5 DEF IInv, Numbered
  <1>18. ASSUME NEW w \in Users PROVE PutOK(t2, jobs[w], w, Q2) /\ CatOK(t2, jobs[w], w, Q2)
    <2>1. CASE w # u
      <3>1. PutOK(s, job[w], w, P) /\ CatOK(s, job[w], w, P)
        BY <1>3 DEF IInv
      <3>2. SamePut(job[w], jobs[w]) /\ SameCat(job[w], jobs[w]) /\ jobs[w].steady = steady[w]
        BY <1>5, <1>7, <1>9, <2>1, SteadyIs
      <3>3. SameTemps(s, t2, Users \ {u}) /\ NoNewReads(s, t2, Users \ {u}) /\ w \in Users \ {u}
        BY <1>10, <2>1 DEF Effect, NewReads
      <3>4. job[w].kind = "put" => (job[w].file \in P <=> job[w].file \in Q2)
        BY <1>16, <2>1 DEF IInv, Numbered, Putting
      <3>5. PutOK(t2, jobs[w], w, Q2)
        BY <3>1, <3>2, <3>3, <3>4, PutStays
      <3>6. jobs[w].kind = "cat" /\ jobs[w].steady => job[w].steady /\ (HeldOpen(s, w) => HeldOpen(t2, w))
        BY <1>9, <1>12, <3>2
      <3>7. CatOK(t2, jobs[w], w, Q2)
        BY <1>5, <1>7, <1>14, <3>1, <3>2, <3>3, <3>6, CatStays
      <3>. QED  BY <3>5, <3>7
    <2>2. CASE w = u
      <3>1. /\ PutOK(t, jobs[u], u, Q2)
            /\ steady[u] => CatOK(t, jobs[u], u, Q2) \/ ~job[u].steady \/ (HeldOpen(s, u) /\ ~HeldOpen(t, u))
        <4>1. PICK j, b : b \in BOOLEAN /\ j = job[u] /\ b = steady[u]
          BY <1>9
        <4>2. RunsTo(s, t, reply, u, j, P, Q2)
          BY <1>2, <1>3, <1>11, <4>1
        <4>3. /\ PutOK(t, Ran(j, reply, b), u, Q2)
              /\ b => CatOK(t, Ran(j, reply, b), u, Q2) \/ ~j.steady \/ (HeldOpen(s, u) /\ ~HeldOpen(t, u))
          BY <4>1, <4>2 DEF RunsTo
        <4>. QED  BY <1>7, <4>1, <4>3
      <3>2. SamePut(jobs[u], jobs[u]) /\ SameCat(jobs[u], jobs[u])
        BY DEF SamePut, SameCat
      <3>3. SameTemps(t, t2, Users) /\ NoNewReads(t, t2, Users)
        BY <1>7 DEF Quiet
      <3>4. PutOK(t2, jobs[u], u, Q2)
        BY <3>1, <3>2, <3>3, PutStays
      <3>5. CatOK(t2, jobs[u], u, Q2)
        <4>1. SUFFICES ASSUME jobs[u].kind = "cat", jobs[u].steady PROVE CatOK(t2, jobs[u], u, Q2)
          BY DEF CatOK
        <4>2. jobs[u].steady = steady[u]
          <5>1. PICK j, b : j \in Jobs /\ b \in BOOLEAN /\ j = job[u] /\ b = steady[u]
            BY <1>5, <1>9 DEF JobOK
          <5>2. Ran(j, reply, b).steady = b
            BY <5>1, RanIs
          <5>. QED  BY <1>7, <5>1, <5>2
        <4>3. CatOK(t, jobs[u], u, Q2)
          BY <1>7, <1>9, <1>12, <3>1, <4>1, <4>2
        <4>. QED  BY <1>5, <1>7, <3>2, <3>3, <4>1, <4>3, CatStays
      <3>. QED  BY <2>2, <3>4, <3>5
    <2>. QED  BY <2>1, <2>2
  <1>19. ASSUME NEW h \in handed' PROVE HandedOK(t2, h, Q2)
    <2>1. CASE h \in handed
      BY <1>3, <1>14, <2>1 DEF IInv
    <2>2. CASE h \notin handed
      <3>1. /\ Command(job[u]) = "GRAB_FILE" /\ reply.block # <<>> /\ ~t.damaged
            /\ h = <<u, reply.block[1].version>>
        BY <1>8, <2>2
      <3>2. job[u].kind \in {"get", "grab"}
        <4>1. PICK j : j = job[u]
          OBVIOUS
        <4>2. j.kind \in {"put", "cancel", "cat", "get", "grab", "del"}
          BY <1>5, <4>1 DEF JobOK, Jobs, Waiting
        <4>. QED  BY <3>1, <4>1, <4>2 DEF Command
      <3>3. Exists(t, Grabbed(u)) /\ reply.block[1].version = Number(Shows(t, Grabbed(u)))
        BY <1>2, <3>1, <3>2 DEF RunsTo, GrabbedOK
      <3>4. Grabbed(u) \in Visible
        BY Kinds
      <3>5. Exists(t2, Grabbed(u)) /\ Shows(t2, Grabbed(u)) = Shows(t, Grabbed(u))
        BY <1>7, <3>3, <3>4 DEF Quiet, SameNames
      <3>6. PICK d : d = Shows(t2, Grabbed(u))
        OBVIOUS
      <3>7. h[1] = u /\ h[2] = Number(d)
        BY <3>1, <3>3, <3>5, <3>6
      <3>8. d \in Q2 /\ \A p \in Visible : Exists(t2, p) /\ Shows(t2, p) = d => p = Grabbed(u)
        BY <1>14, <3>4, <3>5, <3>6 DEF NamesKnown
      <3>. QED  BY <3>7, <3>8 DEF HandedOK
    <2>. QED  BY <2>1, <2>2
  <1>. QED  BY <1>6, <1>13, <1>14, <1>15, <1>17, <1>18, <1>19 DEF IInv
-----------------------------------------------------------------------------
(* Steps of a program: the server stays what it is. *)
Starts(u, k) == srv' = srv /\ published' = published /\ handed' = handed /\ job' = [job EXCEPT ![u] = k]

LEMMA ProgramKeeps ==
    ASSUME IInv, NEW u \in Users, NEW k, Starts(u, k), started' \in 0..MaxJobs, JobOK(k),
           PutOK(srv, k, u, published), CatOK(srv, k, u, published), Numbered'
    PROVE  IInv'
  <1>1. job \in [Users -> Jobs]
    BY DEF IInv, Typed
  <1>2. job'[u] = k /\ \A w \in Users \ {u} : job'[w] = job[w]
    BY <1>1 DEF Starts
  <1>3. Typed'
    <2>1. job' \in [Users -> Jobs]
      BY <1>1 DEF Starts, JobOK
    <2>2. \A w \in Users : JobOK(job'[w])
      BY <1>2 DEF IInv, Typed
    <2>3. Sound(srv', Blocks) /\ \A w \in Users : AtEnd(srv', w)
      BY DEF Starts, IInv, Typed
    <2>. QED  BY <2>1, <2>2, <2>3 DEF Typed
  <1>4. \A w \in Users : PutOK(srv', job'[w], w, published') /\ CatOK(srv', job'[w], w, published')
    BY <1>2 DEF Starts, IInv
  <1>5. NamesKnown(srv', published') /\ ReadsKnown(srv', published') /\ \A h \in handed' : HandedOK(srv', h, published')
    BY DEF Starts, IInv
  <1>. QED  BY <1>3, <1>4, <1>5 DEF IInv

LEMMA NumbersStay ==
    ASSUME IInv, NEW u \in Users, NEW k, Starts(u, k), started' = started, acked' \subseteq published,
           k.kind = "put" => job[u].kind = "put" /\ k.file = job[u].file
    PROVE  Numbered'
  <1>1. job \in [Users -> Jobs]
    BY DEF IInv, Typed
  <1>2. job'[u] = k /\ \A w \in Users \ {u} : job'[w] = job[w]
    BY <1>1 DEF Starts
  <1>3. \A w \in Putting' : w \in Putting /\ job'[w].file = job[w].file
    BY <1>2 DEF Putting
  <1>4. Known' \subseteq Known
    BY <1>3 DEF Known, Starts
  <1>5. Issued(started)' = Issued(started)
    BY DEF Issued
  <1>6. \A w, x \in Putting' : job'[w].file = job'[x].file => w = x
    BY <1>3 DEF IInv, Numbered
  <1>7. acked' \subseteq published'
    BY DEF Starts
  <1>. QED  BY <1>4, <1>5, <1>6, <1>7 DEF IInv, Numbered

LEMMA IdleOK ==
    ASSUME NEW s, NEW u, NEW P PROVE JobOK(Idle) /\ PutOK(s, Idle, u, P) /\ CatOK(s, Idle, u, P) /\ Idle.kind = "none"
  <1>1. <<>> \in Seq(Blocks) /\ Len(<<>>) = 0
    OBVIOUS
  <1>2. Idle \in Jobs
    BY <1>1 DEF Idle, Jobs
  <1>3. /\ Idle.kind = "none" /\ Idle.pos = 0 /\ Idle.file = <<>> /\ Idle.got = <<>> /\ Idle.replies = {}
    BY DEF Idle
  <1>4. JobOK(Idle)
    BY <1>1, <1>2, <1>3 DEF JobOK, PutJob
  <1>. QED  BY <1>3, <1>4 DEF PutOK, CatOK

(* A program ends. *)
LEMMA EndKeeps ==
    ASSUME IInv, NEW u \in Users, Starts(u, Idle), started' = started, acked' \subseteq published
    PROVE  IInv'
  <1>1. JobOK(Idle) /\ PutOK(srv, Idle, u, published) /\ CatOK(srv, Idle, u, published) /\ Idle.kind = "none"
    BY IdleOK
  <1>2. PICK k : k = Idle
    OBVIOUS
  <1>3. Numbered'
    BY <1>1, <1>2, NumbersStay
  <1>4. started' \in 0..MaxJobs
    BY DEF IInv, Typed
  <1>. QED  BY <1>1, <1>2, <1>3, <1>4, ProgramKeeps

LEMMA LeaveKeeps == ASSUME IInv, NEW u \in Users, Leave(u) PROVE IInv'
  <1>1. Starts(u, Idle) /\ started' = started /\ acked' \subseteq published
    BY DEF Leave, Starts, IInv, Numbered
  <1>. QED  BY <1>1, EndKeeps

LEMMA InterruptKeeps == ASSUME IInv, NEW u \in Users, Interrupt(u) PROVE IInv'
  <1>1. PICK k : k = [job[u] EXCEPT !.kind = "cancel", !.replies = {}]
    OBVIOUS
  <1>2. Starts(u, k) /\ started' = started /\ acked' \subseteq published
    BY <1>1 DEF Interrupt, Starts, IInv, Numbered
  <1>3. JobOK(job[u])
    BY DEF IInv, Typed
  <1>4. JobOK(k) /\ k.kind = "cancel"
    <2>1. job[u] \in Jobs
      BY <1>3 DEF JobOK
    <2>2. k.kind = "cancel" /\ k.pos = job[u].pos /\ k.file = job[u].file /\ k.got = job[u].got
      BY <1>1, <2>1 DEF Jobs
    <2>3. k \in Jobs
      BY <1>1, <2>1 DEF Jobs
    <2>. QED  BY <1>3, <2>2, <2>3 DEF JobOK, PutJob
  <1>5. PutOK(srv, k, u, published) /\ CatOK(srv, k, u, published)
    BY <1>4 DEF PutOK, CatOK
  <1>6. Numbered'
    BY <1>2, <1>4, NumbersStay
  <1>7. started' \in 0..MaxJobs
    BY <1>2 DEF IInv, Typed
  <1>. QED  BY <1>2, <1>4, <1>5, <1>6, <1>7, ProgramKeeps

LEMMA StartKeeps == ASSUME IInv, NEW u \in Users, Start(u) PROVE IInv'
  <1>1. PICK kind \in JobKinds, n \in Lengths :
           job' = [job EXCEPT ![u] = [Idle EXCEPT
                     !.kind = kind, !.file = IF kind = "put" THEN Version(started + 1, n) ELSE <<>>]]
    BY DEF Start
  <1>2. PICK d, k : /\ d = IF kind = "put" THEN Version(started + 1, n) ELSE <<>>
                    /\ k = [Idle EXCEPT !.kind = kind, !.file = d]
    OBVIOUS
  <1>3. Starts(u, k)
    BY <1>1, <1>2 DEF Start, Starts
  <1>4. /\ job[u].kind = "none" /\ started' = started + 1 /\ acked' = acked
        /\ started \in 0..MaxJobs /\ started < MaxJobs /\ MaxJobs \in Nat
    BY TransferAssumption DEF Start, IInv, Typed
  <1>5. kind \in {"put", "cat", "get", "grab", "del"} /\ n \in Nat \ {0}
    BY TransferAssumption
  <1>6. /\ k.kind = kind /\ k.file = d /\ k.pos = 0 /\ ~k.eof /\ ~k.ran /\ k.replies = {} /\ k.got = <<>>
        /\ ~k.failed /\ k.steady
    BY <1>2 DEF Idle
  <1>7. kind = "put" => /\ d \in Issued(started + 1) /\ Number(d) = started + 1 /\ d \notin Issued(started)
                        /\ d \in Versions /\ d \in Seq(Blocks) /\ Len(d) \in Nat \ {0}
    <2>1. SUFFICES ASSUME kind = "put"
                   PROVE  /\ d \in Issued(started + 1) /\ Number(d) = started + 1 /\ d \notin Issued(started)
                          /\ d \in Versions
      BY VersionType
    <2>2. d = Version(started + 1, n)
      BY <1>2, <2>1
    <2>3. d \in Issued(started + 1) /\ Number(d) = started + 1 /\ d \notin Issued(started)
      BY <1>4, <2>2, IssuedAre
    <2>4. started + 1 \in 0..MaxJobs
      BY <1>4
    <2>. QED  BY <2>3, <2>4, IssuedAre
  <1>8. JobOK(k)
    <2>1. d \in Seq(Blocks)
      BY <1>2, <1>7
    <2>2. k \in Jobs
      <3>1. k = [kind |-> kind, file |-> d, pos |-> 0, eof |-> FALSE, ran |-> FALSE,
                 replies |-> {}, got |-> <<>>, failed |-> FALSE, steady |-> TRUE]
        BY <1>2 DEF Idle
      <3>2. kind \in {"none", "put", "cancel", "cat", "get", "grab", "del"}
        BY <1>5
      <3>. QED  BY <2>1, <3>1, <3>2 DEF Jobs
    <2>3. Len(d) \in Nat /\ Len(<<>>) = 0
      BY <2>1
    <2>. QED  BY <1>5, <1>6, <1>7, <2>2, <2>3 DEF JobOK, PutJob
  <1>9. job \in [Users -> Jobs] /\ Known \subseteq Issued(started)
    BY DEF IInv, Typed, Numbered
  <1>10. PutOK(srv, k, u, published)
    <2>1. SUFFICES ASSUME kind = "put" PROVE PutOK(srv, k, u, published)
      BY <1>6 DEF PutOK
    <2>2. d \notin published
      BY <1>7, <1>9, <2>1 DEF Known
    <2>3. ~Done(k)
      BY <1>6 DEF Done
    <2>. QED  BY <1>6, <1>7, <2>1, <2>2, <2>3 DEF PutOK, PutFailed, PutSends, PutInstalls
  <1>11. CatOK(srv, k, u, published)
    BY <1>6 DEF CatOK, Begun
  <1>12. job'[u] = k /\ \A w \in Users \ {u} : job'[w] = job[w]
    BY <1>3, <1>9 DEF Starts
  <1>13. \A w \in Putting' : \/ w \in Putting /\ job'[w].file = job[w].file
                             \/ w = u /\ kind = "put" /\ job'[w].file = d
    BY <1>6, <1>12 DEF Putting
  <1>14. Numbered'
    <2>1. \A c \in Known' : c \in Known \/ (kind = "put" /\ c = d)
      BY <1>3, <1>13 DEF Known, Starts
    <2>2. Issued(started) \subseteq Issued(started + 1) /\ \A c \in Issued(started) : Number(c) \in 0..started
      BY <1>4, IssuedAre
    <2>3. Known' \subseteq Issued(started + 1)
      BY <1>7, <1>9, <2>1, <2>2
    <2>4. Issued(started)' = Issued(started + 1)
      BY <1>4 DEF Issued
    <2>5. started + 1 \notin 0..started
      BY <1>4
    <2>6. \A c, e \in Known' : Number(c) = Number(e) => c = e
      BY <1>7, <1>9, <2>1, <2>2, <2>5 DEF IInv, Numbered
    <2>7. \A w, x \in Putting' : job'[w].file = job'[x].file => w = x
      <3>1. \A w \in Putting : job[w].file \in Issued(started)
        BY <1>9 DEF Known
      <3>. QED  BY <1>7, <1>13, <3>1 DEF IInv, Numbered
    <2>8. acked' \subseteq published'
      BY <1>3, <1>4 DEF IInv, Numbered, Starts
    <2>. QED  BY <2>3, <2>4, <2>6, <2>7, <2>8 DEF Numbered
  <1>15. started' \in 0..MaxJobs
    BY <1>4
  <1>. QED  BY <1>3, <1>8, <1>10, <1>11, <1>14, <1>15, ProgramKeeps

(* The next request of a put *)
NextSent(j) == [[j EXCEPT !.ran = FALSE, !.replies = {}] EXCEPT !.pos = @ + 1]

WasSent(s, u, j, P, k) == /\ Ready(s, u, j, P) /\ j.kind = "put" /\ j.pos < Len(j.file)
                          /\ \E reply \in j.replies : reply.kind = "ok"
                          /\ k = NextSent(j)

LEMMA PutContinued ==
    ASSUME NEW s, NEW u \in Users, NEW j, NEW P, NEW k, WasSent(s, u, j, P, k)
    PROVE  JobOK(k) /\ PutOK(s, k, u, P) /\ k.kind = "put" /\ k.file = j.file
  <1>. Ready(s, u, j, P) /\ j.kind = "put" /\ j.pos < Len(j.file) /\ k = NextSent(j)
    BY DEF WasSent
  <1>1. /\ j \in Jobs /\ j.file \in Versions /\ Len(j.file) \in Nat \ {0}
        /\ j.pos \in Nat /\ j.failed \in BOOLEAN /\ PutFailed(s, j, u) /\ PutSends(s, j, u, P)
    BY PutReady
  <1>2. /\ k.kind = "put" /\ k.file = j.file /\ k.pos = j.pos + 1 /\ ~k.ran /\ k.replies = {}
        /\ k.failed = j.failed /\ k.got = j.got
    BY <1>1 DEF Jobs, NextSent
  <1>3. k \in Jobs
    <2>1. PICK pos \in Nat : pos = j.pos + 1
      BY <1>1
    <2>2. k = [[j EXCEPT !.ran = FALSE, !.replies = {}] EXCEPT !.pos = pos]
      BY <1>1, <2>1 DEF Jobs, NextSent
    <2>. QED  BY <1>1, <2>2 DEF Jobs
  <1>4. Len(j.got) \in Nat
    BY <1>1 DEF Jobs
  <1>5. JobOK(k)
    <2>1. PutJob(k)
      BY <1>1, <1>2 DEF PutJob
    <2>2. k.pos <= Len(k.file) + Len(k.got)
      <3>1. PICK pos \in Nat, m \in Nat, n \in Nat : pos = j.pos /\ m = Len(j.file) /\ n = Len(j.got)
        BY <1>1, <1>4
      <3>2. pos < m
        BY <3>1
      <3>3. pos + 1 <= m + n
        BY <3>2
      <3>. QED  BY <1>2, <3>1, <3>3
    <2>. QED  BY <1>2, <1>3, <2>1, <2>2 DEF JobOK
  <1>6. Done(j) /\ ~Done(k)
    BY <1>2 DEF Done, WasSent
  <1>7. ~j.failed => Exists(s, Temp(u)) /\ Holds(s, u) = SubSeq(j.file, 1, j.pos + 1)
    BY <1>1, <1>6 DEF PutSends, Sent
  <1>8. j.file \notin P
    BY <1>1 DEF PutSends
  <1>9. PutFailed(s, k, u)
    BY <1>1, <1>2 DEF PutFailed
  <1>10. PutSends(s, k, u, P)
    BY <1>1, <1>2, <1>6, <1>7, <1>8 DEF PutSends, Sent
  <1>11. PutInstalls(s, k, u, P)
    <2>1. SUFFICES ASSUME k.pos = Len(k.file), ~k.failed
                   PROVE  Exists(s, Temp(u)) /\ Holds(s, u) = k.file
      BY <1>2, <1>6, <1>8 DEF PutInstalls
    <2>2. SubSeq(j.file, 1, Len(j.file)) = j.file
      <3>1. PICK d \in Seq(Blocks) : d = j.file
        BY <1>1, VersionType
      <3>. QED  BY <3>1
    <2>. QED  BY <1>2, <1>7, <2>1, <2>2
  <1>. QED  BY <1>2, <1>5, <1>9, <1>10, <1>11 DEF PutOK

(* The next request of another program, after a block *)
NextWanted(j, block) == [[j EXCEPT !.ran = FALSE, !.replies = {}] EXCEPT
                            !.pos = @ + Len(block), !.got = @ \o block, !.eof = block = <<>>]

WasWanted(s, u, j, P, block, k) == /\ Ready(s, u, j, P) /\ j.kind # "put"
                                   /\ \E reply \in j.replies : reply.kind = "data" /\ reply.block = block
                                   /\ k = NextWanted(j, block)

LEMMA DataContinued ==
    ASSUME NEW s, NEW u \in Users, NEW j, NEW P, NEW block, NEW k, WasWanted(s, u, j, P, block, k)
    PROVE  JobOK(k) /\ CatOK(s, k, u, P) /\ k.kind = j.kind
  <1>. Ready(s, u, j, P) /\ j.kind # "put" /\ k = NextWanted(j, block)
    BY DEF WasWanted
  <1>1. /\ j \in Jobs /\ j.pos <= Len(j.file) + Len(j.got) /\ (j.kind = "cat" => j.pos = Len(j.got))
        /\ (j.kind = "none" => j.replies = {}) /\ CatOK(s, j, u, P) /\ P \subseteq Versions
    BY DEF Ready, JobOK
  <1>2. PICK reply \in j.replies : reply.kind = "data" /\ reply.block = block
    BY DEF WasWanted
  <1>3. block \in Seq(Blocks) /\ Len(block) \in Nat
    <2>1. reply \in Replies
      BY <1>1 DEF Jobs
    <2>2. block = <<>> \/ \E b \in Blocks : block = <<b>>
      BY <1>2, <2>1 DEF Replies
    <2>3. \A b \in Blocks : <<b>> \in Seq(Blocks) /\ Len(<<b>>) = 1
      OBVIOUS
    <2>4. <<>> \in Seq(Blocks) /\ Len(<<>>) = 0
      OBVIOUS
    <2>. QED  BY <2>2, <2>3, <2>4
  <1>4. /\ j.got \in Seq(Blocks) /\ j.file \in Seq(Blocks) /\ j.pos \in Nat
        /\ Len(j.got) \in Nat /\ Len(j.file) \in Nat
    BY <1>1 DEF Jobs
  <1>5. PICK got \in Seq(Blocks) : got = j.got \o block /\ Len(got) = Len(j.got) + Len(block)
    BY <1>3, <1>4, ConcatProperties
  <1>6. PICK pos \in Nat : pos = j.pos + Len(block)
    BY <1>3, <1>4
  <1>7. PICK eof \in BOOLEAN : eof <=> block = <<>>
    OBVIOUS
  <1>8. k = [[j EXCEPT !.ran = FALSE, !.replies = {}] EXCEPT !.pos = pos, !.got = got, !.eof = eof]
    BY <1>1, <1>2, <1>5, <1>6, <1>7 DEF Jobs, NextWanted
  <1>9. /\ k.kind = j.kind /\ k.file = j.file /\ k.pos = pos /\ k.got = got /\ k.eof = eof
        /\ k.replies = {} /\ k.steady = j.steady
    BY <1>1, <1>8 DEF Jobs
  <1>10. k \in Jobs
    BY <1>1, <1>8 DEF Jobs
  <1>11. JobOK(k)
    <2>1. PICK m \in Nat, n \in Nat, x \in Nat : m = Len(j.file) /\ n = Len(j.got) /\ x = Len(block)
      BY <1>3, <1>4
    <2>2. PICK old \in Nat : old = j.pos
      BY <1>4
    <2>3. old <= m + n /\ (j.kind = "cat" => old = n) /\ pos = old + x
      BY <1>1, <1>6, <2>1, <2>2
    <2>4. pos <= m + (n + x) /\ (j.kind = "cat" => pos = n + x)
      BY <2>3
    <2>5. k.pos <= Len(k.file) + Len(k.got) /\ (k.kind = "cat" => k.pos = Len(k.got))
      BY <1>5, <1>9, <2>1, <2>4
    <2>. QED  BY <1>9, <1>10, <2>5 DEF JobOK, PutJob
  <1>12. CatOK(s, k, u, P)
    <2>1. SUFFICES ASSUME k.kind = "cat", k.steady PROVE \E d \in P : Reads(s, u, d) /\ Printed(k, d)
      BY DEF CatOK
    <2>2. Begun(j)
      BY <1>2 DEF Begun
    <2>3. PICK d \in P : Reads(s, u, d) /\ Printed(j, d)
      BY <1>1, <1>9, <2>1, <2>2 DEF CatOK
    <2>4. d \in Seq(Blocks)
      BY <1>1, <2>3, VersionType
    <2>5. block = Piece(d, j.pos) /\ j.pos <= Len(d) /\ j.got = SubSeq(d, 1, j.pos)
      BY <1>2, <2>3 DEF Printed
    <2>6. PICK old \in Nat : old = j.pos
      BY <1>4
    <2>7. pos <= Len(d) /\ got = SubSeq(d, 1, pos) /\ (block = <<>> => pos = Len(d))
      <3>1. old <= Len(d) /\ pos = old + Len(Piece(d, old)) /\ got = SubSeq(d, 1, old) \o Piece(d, old)
        BY <1>5, <1>6, <2>5, <2>6
      <3>2. got = SubSeq(d, 1, pos) /\ pos <= Len(d) /\ (Piece(d, old) = <<>> => pos = Len(d))
        BY <2>4, <3>1, NextBlock
      <3>. QED  BY <2>5, <2>6, <3>2
    <2>. QED  BY <1>7, <1>9, <2>3, <2>7 DEF Printed
  <1>. QED  BY <1>9, <1>11, <1>12

(* A put that is told of success has put its version under the name. *)
LEMMA ToldPublished ==
    ASSUME NEW s, NEW u \in Users, NEW j, NEW P, Ready(s, u, j, P), NEW reply \in j.replies, reply.kind = "ok",
           Command(j) = "INSTALL", ~j.failed
    PROVE  j.file \in P
  <1>1. j \in Jobs /\ (j.kind = "none" => j.replies = {})
    BY DEF Ready, JobOK
  <1>2. j.kind \in {"put", "cancel", "cat", "get", "grab", "del"}
    BY <1>1 DEF Jobs
  <1>3. j.kind = "put" /\ ~(j.pos < Len(j.file))
    BY <1>2 DEF Command
  <1>4. /\ PutInstalls(s, j, u, P) /\ j.pos \in Nat /\ j.pos <= Len(j.file) /\ Len(j.file) \in Nat
    BY <1>3, PutReady
  <1>5. j.pos = Len(j.file) /\ Done(j)
    BY <1>3, <1>4 DEF Done
  <1>. QED  BY <1>4, <1>5 DEF PutInstalls

LEMMA ReceiveKeeps == ASSUME IInv, NEW u \in Users, Receive(u) PROVE IInv'
  <1>1. PICK j, reply :
           /\ j = job[u] /\ reply \in job[u].replies /\ Accepted(j, reply)
           /\ job' = [job EXCEPT ![u] = Continued(@, reply)]
           /\ acked' = IF reply.kind = "ok" /\ Command(j) = "INSTALL" /\ ~j.failed
                       THEN acked \cup {j.file} ELSE acked
    <2>1. PICK reply \in job[u].replies :
             /\ Accepted(job[u], reply)
             /\ job' = [job EXCEPT ![u] = Continued(@, reply)]
             /\ acked' = IF reply.kind = "ok" /\ Command(job[u]) = "INSTALL" /\ ~job[u].failed
                         THEN acked \cup {job[u].file} ELSE acked
      BY DEF Receive
    <2>. QED  BY <2>1
  <1>2. PICK k : k = Continued(j, reply)
    OBVIOUS
  <1>3. Ready(srv, u, j, published) /\ job \in [Users -> Jobs] /\ started \in 0..MaxJobs
    BY <1>1, InvReady DEF IInv, Typed
  <1>4. Starts(u, k) /\ started' = started
    BY <1>1, <1>2, <1>3 DEF Receive, Starts
  <1>5. acked' \subseteq published
    <2>1. acked \subseteq published
      BY DEF IInv, Numbered
    <2>2. reply.kind = "ok" /\ Command(j) = "INSTALL" /\ ~j.failed => j.file \in published
      BY <1>1, <1>3, ToldPublished
    <2>. QED  BY <1>1, <2>1, <2>2
  <1>6. /\ j \in Jobs /\ reply \in j.replies /\ reply \in Replies
        /\ (j.kind = "put" => reply.kind # "data") /\ j.kind # "none"
    <2>1. JobOK(j)
      BY <1>3 DEF Ready
    <2>. QED  BY <1>1, <2>1 DEF JobOK, PutJob, Jobs
  <1>7. reply.kind \in {"ok", "error", "data"} /\ j.kind \in {"put", "cancel", "cat", "get", "grab", "del"}
    BY <1>6 DEF Replies, Jobs
  <1>8. CASE Command(j) = "UP_LOAD" /\ reply.kind # "error"
    <2>1. j.kind = "put" /\ j.pos < Len(j.file)
      BY <1>7, <1>8 DEF Command
    <2>2. reply.kind = "ok"
      BY <1>6, <1>7, <1>8, <2>1
    <2>3. k = NextSent(j)
      BY <1>2, <1>8 DEF Continued, NextSent
    <2>4. JobOK(k) /\ PutOK(srv, k, u, published) /\ k.kind = "put" /\ k.file = j.file
      <3>1. WasSent(srv, u, j, published, k)
        BY <1>3, <1>6, <2>1, <2>2, <2>3 DEF WasSent
      <3>. QED  BY <3>1, PutContinued
    <2>5. CatOK(srv, k, u, published)
      BY <2>4 DEF CatOK
    <2>6. Numbered'
      BY <1>1, <1>4, <1>5, <2>1, <2>4, NumbersStay
    <2>. QED  BY <1>3, <1>4, <2>4, <2>5, <2>6, ProgramKeeps
  <1>9. CASE Command(j) # "UP_LOAD" /\ reply.kind = "data"
    <2>1. j.kind # "put"
      BY <1>6, <1>9
    <2>2. k = NextWanted(j, reply.block)
      BY <1>2, <1>9 DEF Continued, NextWanted
    <2>3. JobOK(k) /\ CatOK(srv, k, u, published) /\ k.kind = j.kind
      <3>1. WasWanted(srv, u, j, published, reply.block, k)
        BY <1>3, <1>6, <1>9, <2>1, <2>2 DEF WasWanted
      <3>. QED  BY <3>1, DataContinued
    <2>4. PutOK(srv, k, u, published)
      BY <2>1, <2>3 DEF PutOK
    <2>5. Numbered'
      BY <1>4, <1>5, <2>1, <2>3, NumbersStay
    <2>. QED  BY <1>3, <1>4, <2>3, <2>4, <2>5, ProgramKeeps
  <1>10. CASE reply.kind = "error" \/ (Command(j) # "UP_LOAD" /\ reply.kind = "ok")
    <2>1. k = Idle
      BY <1>2, <1>10 DEF Continued
    <2>. QED  BY <1>4, <1>5, <2>1, EndKeeps
  <1>. QED  BY <1>7, <1>8, <1>9, <1>10
-----------------------------------------------------------------------------
LEMMA RunKeeps == ASSUME Orderly, IInv, NEW u \in Users, ServerRun(u) PROVE IInv'
  <1>1. PICK r \in Run(u, TRUE) : Waiting(u) /\ ~job[u].ran /\ Answer(u, r)
    <2>1. PICK room \in BOOLEAN : /\ Waiting(u) /\ ~job[u].ran
                                  /\ room \/ "full" \in Faults
                                  /\ \E r \in Run(u, room) : Answer(u, r)
      BY DEF ServerRun
    <2>2. room = TRUE
      BY <2>1 DEF Orderly
    <2>. QED  BY <2>1, <2>2
  <1>2. Runs(srv, r, u, job[u], published)
    BY <1>1, RunRuns
  <1>. QED  BY <1>1, <1>2, AnswerKeeps

LEMMA RepeatKeeps == ASSUME IInv, NEW u \in Users, ServerRepeat(u) PROVE IInv'
  <1>1. PICK r \in RunOld(u) : Waiting(u) /\ job[u].ran /\ Answer(u, r)
    BY DEF ServerRepeat
  <1>2. Runs(srv, r, u, job[u], published)
    BY <1>1, RepeatRuns
  <1>. QED  BY <1>1, <1>2, AnswerKeeps

(* The server ends and another is started: nobody sees anything of it but  *)
(* who prints.                                                             *)
Anew(j, steady) == [j EXCEPT !.ran = FALSE, !.steady = steady]

LEMMA RestartedIs ==
    ASSUME NEW j, JobOK(j), NEW steady \in BOOLEAN, NEW k, k = Anew(j, steady)
    PROVE  JobOK(k) /\ SamePut(j, k) /\ k.steady = steady /\ k.kind = j.kind /\ k.file = j.file
  <1>1. j \in Jobs
    BY DEF JobOK
  <1>2. /\ k.kind = j.kind /\ k.file = j.file /\ k.pos = j.pos /\ k.eof = j.eof /\ k.ran = FALSE
        /\ k.replies = j.replies /\ k.got = j.got /\ k.failed = j.failed /\ k.steady = steady
    BY <1>1 DEF Jobs, Anew
  <1>3. k \in Jobs
    BY <1>1 DEF Jobs, Anew
  <1>4. JobOK(k)
    BY <1>2, <1>3 DEF JobOK, PutJob
  <1>. QED  BY <1>2, <1>4 DEF SamePut, Done

LEMMA RestartIs ==
    ASSUME Orderly, IInv, ServerRestart
    PROVE  /\ srv' = Reclaimed(ShutDown(srv)) /\ published' = published /\ handed' = handed
           /\ acked' = acked /\ started' = started
           /\ job' \in [Users -> Jobs]
           /\ \A u \in Users : /\ JobOK(job'[u]) /\ SamePut(job[u], job'[u])
                               /\ job'[u].steady => job[u].kind # "cat"
                               /\ job'[u].kind = job[u].kind /\ job'[u].file = job[u].file
  <1>1. srv' = Reclaimed(ShutDown(srv))
    BY DEF ServerRestart, Orderly
  <1>2. published' = published /\ handed' = handed /\ acked' = acked /\ started' = started
    BY DEF ServerRestart
  <1>3. job' = [u \in Users |-> [job[u] EXCEPT !.ran = FALSE, !.steady = job[u].kind # "cat"]]
    BY DEF ServerRestart
  <1>4. ASSUME NEW u \in Users
        PROVE  /\ JobOK(job'[u]) /\ SamePut(job[u], job'[u])
               /\ job'[u].steady => job[u].kind # "cat"
               /\ job'[u].kind = job[u].kind /\ job'[u].file = job[u].file
    <2>1. PICK j, k : j = job[u] /\ k = job'[u] /\ JobOK(j)
      BY DEF IInv, Typed
    <2>2. k = [j EXCEPT !.ran = FALSE, !.steady = j.kind # "cat"]
      BY <1>3, <2>1
    <2>3. PICK b \in BOOLEAN : b <=> j.kind # "cat"
      OBVIOUS
    <2>4. k = Anew(j, b)
      BY <2>2, <2>3 DEF Anew
    <2>5. JobOK(k) /\ SamePut(j, k) /\ k.steady = b /\ k.kind = j.kind /\ k.file = j.file
      BY <2>1, <2>4, RestartedIs
    <2>. QED  BY <2>1, <2>3, <2>5
  <1>5. job' \in [Users -> Jobs]
    BY <1>3, <1>4 DEF JobOK
  <1>. QED  BY <1>1, <1>2, <1>4, <1>5

LEMMA RestartQuiet ==
    ASSUME Sound(srv, Blocks), NEW t, t = Reclaimed(ShutDown(srv)) PROVE Sound(t, Blocks) /\ Quiet(srv, t)
  <1>1. PICK s, d : s = srv /\ d = ShutDown(s) /\ t = Reclaimed(d) /\ Sound(s, Blocks)
    OBVIOUS
  <1>2. Sound(d, Blocks) /\ Quiet(s, d)
    BY <1>1, ShutDownKeeps
  <1>3. Sound(t, Blocks) /\ Quiet(d, t)
    BY <1>1, <1>2, ReclaimedKeeps
  <1>. QED  BY <1>1, <1>2, <1>3, QuietTwice

LEMMA RestartKeeps == ASSUME Orderly, IInv, ServerRestart PROVE IInv'
  <1>1. PICK s, P, t, jobs : s = srv /\ P = published /\ t = srv' /\ jobs = job'
    OBVIOUS
  <1>2. /\ P = published' /\ handed' = handed /\ acked' = acked /\ started' = started
        /\ jobs \in [Users -> Jobs]
        /\ \A u \in Users : /\ JobOK(jobs[u]) /\ SamePut(job[u], jobs[u])
                            /\ jobs[u].steady => job[u].kind # "cat"
                            /\ jobs[u].kind = job[u].kind /\ jobs[u].file = job[u].file
    BY <1>1, RestartIs
  <1>3. Sound(s, Blocks) /\ NamesKnown(s, P) /\ ReadsKnown(s, P)
    BY <1>1 DEF IInv, Typed
  <1>4. Sound(t, Blocks) /\ Quiet(s, t)
    BY <1>1, <1>3, RestartIs, RestartQuiet
  <1>5. Typed'
    <2>1. \A u \in Users : AtEnd(t, u)
      BY <1>1, <1>4 DEF Quiet, SameTemps, IInv, Typed
    <2>2. started' \in 0..MaxJobs
      BY <1>2 DEF IInv, Typed
    <2>. QED  BY <1>1, <1>2, <1>4, <2>1, <2>2 DEF Typed
  <1>6. Numbered'
    <2>1. Putting' = Putting
      BY <1>1, <1>2 DEF Putting
    <2>2. Known' = Known
      BY <1>1, <1>2, <2>1 DEF Known, Putting
    <2>3. Issued(started)' = Issued(started)
      BY <1>2 DEF Issued
    <2>4. \A u, w \in Putting : (job[u].file = job[w].file)' => u = w
      BY <1>1, <1>2 DEF IInv, Numbered, Putting
    <2>5. acked' \subseteq published'
      BY <1>1, <1>2 DEF IInv, Numbered
    <2>. QED  BY <2>1, <2>2, <2>3, <2>4, <2>5 DEF IInv, Numbered
  <1>7. NamesKnown(t, P) /\ \A h \in handed : HandedOK(t, h, P)
    <2>1. \A p \in Visible : (Exists(t, p) <=> Exists(s, p)) /\ Shows(t, p) = Shows(s, p)
      BY <1>4 DEF Quiet, SameNames
    <2>2. \A h \in handed : HandedOK(s, h, P)
      BY <1>1 DEF IInv
    <2>3. NamesKnown(t, P)
      BY <1>3, <2>1 DEF NamesKnown
    <2>4. \A h \in handed : HandedOK(t, h, P)
      BY <2>1, <2>2 DEF HandedOK
    <2>. QED  BY <2>3, <2>4
  <1>8. ReadsKnown(t, P)
    BY <1>3, <1>4 DEF Quiet, NoNewReads, ReadsKnown
  <1>9. ASSUME NEW u \in Users PROVE PutOK(t, jobs[u], u, P) /\ CatOK(t, jobs[u], u, P)
    <2>1. PutOK(s, job[u], u, P) /\ SameTemps(s, t, Users)
      BY <1>1, <1>4 DEF Quiet, IInv
    <2>2. PutOK(t, jobs[u], u, P)
      BY <1>2, <2>1, PutStays
    <2>3. CatOK(t, jobs[u], u, P)
      BY <1>2 DEF CatOK
    <2>. QED  BY <2>2, <2>3
  <1>. QED  BY <1>1, <1>2, <1>5, <1>6, <1>7, <1>8, <1>9 DEF IInv
-----------------------------------------------------------------------------
LEMMA InitInv == ASSUME Init PROVE IInv
  <1>1. PICK n \in Lengths, D \in SUBSET Users :
           /\ srv = [deleters |-> D,
                     dir |-> [p \in Paths |-> IF p = Target THEN 1 ELSE NoFile],
                     data |-> [f \in Files |-> IF f = 1 THEN Version(0, n) ELSE <<>>],
                     slots |-> [i \in Slots |-> Empty], next |-> 0, damaged |-> FALSE]
           /\ job = [u \in Users |-> Idle] /\ started = 0
           /\ published = {Version(0, n)} /\ acked = {} /\ handed = {}
    BY DEF Init
  <1>2. PICK s, d : s = srv /\ d = Version(0, n)
    OBVIOUS
  <1>3. n \in Nat \ {0} /\ MaxJobs \in Nat
    BY TransferAssumption
  <1>4. d \in Versions /\ d \in Issued(0) /\ d \in Seq(Blocks)
    <2>1. d \in Versions /\ d \in Issued(0)
      BY <1>2, <1>3 DEF Versions, Issued
    <2>. QED  BY <2>1, VersionType
  <1>5. 1 \in Files /\ 0 \in Slots
    <2>1. Cardinality(Users) \in Nat /\ Size \in Nat \ {0}
      BY FileStoreAssumption, FS_CardinalityType
    <2>. QED  BY <2>1 DEF Files, Slots
  <1>6. /\ s.deleters = D /\ s.next = 0 /\ s.damaged = FALSE
        /\ s.dir = [p \in Paths |-> IF p = Target THEN 1 ELSE NoFile]
        /\ s.data = [f \in Files |-> IF f = 1 THEN d ELSE <<>>]
        /\ s.slots = [i \in Slots |-> Empty]
    BY <1>1, <1>2
  <1>7. s \in States(Blocks)
    <2>1. s.dir \in [Paths -> Files \cup {NoFile}]
      BY <1>5, <1>6
    <2>2. s.data \in [Files -> Seq(Blocks)]
      <3>1. <<>> \in Seq(Blocks)
        BY EmptySeq
      <3>. QED  BY <1>4, <1>6, <3>1
    <2>3. s.slots \in [Slots -> Entries(Blocks)]
      BY <1>6, EmptyEntry
    <2>4. s = [deleters |-> s.deleters, dir |-> s.dir, data |-> s.data, slots |-> s.slots, next |-> s.next,
               damaged |-> s.damaged]
      BY <1>1, <1>2
    <2>. QED  BY <1>5, <1>6, <2>1, <2>2, <2>3, <2>4 DEF States
  <1>8. \A i \in Slots : /\ s.slots[i] = Empty
                         /\ \A u \in Users : s.slots[i].key \notin {Temp(u), Grabbed(u), Reading(u)}
    BY <1>6, Names
  <1>9. Sound(s, Blocks)
    <2>1. Links(s)
      BY <1>6 DEF Links
    <2>2. OneSlot(s)
      BY <1>8 DEF OneSlot
    <2>3. \A i \in Slots : EntryOK(s, s.slots[i])
      BY <1>8 DEF EntryOK, Uploading, Unwritten, Shut
    <2>. QED  BY <1>7, <2>1, <2>2, <2>3 DEF Sound
  <1>10. \A u \in Users : AtEnd(s, u)
    BY <1>8 DEF AtEnd
  <1>11. \A u \in Users : job[u] = Idle /\ JobOK(Idle) /\ PutOK(s, Idle, u, published)
                          /\ CatOK(s, Idle, u, published) /\ Idle.kind = "none"
    BY <1>1, IdleOK
  <1>12. Typed
    <2>1. job \in [Users -> Jobs]
      BY <1>1, <1>11 DEF JobOK
    <2>2. started \in 0..MaxJobs
      BY <1>1, <1>3
    <2>3. \A u \in Users : JobOK(job[u])
      BY <1>11
    <2>. QED  BY <1>2, <1>9, <1>10, <2>1, <2>2, <2>3 DEF Typed
  <1>13. Numbered
    <2>1. Putting = {}
      BY <1>11 DEF Putting
    <2>2. Known = {d}
      BY <1>1, <1>2, <2>1 DEF Known
    <2>. QED  BY <1>1, <1>4, <2>1, <2>2 DEF Numbered
  <1>14. NamesKnown(s, published) /\ ReadsKnown(s, published)
    <2>1. \A p \in Visible : Exists(s, p) => p = Target
      BY <1>6, Kinds DEF Exists
    <2>2. Shows(s, Target) = d
      <3>1. Target \in Paths
        BY Names
      <3>. QED  BY <1>5, <1>6, <3>1 DEF Shows, Exists, NoFile
    <2>3. NamesKnown(s, published)
      BY <1>1, <1>2, <2>1, <2>2 DEF NamesKnown
    <2>4. ReadsKnown(s, published)
      BY <1>8 DEF ReadsKnown, Reads
    <2>. QED  BY <2>3, <2>4
  <1>. QED  BY <1>1, <1>2, <1>11, <1>12, <1>13, <1>14 DEF IInv

LEMMA Inductive == ASSUME Orderly, IInv, [Next]_vars PROVE IInv'
  <1>1. CASE UNCHANGED vars
    <2>1. Typed'
      BY <1>1 DEF IInv, Typed, vars
    <2>2. Known' = Known /\ Putting' = Putting
      BY <1>1 DEF Known, Putting, vars
    <2>3. Numbered'
      BY <1>1, <2>2 DEF IInv, Numbered, vars
    <2>. QED  BY <1>1, <2>1, <2>3 DEF IInv, vars
  <1>2. ASSUME NEW u \in Users, ServerRun(u) PROVE IInv'
    BY <1>2, RunKeeps
  <1>3. ASSUME NEW u \in Users, ServerRepeat(u) PROVE IInv'
    BY <1>3, RepeatKeeps
  <1>4. ASSUME NEW u \in Users, Start(u) PROVE IInv'
    BY <1>4, StartKeeps
  <1>5. ASSUME NEW u \in Users, Receive(u) PROVE IInv'
    BY <1>5, ReceiveKeeps
  <1>6. ASSUME NEW u \in Users, Leave(u) PROVE IInv'
    BY <1>6, LeaveKeeps
  <1>7. ASSUME NEW u \in Users, Interrupt(u) PROVE IInv'
    BY <1>7, InterruptKeeps
  <1>8. CASE ServerRestart
    BY <1>8, RestartKeeps
  <1>. QED  BY <1>1, <1>2, <1>3, <1>4, <1>5, <1>6, <1>7, <1>8 DEF Next

THEOREM Invariance == ASSUME Orderly PROVE Spec => []IInv
  <1>1. Init => IInv
    BY InitInv
  <1>2. IInv /\ [Next]_vars => IInv'
    BY Inductive
  <1>. QED  BY <1>1, <1>2, PTL DEF Spec

(* The state is what the server and the programs may have, for any number  *)
(* of users and requests: a directory entry is a file or nothing, an entry *)
(* of fpcache has a file and its blocks, a position lies in what was sent  *)
(* or received.                                                            *)
THEOREM TypesHold == ASSUME Orderly PROVE Spec => []TypeOK
  <1>1. ASSUME IInv PROVE TypeOK
    <2>1. srv \in States(Blocks) /\ \A u \in Users : JobOK(job[u])
      BY <1>1 DEF IInv, Typed, Sound
    <2>2. \A i \in Slots : srv.slots[i] \in Entries(Blocks)
      BY <2>1 DEF States
    <2>3. Keys = KeySet
      BY DEF Keys, KeySet
    <2>4. \A i \in Slots : /\ srv.slots[i].key \in Keys
                           /\ srv.slots[i].file \in Files \cup {NoFile}
                           /\ srv.slots[i].pend \in Seq(Blocks)
      BY <2>2, <2>3 DEF Entries
    <2>5. ASSUME NEW u \in Users
          PROVE  job[u].pos \in 0..Len(job[u].file) + Len(job[u].got) /\ job[u].replies \subseteq Replies
      <3>1. PICK j : j = job[u] /\ JobOK(j)
        BY <2>1
      <3>2. /\ j.pos \in Nat /\ j.file \in Seq(Blocks) /\ j.got \in Seq(Blocks) /\ j.replies \subseteq Replies
            /\ j.pos <= Len(j.file) + Len(j.got)
        BY <3>1 DEF JobOK, Jobs
      <3>3. Len(j.file) \in Nat /\ Len(j.got) \in Nat
        BY <3>2
      <3>4. \A a, b, c \in Nat : a <= b + c => a \in 0..b + c
        OBVIOUS
      <3>5. j.pos \in 0..Len(j.file) + Len(j.got)
        BY <3>2, <3>3, <3>4, Zenon
      <3>. QED  BY <3>1, <3>2, <3>5, Zenon
    <2>6. published \subseteq Versions /\ acked \subseteq Versions
      <3>1. Known \subseteq Versions
        <4>1. started \in 0..MaxJobs /\ Known \subseteq Issued(started)
          BY <1>1 DEF IInv, Typed, Numbered
        <4>. QED  BY <4>1, IssuedAre
      <3>. QED  BY <1>1, <3>1 DEF IInv, Numbered, Known
    <2>7. srv.dir \in [Paths -> Files \cup {NoFile}] /\ srv.data \in [Files -> Seq(Blocks)]
          /\ srv.next \in Slots /\ srv.deleters \subseteq Users
      BY <2>1 DEF States
    <2>. QED  BY <2>4, <2>5, <2>6, <2>7 DEF TypeOK, Replies
  <1>. QED  BY <1>1, Invariance, PTL

(* While a put sends its blocks its temporary file is the version up to    *)
(* the block asked for, whatever was lost, repeated, given up on the same  *)
(* port, thrown out of the cache by others or divided by a restart.        *)
THEOREM UploadsTracked == ASSUME Orderly PROVE Spec => []UploadTracked
  <1>1. ASSUME IInv PROVE UploadTracked
    <2>1. SUFFICES ASSUME NEW u \in Users, NEW j, j = job[u], j.kind = "put", j.pos < Len(j.file),
                          j.pos > 0 \/ j.ran, ~j.failed
                   PROVE  Exists(srv, Temp(u)) /\ Uploaded(u) \in
                             {SubSeq(j.file, 1, n) : n \in (IF j.ran THEN {} ELSE {j.pos}) \cup {j.pos + 1}}
      BY DEF UploadTracked
    <2>2. Uploaded(u) = Holds(srv, u)
      BY DEF Uploaded, Holds
    <2>3. j.pos > 0 \/ Done(j)
      BY <2>1 DEF Done
    <2>4. PutSends(srv, j, u, published)
      BY <1>1, <2>1 DEF IInv, PutOK
    <2>5. Exists(srv, Temp(u)) /\ \E n \in Sent(j) : Holds(srv, u) = SubSeq(j.file, 1, n)
      BY <2>1, <2>3, <2>4 DEF PutSends
    <2>6. Sent(j) \subseteq (IF j.ran THEN {} ELSE {j.pos}) \cup {j.pos + 1}
      BY DEF Sent, Done
    <2>. QED  BY <2>2, <2>5, <2>6
  <1>. QED  BY <1>1, Invariance, PTL

(* A put that server_install() told of success, and none of whose requests *)
(* failed, has put its whole version under the name.                       *)
THEOREM AcksPublished == ASSUME Orderly PROVE Spec => []AckPublished
  <1>1. IInv => AckPublished
    BY DEF IInv, Numbered, AckPublished
  <1>. QED  BY <1>1, Invariance, PTL

(* What is read of a file that stays open in the cache from the first      *)
(* block to the last is one whole version, although others install, delete *)
(* and grab the name meanwhile.                                            *)
THEOREM WholeRead == ASSUME Orderly PROVE Spec => []ReadsWhole
  <1>1. ASSUME IInv PROVE ReadsWhole
    <2>1. SUFFICES ASSUME NEW u \in Users, NEW j, j = job[u], j.kind = "cat", j.eof, j.steady
                   PROVE  j.got \in Versions
      BY DEF ReadsWhole
    <2>2. CatOK(srv, j, u, published) /\ Begun(j)
      BY <1>1, <2>1 DEF IInv, Begun
    <2>3. PICK d \in published : Printed(j, d)
      BY <2>1, <2>2 DEF CatOK
    <2>4. d \in Versions
      BY <1>1, InvReady DEF Ready
    <2>5. d \in Seq(Blocks) /\ j.got = SubSeq(d, 1, Len(d))
      BY <2>1, <2>3, <2>4, VersionType DEF Printed
    <2>6. j.got = d
      BY <2>5
    <2>. QED  BY <2>4, <2>6
  <1>. QED  BY <1>1, Invariance, PTL
-----------------------------------------------------------------------------
(* What a step does to the name and to the history of grabs: an answer     *)
(* moves files, and may hand one to a grab; no other step does anything.   *)
HandsOut(u) == \/ handed' = handed
               \/ /\ Exists(srv', Grabbed(u))
                  /\ handed' = handed \cup {<<u, Number(Shows(srv', Grabbed(u)))>>}
Answered(u) == /\ Moves(srv, srv', u, job[u].file, published, published') /\ HandsOut(u)
               /\ published' # published => job[u].file \in Versions
Unseen == SameNames(srv, srv', Visible) /\ published' = published /\ handed' = handed

LEMMA AnswerMoves ==
    ASSUME IInv, NEW u \in Users, Waiting(u), NEW r, Runs(srv, r, u, job[u], published), Answer(u, r)
    PROVE  Answered(u)
  <1>1. PICK t, Q : \E reply \in Replies : /\ r = [srv |-> t, reply |-> reply]
                                           /\ RunsTo(srv, t, reply, u, job[u], published, Q)
    BY DEF Runs
  <1>2. PICK reply \in Replies : /\ r = [srv |-> t, reply |-> reply]
                                 /\ RunsTo(srv, t, reply, u, job[u], published, Q)
    BY <1>1
  <1>3. PICK s, P, t2 : s = srv /\ P = published /\ t2 = srv'
    OBVIOUS
  <1>4. /\ Effect(s, t, u) /\ Moves(s, t, u, job[u].file, P, Q) /\ (Q # P => job[u].kind = "put")
        /\ job[u].kind \in {"get", "grab"} => GrabbedOK(t, u, reply.block)
    BY <1>2, <1>3 DEF RunsTo
  <1>5. Sound(t, Blocks) /\ P \subseteq Versions /\ JobOK(job[u]) /\ NamesKnown(s, P)
    BY <1>3, <1>4, InvReady DEF Ready, Effect
  <1>6. /\ Quiet(t, t2) /\ published' = P \cup (Named(t2) \cap Versions)
        /\ handed' = IF Command(job[u]) = "GRAB_FILE" /\ reply.block # <<>> /\ ~t.damaged
                     THEN handed \cup {<<u, reply.block[1].version>>} ELSE handed
    BY <1>2, <1>3, <1>5, AnswerIs
  <1>7. SameNames(t, t2, Visible)
    BY <1>6 DEF Quiet
  <1>8. Moves(s, t2, u, job[u].file, P, Q)
    BY <1>4, <1>7, MovesQuiet
  <1>9. Q = P \/ job[u].file \in Versions
    BY <1>4, <1>5 DEF JobOK, PutJob
  <1>10. published' = Q
    BY <1>5, <1>6, <1>8, <1>9, MovesPublished
  <1>11. HandsOut(u)
    <2>1. SUFFICES ASSUME Command(job[u]) = "GRAB_FILE", reply.block # <<>>, ~t.damaged PROVE HandsOut(u)
      BY <1>6 DEF HandsOut
    <2>2. job[u].kind \in {"get", "grab"}
      <3>1. PICK j : j = job[u]
        OBVIOUS
      <3>2. j.kind \in {"put", "cancel", "cat", "get", "grab", "del"}
        BY <1>5, <3>1 DEF JobOK, Jobs, Waiting
      <3>. QED  BY <2>1, <3>1, <3>2 DEF Command
    <2>3. Exists(t, Grabbed(u)) /\ reply.block[1].version = Number(Shows(t, Grabbed(u)))
      BY <1>4, <2>1, <2>2 DEF GrabbedOK
    <2>4. Grabbed(u) \in Visible
      BY Kinds
    <2>5. Exists(t2, Grabbed(u)) /\ Shows(t2, Grabbed(u)) = Shows(t, Grabbed(u))
      BY <1>7, <2>3, <2>4 DEF SameNames
    <2>. QED  BY <1>3, <1>6, <2>1, <2>3, <2>5 DEF HandsOut
  <1>. QED  BY <1>3, <1>8, <1>9, <1>10, <1>11 DEF Answered

LEMMA StepMoves ==
    ASSUME Orderly, IInv, [Next]_vars
    PROVE  Unseen \/ \E u \in Users : Answered(u)
  <1>1. ASSUME NEW u \in Users, ServerRun(u) PROVE Answered(u)
    <2>1. PICK r \in Run(u, TRUE) : Waiting(u) /\ ~job[u].ran /\ Answer(u, r)
      <3>1. PICK room \in BOOLEAN : /\ Waiting(u) /\ ~job[u].ran
                                    /\ room \/ "full" \in Faults
                                    /\ \E r \in Run(u, room) : Answer(u, r)
        BY <1>1 DEF ServerRun
      <3>2. room = TRUE
        BY <3>1 DEF Orderly
      <3>. QED  BY <3>1, <3>2
    <2>2. Runs(srv, r, u, job[u], published)
      BY <2>1, RunRuns
    <2>. QED  BY <2>1, <2>2, AnswerMoves
  <1>2. ASSUME NEW u \in Users, ServerRepeat(u) PROVE Answered(u)
    <2>1. PICK r \in RunOld(u) : Waiting(u) /\ job[u].ran /\ Answer(u, r)
      BY <1>2 DEF ServerRepeat
    <2>2. Runs(srv, r, u, job[u], published)
      BY <2>1, RepeatRuns
    <2>. QED  BY <2>1, <2>2, AnswerMoves
  <1>3. CASE UNCHANGED <<srv, published, handed>>
    BY <1>3 DEF Unseen, SameNames
  <1>4. CASE ServerRestart
    <2>1. Sound(srv, Blocks)
      BY DEF IInv, Typed
    <2>2. Quiet(srv, srv') /\ published' = published /\ handed' = handed
      BY <1>4, <2>1, RestartIs, RestartQuiet
    <2>. QED  BY <2>2 DEF Quiet, Unseen
  <1>. QED  BY <1>1, <1>2, <1>3, <1>4 DEF Next, vars, Start, Receive, Leave, Interrupt

LEMMA OneGrabKept == ASSUME Orderly, IInv, OnlyOneGrab, [Next]_vars PROVE OnlyOneGrab'
  <1>1. IInv'
    BY Inductive
  <1>2. PICK t, Q, H : t = srv' /\ Q = published' /\ H = handed'
    OBVIOUS
  <1>3. /\ NamesKnown(t, Q) /\ (\A h \in H : HandedOK(t, h, Q))
        /\ \A c, d \in Q : Number(c) = Number(d) => c = d
    BY <1>1, <1>2 DEF IInv, Numbered, Known
  <1>4. CASE handed' = handed
    BY <1>4 DEF OnlyOneGrab
  <1>5. ASSUME NEW u \in Users, Exists(srv', Grabbed(u)),
               handed' = handed \cup {<<u, Number(Shows(srv', Grabbed(u)))>>}
        PROVE  OnlyOneGrab'
    <2>1. PICK d : d = Shows(t, Grabbed(u))
      OBVIOUS
    <2>2. Exists(t, Grabbed(u)) /\ d \in Q /\ H = handed \cup {<<u, Number(d)>>} /\ Grabbed(u) \in Visible
      BY <1>2, <1>3, <1>5, <2>1, Kinds DEF NamesKnown
    <2>3. ASSUME NEW h \in H, h[2] = Number(d) PROVE h[1] = u
      <3>1. PICK c \in Q : /\ h[1] \in Users /\ h[2] = Number(c)
                           /\ \A p \in Visible : Exists(t, p) /\ Shows(t, p) = c => p = Grabbed(h[1])
        BY <1>3, <2>3 DEF HandedOK
      <3>2. c = d
        BY <1>3, <2>2, <2>3, <3>1
      <3>3. Grabbed(u) = Grabbed(h[1])
        BY <2>1, <2>2, <3>1, <3>2
      <3>. QED  BY <3>1, <3>3, Names
    <2>4. \A a, b \in H : a[2] = b[2] => a[1] = b[1]
      <3>1. \A a \in H : a \in handed \/ (a[1] = u /\ a[2] = Number(d))
        BY <2>2
      <3>. QED  BY <2>3, <3>1 DEF OnlyOneGrab
    <2>. QED  BY <1>2, <2>4 DEF OnlyOneGrab
  <1>. QED  BY <1>4, <1>5, StepMoves DEF Answered, HandsOut, Unseen

(* Of the programs that grab one version of the file, only one user's are  *)
(* given any of it, however requests are repeated or the server restarted. *)
THEOREM OneGrab == ASSUME Orderly PROVE Spec => []OnlyOneGrab
  <1>1. Init => OnlyOneGrab
    BY DEF Init, OnlyOneGrab
  <1>2. IInv /\ OnlyOneGrab /\ [Next]_vars => OnlyOneGrab'
    BY OneGrabKept
  <1>. QED  BY <1>1, <1>2, Invariance, PTL DEF Spec

LEMMA StoreInit == ASSUME Init PROVE Store!Init
  <1>1. PICK n \in Lengths : /\ srv.dir = [p \in Paths |-> IF p = Target THEN 1 ELSE NoFile]
                             /\ srv.data = [f \in Files |-> IF f = 1 THEN Version(0, n) ELSE <<>>]
                             /\ published = {Version(0, n)}
    BY DEF Init
  <1>2. 1 \in Files /\ Target \in Paths /\ Version(0, n) \in Versions
    <2>1. Cardinality(Users) \in Nat /\ Size \in Nat \ {0} /\ MaxJobs \in Nat
      BY FileStoreAssumption, TransferAssumption, FS_CardinalityType
    <2>. QED  BY <2>1, Names DEF Files, Versions
  <1>3. Content = Version(0, n)
    BY <1>1, <1>2 DEF Content, Exists, NoFile
  <1>. QED  BY <1>1, <1>2, <1>3 DEF Store!Init

LEMMA StoreStep == ASSUME Orderly, IInv, [Next]_vars PROVE [Store!Next]_<<Content, published>>
  <1>1. Target \in Visible
    BY Kinds
  <1>2. Content = Shows(srv, Target) /\ Content' = Shows(srv', Target)
    BY DEF Content, Shows
  <1>3. PICK s, t, P, Q : s = srv /\ t = srv' /\ P = published /\ Q = published'
    OBVIOUS
  <1>4. CASE Unseen
    BY <1>1, <1>2, <1>4 DEF Unseen, SameNames
  <1>5. ASSUME NEW u \in Users, Answered(u) PROVE [Store!Next]_<<Content, published>>
    <2>1. PICK d : d = job[u].file
      OBVIOUS
    <2>2. Moves(s, t, u, d, P, Q) /\ (Q # P => d \in Versions)
      BY <1>3, <1>5, <2>1 DEF Answered
    <2>3. CASE Stay(s, t) /\ Q = P
      <3>1. Shows(t, Target) = Shows(s, Target) \/ Shows(t, Target) = <<>>
        BY <1>1, <2>3 DEF Stay, Shows
      <3>. QED  BY <1>2, <1>3, <2>3, <3>1 DEF Store!Next, Store!Remove
    <2>4. CASE Taken(s, t, u) /\ Q = P
      <3>1. Shows(t, Target) = <<>>
        BY <1>1, <2>4 DEF Taken, Shows
      <3>. QED  BY <1>2, <1>3, <2>4, <3>1 DEF Store!Next, Store!Remove
    <2>5. CASE Installed(s, t, d) /\ d \notin P /\ Q = P \cup {d}
      <3>1. Shows(t, Target) = d /\ d \in Versions \ P
        BY <2>2, <2>5 DEF Installed
      <3>. QED  BY <1>2, <1>3, <2>5, <3>1 DEF Store!Next, Store!Publish
    <2>. QED  BY <2>2, <2>3, <2>4, <2>5 DEF Moves
  <1>. QED  BY <1>4, <1>5, StepMoves

(* The name goes from whole version to whole version, and an old version   *)
(* does not come back: put, grab and rm with their repetitions, their      *)
(* cancellations and the server's restarts implement StoreSpec.            *)
THEOREM TransferRefinesStore == ASSUME Orderly PROVE Spec => StoreRefined
  <1>1. Init => Store!Init
    BY StoreInit
  <1>2. IInv /\ [Next]_vars => [Store!Next]_<<Content, published>>
    BY StoreStep
  <1>. QED  BY <1>1, <1>2, Invariance, PTL DEF Spec, StoreRefined, Store!Spec, Store!vars
=============================================================================
