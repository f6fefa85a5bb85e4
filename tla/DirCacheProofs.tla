--------------------------- MODULE DirCacheProofs ---------------------------
(***************************************************************************)
(* Proofs about DirCache for any directories, flags, sizes of the caches,  *)
(* timeout and settings: the caches stay well typed, commands are judged   *)
(* by rights the directory has or had, and listings show what is in it or  *)
(* was.                                                                    *)
(*                                                                         *)
(* d are directories, v a number of changes and t a time.                  *)
(***************************************************************************)
EXTENDS DirCache, FiniteSetTheorems, WellFoundedInduction, TLAPS

StatSlots == 0..StatSize - 1
ListSlots == 0..ListSize - 1

Made(v) == {<<>>} \cup (Paths \X (1..v))
Files(v, t) == [of : Made(v), version : 0..v, mtime : 0..t \cup {None}]
Dirs(v, t) == [of : Made(v), rights : SUBSET Flags, version : 0..v, mtime : 0..t, file : Files(v, t),
               rightsAt : 0..t, contentAt : 0..t]
Entries(v, t) == [path : Paths \cup {NoPath}, rights : SUBSET Flags, mtime : 0..t, lastcheck : 0..t,
                  of : Made(v), missed : BOOLEAN, masked : BOOLEAN]
Listings(v, t) == [path : Paths \cup {NoPath}, of : Made(v), version : 0..v, mtime : 0..t \cup {None}]
StatCaches(v, t) == [slots : [StatSlots -> Entries(v, t)], next : StatSlots]
ListCaches(v, t) == [slots : [ListSlots -> Listings(v, t)], next : ListSlots]

(* Where the directory listed has another content, that is of the second   *)
(* in which the listing was built, or later.                               *)
Shows(l, d) == \A q \in Paths : d[q].of # <<>> /\ d[q].of = l.of /\ d[q].version # l.version
                                    => l.mtime <= d[q].contentAt

(* Where the directory loaded has other rights, they are of the second of  *)
(* the entry's mtime, or later; and an entry that missed nothing is that   *)
(* of the directory at its path.                                           *)
Tells(e, d) ==
    e.path # NoPath /\ ~e.masked =>
        /\ \A q \in Paths : d[q].of # <<>> /\ d[q].of = e.of /\ d[q].rights # e.rights
                                => e.mtime <= d[q].rightsAt
        /\ ~e.missed =>
               /\ d[e.path].of # <<>> /\ d[e.path].of = e.of
               /\ d[e.path].rights = e.rights \/ d[e.path].rightsAt = e.mtime
               /\ d[e.path].contentAt <= e.mtime

(* Directories: what is there has a mark that nothing else has. *)
Dated(o) == o.rightsAt <= o.mtime /\ o.contentAt <= o.mtime
World(d, v, t) ==
    /\ d \in [Paths -> Dirs(v, t)] /\ d[Home].of # <<>>
    /\ \A p \in Paths : Dated(d[p]) /\ (d[p] # Gone => d[p].of # <<>>) /\ Shows(d[p].file, d)
    /\ \A p, q \in Paths : p # q /\ d[p].of = d[q].of => d[p].of = <<>>

Stats(s, d, v, t) == s \in StatCaches(v, t) /\ \A i \in StatSlots : Tells(s.slots[i], d)
Lists(l, d, v, t) == l \in ListCaches(v, t) /\ \A i \in ListSlots : Shows(l.slots[i], d)

IInv == /\ now \in Times /\ version \in 1..MaxVersion
        /\ World(disk, version, now)
        /\ Stats(stats, disk, version, now)
        /\ Lists(lists, disk, version, now)
-----------------------------------------------------------------------------
(* Records *)

LEMMA Grow ==
    ASSUME NEW v \in Nat, NEW w \in Nat, NEW t \in Nat, NEW u \in Nat, v <= w, t <= u
    PROVE  /\ Made(v) \subseteq Made(w) /\ Files(v, t) \subseteq Files(w, u) /\ Dirs(v, t) \subseteq Dirs(w, u)
           /\ Entries(v, t) \subseteq Entries(w, u) /\ Listings(v, t) \subseteq Listings(w, u)
           /\ StatCaches(v, t) \subseteq StatCaches(w, u) /\ ListCaches(v, t) \subseteq ListCaches(w, u)
  <1>1. 1..v \subseteq 1..w /\ 0..v \subseteq 0..w /\ 0..t \subseteq 0..u
    OBVIOUS
  <1>2. Made(v) \subseteq Made(w)
    BY <1>1 DEF Made
  <1>3. Files(v, t) \subseteq Files(w, u)
    BY <1>1, <1>2 DEF Files
  <1>4. Dirs(v, t) \subseteq Dirs(w, u)
    BY <1>1, <1>2, <1>3 DEF Dirs
  <1>5. Entries(v, t) \subseteq Entries(w, u)
    BY <1>1, <1>2 DEF Entries
  <1>6. Listings(v, t) \subseteq Listings(w, u)
    BY <1>1, <1>2 DEF Listings
  <1>7. StatCaches(v, t) \subseteq StatCaches(w, u)
    BY <1>5 DEF StatCaches
  <1>8. ListCaches(v, t) \subseteq ListCaches(w, u)
    BY <1>6 DEF ListCaches
  <1>. QED  BY <1>2, <1>3, <1>4, <1>5, <1>6, <1>7, <1>8

LEMMA NoFileIs == /\ NoFile.of = <<>> /\ NoFile.version = 0 /\ NoFile.mtime = None
                  /\ \A v, t \in Nat : NoFile \in Files(v, t)
BY DEF NoFile, Files, Made

LEMMA DirectoryIs ==
    ASSUME NEW p \in Paths, NEW v \in Nat \ {0}, NEW rights \in SUBSET Flags, NEW time \in Nat
    PROVE  /\ Directory(p, v, rights, time) \in Dirs(v, time)
           /\ Directory(p, v, rights, time).of = <<p, v>>
           /\ Directory(p, v, rights, time).rights = rights
           /\ Directory(p, v, rights, time).version = v
           /\ Directory(p, v, rights, time).file = NoFile
           /\ Dated(Directory(p, v, rights, time))
           /\ Directory(p, v, rights, time).rightsAt = time
           /\ Directory(p, v, rights, time).contentAt = time
           /\ Directory(p, v, rights, time).mtime = time
  <1>1. v \in 0..v /\ v \in 1..v /\ time <= time /\ time \in 0..time
    OBVIOUS
  <1>2. NoFile \in Files(v, time)
    BY NoFileIs
  <1>3. <<p, v>> \in Made(v)
    BY <1>1 DEF Made
  <1>4. PICK m \in Made(v) : m = <<p, v>>
    BY <1>3
  <1>5. PICK f \in Files(v, time) : f = NoFile
    BY <1>2
  <1>6. Directory(p, v, rights, time) = [of |-> m, rights |-> rights, version |-> v, mtime |-> time,
                                         file |-> f, rightsAt |-> time, contentAt |-> time]
    BY <1>4, <1>5 DEF Directory
  <1>7. PICK o : o = Directory(p, v, rights, time)
    OBVIOUS
  <1>8. o \in Dirs(v, time)
    BY <1>1, <1>4, <1>5, <1>6, <1>7 DEF Dirs
  <1>9. Dated(o)
    BY <1>1, <1>6, <1>7 DEF Dated
  <1>. QED  BY <1>4, <1>5, <1>6, <1>7, <1>8, <1>9

LEMMA GoneIs == /\ Gone.of = <<>> /\ Gone.file = NoFile /\ Gone.rights = {} /\ Dated(Gone)
                /\ \A v, t \in Nat : Gone \in Dirs(v, t)
  <1>1. PICK m, o : m = <<"", 0>> /\ o = Directory("", 0, {}, 0)
    OBVIOUS
  <1>2. o = [of |-> m, rights |-> {}, version |-> 0, mtime |-> 0, file |-> NoFile,
             rightsAt |-> 0, contentAt |-> 0]
    BY <1>1 DEF Directory
  <1>3. Gone = [o EXCEPT !.of = <<>>]
    BY <1>1 DEF Gone
  <1>4. Gone = [of |-> <<>>, rights |-> {}, version |-> 0, mtime |-> 0, file |-> NoFile,
                rightsAt |-> 0, contentAt |-> 0]
    <2>1. PICK n, f : n = <<>> /\ f = NoFile
      OBVIOUS
    <2>2. o \in [of : {m, n}, rights : {{}}, version : Nat, mtime : Nat, file : {f},
                 rightsAt : Nat, contentAt : Nat]
      BY <1>2, <2>1
    <2>. QED  BY <1>2, <1>3, <2>1, <2>2
  <1>5. \A v \in Nat : <<>> \in Made(v)
    BY DEF Made
  <1>6. PICK n, f : n = <<>> /\ f = NoFile
    OBVIOUS
  <1>. QED  BY <1>4, <1>5, <1>6, NoFileIs DEF Dirs, Dated

-----------------------------------------------------------------------------
(* Directories, one step on *)

(* n is the directory o, as it may be now. *)
Heir(o, n, v) ==
    /\ n \in Dirs(v, now) /\ Dated(n) /\ n.of = o.of
    /\ (n.rights = o.rights /\ n.rightsAt = o.rightsAt) \/ n.rightsAt = now
    /\ (n.version = o.version /\ n.contentAt = o.contentAt) \/ n.contentAt = now
    /\ n.file \in {NoFile, o.file} \/ (n.file.of = n.of /\ n.file.version = n.version)

(* n was made in this step. *)
New(n, v) ==
    /\ n \in Dirs(v, now) /\ Dated(n) /\ n.file = NoFile
    /\ n.of # <<>> /\ n.of[2] = version + 1

(* d may follow disk, with v changes so far. *)
Follows(d, v) ==
    /\ d \in [Paths -> Dirs(v, now)] /\ d[Home].of # <<>>
    /\ \A q \in Paths : d[q] # Gone => \/ New(d[q], v)
                                      \/ \E r \in Paths : disk[r] # Gone /\ Heir(disk[r], d[q], v)
    /\ \A p, q \in Paths : p # q /\ d[p].of = d[q].of => d[p].of = <<>>

Settled == now \in Nat /\ version \in Nat \ {0} /\ World(disk, version, now)

LEMMA HeirSelf ==
    ASSUME Settled, NEW v \in {version, version + 1}, NEW p \in Paths
    PROVE  Heir(disk[p], disk[p], v)
  <1>1. Dirs(version, now) \subseteq Dirs(v, now)
    <2>1. v \in Nat /\ version \in Nat /\ now \in Nat /\ version <= v /\ now <= now
      BY DEF Settled
    <2>. QED  BY <2>1, Grow
  <1>2. disk[p] \in Dirs(v, now) /\ Dated(disk[p])
    BY <1>1 DEF Settled, World
  <1>. QED  BY <1>2 DEF Heir

LEMMA HeirHeir ==
    ASSUME NEW o, NEW n, NEW m, NEW v \in {version, version + 1}, Heir(o, n, v), Heir(n, m, v),
           m.file = NoFile
    PROVE  Heir(o, m, v)
  <1>1. m \in Dirs(v, now) /\ Dated(m) /\ m.of = o.of
    BY DEF Heir
  <1>2. (m.rights = o.rights /\ m.rightsAt = o.rightsAt) \/ m.rightsAt = now
    BY DEF Heir
  <1>3. (m.version = o.version /\ m.contentAt = o.contentAt) \/ m.contentAt = now
    BY DEF Heir
  <1>. QED  BY <1>1, <1>2, <1>3 DEF Heir

(* What is there is not Gone. *)
LEMMA There == ASSUME Settled, NEW p \in Paths PROVE disk[p] # Gone <=> disk[p].of # <<>>
BY GoneIs DEF Settled, World

(* Nothing bears the mark of what is yet to be made. *)
LEMMA NewIs ==
    ASSUME Settled, NEW n, NEW v, New(n, v)
    PROVE  \A m \in Made(version) : m # n.of
  <1>1. \A m \in Made(version) : m # <<>> => m[2] \in 1..version
    BY DEF Made
  <1>2. \A i \in 1..version : i # version + 1
    BY DEF Settled
  <1>. QED  BY <1>1, <1>2 DEF New

(* What a listing shows stays true. *)
LEMMA ShowsStill ==
    ASSUME Settled, NEW v \in {version, version + 1}, NEW d, Follows(d, v),
           NEW l, l.of \in Made(version), l.mtime \in 0..now \cup {None}, Shows(l, disk)
    PROVE  Shows(l, d)
  <1>. SUFFICES ASSUME NEW q \in Paths, d[q].of # <<>>, d[q].of = l.of, d[q].version # l.version
                PROVE  l.mtime <= d[q].contentAt
    BY DEF Shows
  <1>1. d[q] # Gone
    BY GoneIs
  <1>2. ~New(d[q], v)
    BY NewIs
  <1>3. PICK r \in Paths : disk[r] # Gone /\ Heir(disk[r], d[q], v)
    BY <1>1, <1>2 DEF Follows
  <1>4. CASE d[q].contentAt = now
    <2>1. \A m \in 0..now \cup {None} : m <= now
      BY DEF Settled, None
    <2>. QED  BY <1>4, <2>1
  <1>5. CASE d[q].version = disk[r].version /\ d[q].contentAt = disk[r].contentAt
    <2>1. disk[r].of # <<>> /\ disk[r].of = l.of
      BY <1>3 DEF Heir
    <2>. QED  BY <1>5, <2>1 DEF Shows
  <1>. QED  BY <1>3, <1>4, <1>5 DEF Heir

(* The directories of the next state are as those of this one. *)
LEMMA WorldStill ==
    ASSUME Settled, NEW v \in {version, version + 1}, NEW d, Follows(d, v)
    PROVE  World(d, v, now)
  <1>1. ASSUME NEW q \in Paths PROVE Dated(d[q]) /\ (d[q] # Gone => d[q].of # <<>>) /\ Shows(d[q].file, d)
    <2>0. Shows(NoFile, d)
      BY NoFileIs DEF Shows
    <2>1. CASE d[q] = Gone
      BY <2>0, <2>1, GoneIs
    <2>2. CASE New(d[q], v)
      BY <2>0, <2>2 DEF New
    <2>3. ASSUME NEW r \in Paths, disk[r] # Gone, Heir(disk[r], d[q], v)
          PROVE  Dated(d[q]) /\ d[q].of # <<>> /\ Shows(d[q].file, d)
      <3>1. Dated(d[q]) /\ d[q].of = disk[r].of
        BY <2>3 DEF Heir
      <3>2. disk[r].of # <<>>
        BY <2>3, There
      <3>3. CASE d[q].file = NoFile
        BY <2>0, <3>1, <3>2, <3>3
      <3>4. CASE d[q].file = disk[r].file
        <4>1. PICK l : l = disk[r].file
          OBVIOUS
        <4>2. l \in Files(version, now) /\ Shows(l, disk)
          BY <4>1 DEF Settled, World, Dirs
        <4>3. l.of \in Made(version) /\ l.mtime \in 0..now \cup {None}
          BY <4>2 DEF Files
        <4>. QED  BY <3>1, <3>2, <3>4, <4>1, <4>2, <4>3, ShowsStill
      <3>5. CASE d[q].file.of = d[q].of /\ d[q].file.version = d[q].version
        <4>1. ASSUME NEW p \in Paths, d[p].of # <<>>, d[p].of = d[q].file.of
              PROVE  d[p].version = d[q].file.version
          BY <3>5, <4>1 DEF Follows
        <4>. QED  BY <3>1, <3>2, <4>1 DEF Shows
      <3>. QED  BY <2>3, <3>1, <3>2, <3>3, <3>4, <3>5 DEF Heir
    <2>. QED  BY <2>1, <2>2, <2>3 DEF Follows
  <1>. QED  BY <1>1 DEF World, Follows

-----------------------------------------------------------------------------
(* Entries of the cache, one step on *)

(* An entry through which nothing was changed. *)
LEMMA TellsStill ==
    ASSUME Settled, NEW v \in {version, version + 1}, NEW d, Follows(d, v),
           NEW e \in Entries(version, now), Tells(e, disk),
           NEW n, n.path = e.path, n.rights = e.rights, n.mtime = e.mtime, n.of = e.of, n.masked = e.masked,
           n.missed <=> e.missed \/ d[e.path] # disk[e.path]
    PROVE  Tells(n, d)
  <1>. SUFFICES ASSUME e.path # NoPath, ~e.masked
                PROVE  Tells(n, d)
    BY DEF Tells
  <1>1. ASSUME NEW q \in Paths, d[q].of # <<>>, d[q].of = e.of, d[q].rights # e.rights
        PROVE  e.mtime <= d[q].rightsAt
    <2>1. d[q] # Gone /\ e.of \in Made(version) /\ e.mtime \in 0..now
      BY <1>1, GoneIs DEF Entries
    <2>2. ~New(d[q], v)
      BY <1>1, <2>1, NewIs
    <2>3. PICK r \in Paths : disk[r] # Gone /\ Heir(disk[r], d[q], v)
      BY <2>1, <2>2 DEF Follows
    <2>4. CASE d[q].rightsAt = now
      BY <2>1, <2>4 DEF Settled
    <2>5. CASE d[q].rights = disk[r].rights /\ d[q].rightsAt = disk[r].rightsAt
      <3>1. disk[r].of # <<>> /\ disk[r].of = e.of
        BY <1>1, <2>3 DEF Heir
      <3>. QED  BY <1>1, <2>5, <3>1 DEF Tells
    <2>. QED  BY <2>3, <2>4, <2>5 DEF Heir
  <1>2. ASSUME ~n.missed
        PROVE  /\ d[e.path].of # <<>> /\ d[e.path].of = e.of
               /\ d[e.path].rights = e.rights \/ d[e.path].rightsAt = e.mtime
               /\ d[e.path].contentAt <= e.mtime
    BY <1>2 DEF Tells
  <1>. QED  BY <1>1, <1>2 DEF Tells

(* An entry that has just learnt of the directory. *)
LEMMA TellsExactly ==
    ASSUME NEW v, NEW d, World(d, v, now), NEW e, e.path \in Paths, e.mtime \in Nat,
           ~e.masked => /\ d[e.path].of # <<>> /\ d[e.path].of = e.of
                        /\ d[e.path].rights = e.rights \/ d[e.path].rightsAt = e.mtime
                        /\ d[e.path].contentAt <= e.mtime
    PROVE  Tells(e, d)
  <1>1. ASSUME ~e.masked, NEW q \in Paths, d[q].of # <<>>, d[q].of = e.of, d[q].rights # e.rights
        PROVE  e.mtime <= d[q].rightsAt
    <2>1. q = e.path
      BY <1>1 DEF World
    <2>. QED  BY <1>1, <2>1
  <1>. QED  BY <1>1 DEF Tells

LEMMA NotedIs ==
    ASSUME NEW v, NEW s \in StatCaches(v, now), NEW d, NEW i
    PROVE  /\ Noted(s, d, i) \in StatCaches(v, now)
           /\ \A k \in StatSlots :
                  LET e == s.slots[k]
                      n == Noted(s, d, i).slots[k]
                  IN  /\ k = i => n = e
                      /\ /\ n.path = e.path /\ n.rights = e.rights /\ n.mtime = e.mtime
                         /\ n.of = e.of /\ n.masked = e.masked
                      /\ k # i /\ e.path # NoPath => (n.missed <=> e.missed \/ d[e.path] # disk[e.path])
  <1> DEFINE Mark(e) == [e EXCEPT !.missed = @ \/ d[e.path] # disk[e.path]]
             Slot(k) == IF s.slots[k].path = NoPath \/ k = i THEN s.slots[k] ELSE Mark(s.slots[k])
  <1>1. s.slots \in [StatSlots -> Entries(v, now)] /\ DOMAIN s.slots = StatSlots
    BY DEF StatCaches
  <1>2. Noted(s, d, i) = [s EXCEPT !.slots = [k \in StatSlots |-> Slot(k)]]
    BY <1>1 DEF Noted
  <1>3. ASSUME NEW e \in Entries(v, now)
        PROVE  /\ Mark(e) \in Entries(v, now)
               /\ Mark(e).path = e.path /\ Mark(e).rights = e.rights /\ Mark(e).mtime = e.mtime
               /\ Mark(e).of = e.of /\ Mark(e).masked = e.masked
               /\ Mark(e).missed <=> e.missed \/ d[e.path] # disk[e.path]
    <2>1. PICK b \in BOOLEAN : b <=> e.missed \/ d[e.path] # disk[e.path]
      OBVIOUS
    <2>2. Mark(e) = [e EXCEPT !.missed = b]
      BY <2>1 DEF Entries
    <2>. QED  BY <2>1, <2>2 DEF Entries
  <1> HIDE DEF Mark
  <1>4. \A k \in StatSlots : Slot(k) \in Entries(v, now)
    BY <1>1, <1>3
  <1> HIDE DEF Slot
  <1>5. PICK f : f = [k \in StatSlots |-> Slot(k)]
    OBVIOUS
  <1>6. f \in [StatSlots -> Entries(v, now)] /\ \A k \in StatSlots : f[k] = Slot(k)
    BY <1>4, <1>5
  <1>7. Noted(s, d, i) \in StatCaches(v, now) /\ Noted(s, d, i).slots = f
    BY <1>2, <1>5, <1>6 DEF StatCaches
  <1>. QED  BY <1>1, <1>3, <1>6, <1>7 DEF Slot

(* A step that changes directories to d keeps the invariant, when what it  *)
(* puts into the caches does.                                              *)
LEMMA BecomesKeeps ==
    ASSUME Settled, now \in Times, NEW v \in {version, version + 1}, v <= MaxVersion, NEW d, Follows(d, v),
           NEW s \in StatCaches(v, now), NEW i, NEW l \in ListCaches(v, now), Becomes(s, l, d, i), version' = v,
           \A k \in StatSlots : k # i => s.slots[k] \in Entries(version, now) /\ Tells(s.slots[k], disk),
           i \in StatSlots => Tells(s.slots[i], d),
           \A k \in ListSlots : Shows(l.slots[k], d)
    PROVE  IInv'
  <1>1. disk' = d /\ stats' = Noted(s, d, i) /\ lists' = l /\ now' = now /\ version' = v
    BY DEF Becomes
  <1>2. now \in Times /\ v \in 1..MaxVersion
    BY DirCacheAssumption DEF Settled
  <1>3. World(d, v, now)
    BY WorldStill
  <1>4. ASSUME NEW k \in StatSlots PROVE Tells(Noted(s, d, i).slots[k], d)
    <2>1. PICK e, n : e = s.slots[k] /\ n = Noted(s, d, i).slots[k]
      OBVIOUS
    <2>2. CASE k = i
      BY <2>1, <2>2, NotedIs
    <2>3. CASE k # i /\ e.path # NoPath
      <3>1. e \in Entries(version, now) /\ Tells(e, disk)
        BY <2>1, <2>3
      <3>2. /\ n.path = e.path /\ n.rights = e.rights /\ n.mtime = e.mtime
            /\ n.of = e.of /\ n.masked = e.masked
            /\ n.missed <=> e.missed \/ d[e.path] # disk[e.path]
        BY <2>1, <2>3, NotedIs
      <3>. QED  BY <2>1, <3>1, <3>2, TellsStill
    <2>4. CASE e.path = NoPath
      <3>1. n.path = NoPath
        BY <2>1, <2>4, NotedIs
      <3>. QED  BY <2>1, <3>1 DEF Tells
    <2>. QED  BY <2>2, <2>3, <2>4
  <1>5. Stats(Noted(s, d, i), d, v, now)
    BY <1>4, NotedIs DEF Stats
  <1>6. Lists(l, d, v, now)
    BY DEF Lists
  <1>7. World(disk', version', now') /\ Stats(stats', disk', version', now') /\ Lists(lists', disk', version', now')
    BY <1>1, <1>3, <1>5, <1>6
  <1>8. now' \in Times /\ version' \in 1..MaxVersion
    BY <1>1, <1>2
  <1>. QED  BY <1>7, <1>8 DEF IInv, World, Stats, Lists, Shows, Tells

-----------------------------------------------------------------------------
(* The caches, as commands use them *)

LEMMA FoundIs ==
    ASSUME NEW n \in Nat, NEW c, DOMAIN c.slots = 0..n, NEW p
    PROVE  Found(c, p) = None \/ (Found(c, p) \in 0..n /\ c.slots[Found(c, p)].path = p)
  <1> DEFINE I == {i \in DOMAIN c.slots : c.slots[i].path = p}
  <1>1. CASE I = {}
    <2>1. Found(c, p) = IF I = {} THEN None ELSE CHOOSE i \in I : \A j \in I : i <= j
      BY DEF Found
    <2>. QED  BY <1>1, <2>1, Zenon
  <1>2. CASE I # {}
    <2>1. I \subseteq Nat
      OBVIOUS
    <2>2. PICK x \in I : \A y \in I : x <= y
      <3> DEFINE R == OpToRel(<, Nat)
      <3>1. IsWellFoundedOn(R, Nat)
        BY NatLessThanWellFounded
      <3> HIDE DEF R, I
      <3>2. PICK x \in I : \A y \in I : ~(<<y, x>> \in R)
        BY <1>2, <2>1, <3>1, WFMin, Zenon
      <3>3. \A y \in I : ~(y < x)
        BY <2>1, <3>2 DEF R, OpToRel
      <3>. QED  BY <2>1, <3>3
    <2>3. Found(c, p) = CHOOSE i \in I : \A j \in I : i <= j
      BY <1>2 DEF Found
    <2> HIDE DEF I
    <2>4. Found(c, p) \in I
      BY <2>2, <2>3
    <2>. QED  BY <2>4 DEF I
  <1>. QED  BY <1>1, <1>2

LEMMA FoundStat ==
    ASSUME NEW v, NEW c \in StatCaches(v, now), NEW p
    PROVE  Found(c, p) = None \/ (Found(c, p) \in StatSlots /\ c.slots[Found(c, p)].path = p)
  <1>1. PICK n \in Nat : n = StatSize - 1
    BY DirCacheAssumption
  <1>2. DOMAIN c.slots = 0..n
    BY <1>1 DEF StatCaches, StatSlots
  <1>. QED  BY <1>1, <1>2, FoundIs DEF StatSlots

LEMMA FoundList ==
    ASSUME NEW v, NEW c \in ListCaches(v, now), NEW p
    PROVE  Found(c, p) = None \/ (Found(c, p) \in ListSlots /\ c.slots[Found(c, p)].path = p)
  <1>1. PICK n \in Nat : n = ListSize - 1
    BY DirCacheAssumption
  <1>2. DOMAIN c.slots = 0..n
    BY <1>1 DEF ListCaches, ListSlots
  <1>. QED  BY <1>1, <1>2, FoundIs DEF ListSlots

(* Put() fills the slot next, and goes on to the one after it. *)
LEMMA NextIs == ASSUME NEW n \in Nat \ {0}, NEW i \in 0..n - 1 PROVE (i + 1) % Cardinality(0..n - 1) \in 0..n - 1
  <1>1. Cardinality(0..n - 1) = n
    <2>1. Cardinality(0..n - 1) = IF 0 > n - 1 THEN 0 ELSE n - 1 - 0 + 1
      BY FS_Interval
    <2>. QED  BY <2>1
  <1>2. (i + 1) % n \in 0..n - 1
    OBVIOUS
  <1>. QED  BY <1>1, <1>2

LEMMA PutStats ==
    ASSUME NEW v, NEW c \in StatCaches(v, now), NEW e \in Entries(v, now)
    PROVE  /\ Put(c, e) \in StatCaches(v, now) /\ c.next \in StatSlots
           /\ \A k \in StatSlots : Put(c, e).slots[k] = IF k = c.next THEN e ELSE c.slots[k]
  <1>1. c.next \in StatSlots /\ DOMAIN c.slots = StatSlots /\ c.slots \in [StatSlots -> Entries(v, now)]
    BY DEF StatCaches
  <1>2. PICK m \in StatSlots : m = (c.next + 1) % Cardinality(DOMAIN c.slots)
    BY <1>1, NextIs, DirCacheAssumption DEF StatSlots
  <1>3. Put(c, e) = [slots |-> [c.slots EXCEPT ![c.next] = e], next |-> m]
    BY <1>2 DEF Put
  <1>. QED  BY <1>1, <1>3 DEF StatCaches

LEMMA PutLists ==
    ASSUME NEW v, NEW c \in ListCaches(v, now), NEW l \in Listings(v, now)
    PROVE  /\ Put(c, l) \in ListCaches(v, now)
           /\ \A k \in ListSlots : Put(c, l).slots[k] \in {l, c.slots[k]}
  <1>1. c.next \in ListSlots /\ DOMAIN c.slots = ListSlots /\ c.slots \in [ListSlots -> Listings(v, now)]
    BY DEF ListCaches
  <1>2. PICK m \in ListSlots : m = (c.next + 1) % Cardinality(DOMAIN c.slots)
    BY <1>1, NextIs, DirCacheAssumption DEF ListSlots
  <1>3. Put(c, l) = [slots |-> [c.slots EXCEPT ![c.next] = l], next |-> m]
    BY <1>2 DEF Put
  <1>. QED  BY <1>1, <1>3 DEF ListCaches

LEMMA SlotIs ==
    ASSUME NEW v, NEW c \in StatCaches(v, now), NEW i \in StatSlots, NEW n \in Entries(v, now)
    PROVE  /\ [c EXCEPT !.slots[i] = n] \in StatCaches(v, now)
           /\ [c EXCEPT !.slots[i] = n].slots[i] = n
           /\ \A k \in StatSlots : k # i => [c EXCEPT !.slots[i] = n].slots[k] = c.slots[k]
           /\ [c EXCEPT !.slots[i] = n].next = c.next
BY DEF StatCaches

(* di->lastcheck = cur_time, of an entry that is as its directory. *)
LEMMA ConfirmedIs ==
    ASSUME NEW v \in Nat, now \in Nat, NEW e \in Entries(v, now)
    PROVE  /\ Confirmed(e) \in Entries(v, now)
           /\ Confirmed(e).path = e.path /\ Confirmed(e).rights = e.rights
           /\ Confirmed(e).mtime = e.mtime /\ Confirmed(e).of = e.of
           /\ Confirmed(e).lastcheck = now /\ ~Confirmed(e).missed
           /\ Confirmed(e).masked <=> e.masked \/ e.of # disk[e.path].of
  <1>1. PICK w \in BOOLEAN : w <=> e.masked \/ e.of # disk[e.path].of
    OBVIOUS
  <1>2. Confirmed(e) = [e EXCEPT !.lastcheck = now, !.missed = FALSE, !.masked = w]
    BY <1>1 DEF Confirmed, Entries
  <1>3. now \in 0..now
    OBVIOUS
  <1>. QED  BY <1>1, <1>2, <1>3 DEF Entries

(* di->mtime = di->lastcheck = cur_time *)
LEMMA AlteredIs ==
    ASSUME NEW v \in Nat, now \in Nat, NEW e \in Entries(v, now)
    PROVE  /\ Altered(e) \in Entries(v, now)
           /\ Altered(e).path = e.path /\ Altered(e).rights = e.rights
           /\ Altered(e).mtime = now /\ Altered(e).of = e.of
           /\ Altered(e).lastcheck = now /\ Altered(e).missed = e.missed
           /\ Altered(e).masked <=> \/ e.masked \/ e.missed \/ disk[e.path] = Gone
                                    \/ disk[e.path].rights # e.rights
  <1>1. PICK w \in BOOLEAN : w <=> e.masked \/ e.missed \/ disk[e.path] = Gone \/ disk[e.path].rights # e.rights
    OBVIOUS
  <1>2. Altered(e) = [e EXCEPT !.mtime = now, !.lastcheck = now, !.masked = w]
    BY <1>1 DEF Altered, Entries
  <1>3. now \in 0..now
    OBVIOUS
  <1>. QED  BY <1>1, <1>2, <1>3 DEF Entries

LEMMA InfoIs ==
    ASSUME NEW v \in Nat, now \in Nat, NEW o \in Dirs(v, now), NEW p \in Paths, NEW m \in 0..now
    PROVE  /\ Info(p, o, m) \in Entries(v, now)
           /\ Info(p, o, m).path = p /\ Info(p, o, m).rights = o.rights
           /\ Info(p, o, m).mtime = m /\ Info(p, o, m).of = o.of
           /\ ~Info(p, o, m).missed /\ ~Info(p, o, m).masked /\ Info(p, o, m).lastcheck = now
  <1>1. now \in 0..now
    OBVIOUS
  <1>2. o.rights \in SUBSET Flags /\ o.of \in Made(v)
    BY DEF Dirs
  <1>. QED  BY <1>1, <1>2 DEF Info, Entries

LEMMA NoInfoIs ==
    ASSUME NEW v \in Nat, now \in Nat PROVE NoInfo \in Entries(v, now) /\ NoInfo.path = NoPath
  <1>1. 0 \in 0..now /\ {} \in SUBSET Flags
    OBVIOUS
  <1>2. PICK n \in Made(v) : n = <<>>
    BY DEF Made
  <1>. QED  BY <1>1, <1>2 DEF NoInfo, Entries

LEMMA SettledIs ==
    ASSUME Settled
    PROVE  /\ version \in Nat \ {0} /\ now \in Nat
           /\ \A p \in Paths : /\ disk[p] \in Dirs(version, now) /\ Dated(disk[p]) /\ disk[p].of \in Made(version)
                               /\ disk[p].mtime \in 0..now /\ disk[p].rightsAt \in 0..now
                               /\ disk[p].contentAt \in 0..now
BY DEF Settled, World, Dirs

(* A cache is as good with another entry that is. *)
LEMMA StatsWith ==
    ASSUME Settled, NEW c, Stats(c, disk, version, now), NEW r \in StatCaches(version, now), NEW i,
           \A k \in StatSlots : k # i => r.slots[k] = c.slots[k],
           i \in StatSlots => Tells(r.slots[i], disk)
    PROVE  Stats(r, disk, version, now)
BY DEF Stats

(* What validate_path() answers. *)
Answers(v, p) ==
    /\ Stats(v.cache, disk, version, now)
    /\ v.at = None \/ v.at \in StatSlots
    /\ v.at # None => /\ v.cache.slots[v.at].path = p
                      /\ v.cache.slots[v.at].missed => Fresh(v.cache.slots[v.at])

LEMMA ValidatedIs ==
    ASSUME Settled, NEW c, Stats(c, disk, version, now), NEW p \in Paths
    PROVE  Answers(Validated(c, p), p)
  <1>1. c \in StatCaches(version, now) /\ \A k \in StatSlots : c.slots[k] \in Entries(version, now)
    BY DEF Stats, StatCaches
  <1>2. version \in Nat /\ now \in Nat
    BY SettledIs
  <1>3. PICK i : i = Found(c, p)
    OBVIOUS
  <1>4. i = None \/ (i \in StatSlots /\ c.slots[i].path = p)
    BY <1>1, <1>3, FoundStat
  <1>5. PICK v : v = Validated(c, p)
    OBVIOUS
  <1>6. None \notin StatSlots
    BY DEF None, StatSlots
  <1>7. p # NoPath
    BY DirCacheAssumption DEF Paths
  <1>8. CASE i # None /\ Fresh(c.slots[i])
    <2>1. v = [at |-> i, cache |-> c]
      BY <1>3, <1>5, <1>8 DEF Validated
    <2>. QED  BY <1>4, <1>5, <1>8, <2>1 DEF Answers
  <1>9. CASE ~(i # None /\ Fresh(c.slots[i])) /\ disk[p] = Gone
    <2>1. v = [at |-> None, cache |-> c]
      BY <1>3, <1>5, <1>9 DEF Validated
    <2>. QED  BY <1>5, <2>1 DEF Answers
  <1>10. CASE /\ ~(i # None /\ Fresh(c.slots[i])) /\ disk[p] # Gone
              /\ i # None /\ use_directory_mtime /\ c.slots[i].mtime = disk[p].mtime
    <2>1. PICK e, n, r : e = c.slots[i] /\ n = Confirmed(e) /\ r = [c EXCEPT !.slots[i] = n]
      OBVIOUS
    <2>2. v = [at |-> i, cache |-> r]
      <3>1. r = [c EXCEPT !.slots[i] = Confirmed(@)]
        BY <1>1, <1>4, <1>10, <2>1 DEF StatCaches
      <3>. QED  BY <1>3, <1>5, <1>10, <3>1 DEF Validated
    <2>3. e \in Entries(version, now) /\ e.path = p /\ Tells(e, disk) /\ e.mtime = disk[p].mtime /\ i \in StatSlots
      BY <1>1, <1>4, <1>10, <2>1 DEF Stats
    <2>4. /\ n \in Entries(version, now) /\ n.path = p /\ n.rights = e.rights /\ n.mtime = e.mtime /\ n.of = e.of
          /\ ~n.missed /\ (n.masked <=> e.masked \/ e.of # disk[p].of)
      BY <1>2, <2>1, <2>3, ConfirmedIs
    <2>5. Tells(n, disk)
      <3>1. SUFFICES ASSUME ~n.masked
                     PROVE  /\ disk[p].of # <<>> /\ disk[p].of = n.of
                            /\ disk[p].rights = n.rights \/ disk[p].rightsAt = n.mtime
                            /\ disk[p].contentAt <= n.mtime
        BY <1>2, <2>3, <2>4, SettledIs, TellsExactly DEF Settled
      <3>2. disk[p].of = e.of /\ disk[p].of # <<>> /\ ~e.masked
        BY <1>10, <2>4, <3>1, There
      <3>3. Dated(disk[p]) /\ disk[p].mtime \in 0..now /\ disk[p].rightsAt \in 0..now
        BY SettledIs
      <3>4. CASE disk[p].rights # e.rights
        <4>1. e.mtime <= disk[p].rightsAt
          BY <1>7, <2>3, <3>2, <3>4 DEF Tells
        <4>. QED  BY <2>3, <2>4, <3>2, <3>3, <4>1 DEF Dated
      <3>. QED  BY <2>3, <2>4, <3>2, <3>3, <3>4 DEF Dated
    <2>6. r \in StatCaches(version, now) /\ r.slots[i] = n /\ \A k \in StatSlots : k # i => r.slots[k] = c.slots[k]
      BY <1>1, <2>1, <2>3, <2>4, SlotIs
    <2>7. Stats(r, disk, version, now)
      BY <2>5, <2>6, StatsWith
    <2>. QED  BY <1>5, <2>2, <2>3, <2>4, <2>6, <2>7 DEF Answers
  <1>11. CASE /\ ~(i # None /\ Fresh(c.slots[i])) /\ disk[p] # Gone
              /\ ~(i # None /\ use_directory_mtime /\ c.slots[i].mtime = disk[p].mtime)
    <2>1. PICK m : m = IF use_directory_mtime THEN disk[p].mtime ELSE now
      OBVIOUS
    <2>2. PICK e : e = Info(p, disk[p], m)
      OBVIOUS
    <2>3. PICK b : b = IF i = None THEN c ELSE [c EXCEPT !.slots[i] = NoInfo]
      OBVIOUS
    <2>4. v = [at |-> c.next, cache |-> Put(b, e)]
      BY <1>3, <1>5, <1>11, <2>1, <2>2, <2>3 DEF Validated
    <2>5. /\ b \in StatCaches(version, now) /\ Stats(b, disk, version, now) /\ b.next = c.next
      <3>1. CASE i = None
        BY <1>1, <2>3, <3>1
      <3>2. CASE i \in StatSlots
        <4>1. NoInfo \in Entries(version, now) /\ Tells(NoInfo, disk)
          BY <1>2, NoInfoIs DEF Tells
        <4>2. /\ b \in StatCaches(version, now) /\ b.slots[i] = NoInfo /\ b.next = c.next
              /\ \A k \in StatSlots : k # i => b.slots[k] = c.slots[k]
          BY <1>1, <1>6, <2>3, <3>2, <4>1, SlotIs
        <4>. QED  BY <4>1, <4>2, StatsWith
      <3>. QED  BY <1>4, <3>1, <3>2
    <2>6. m \in 0..now /\ disk[p].contentAt <= m
      BY <2>1, SettledIs DEF Dated
    <2>7. /\ e \in Entries(version, now) /\ e.path = p /\ e.rights = disk[p].rights /\ e.mtime = m
          /\ e.of = disk[p].of /\ ~e.missed
      BY <1>2, <2>2, <2>6, SettledIs, InfoIs
    <2>8. Tells(e, disk)
      <3>1. disk[p].of # <<>>
        BY <1>11, There
      <3>. QED  BY <1>2, <2>6, <2>7, <3>1, TellsExactly DEF Settled
    <2>9. /\ Put(b, e) \in StatCaches(version, now) /\ c.next \in StatSlots
          /\ \A k \in StatSlots : Put(b, e).slots[k] = IF k = c.next THEN e ELSE b.slots[k]
      BY <1>2, <2>5, <2>7, PutStats
    <2>10. Stats(Put(b, e), disk, version, now)
      BY <2>5, <2>8, <2>9, StatsWith
    <2>. QED  BY <1>5, <2>4, <2>7, <2>9, <2>10 DEF Answers
  <1>. QED  BY <1>5, <1>8, <1>9, <1>10, <1>11

LEMMA TouchedIs ==
    ASSUME Settled, NEW c, Stats(c, disk, version, now), NEW i \in StatSlots, c.slots[i].path \in Paths
    PROVE  LET e == Touched(c, i).slots[i]
           IN  /\ Stats(Touched(c, i), disk, version, now)
               /\ e.path = c.slots[i].path /\ e.rights = c.slots[i].rights /\ e.mtime = now
               /\ ~e.masked => /\ disk[e.path] # Gone /\ disk[e.path].of = e.of
                               /\ disk[e.path].rights = e.rights
  <1>1. PICK e, n, r : e = c.slots[i] /\ n = Altered(e) /\ r = [c EXCEPT !.slots[i] = n]
    OBVIOUS
  <1>2. e \in Entries(version, now) /\ Tells(e, disk) /\ c \in StatCaches(version, now) /\ e.path \in Paths
    BY <1>1 DEF Stats, StatCaches
  <1>3. r = Touched(c, i)
    BY <1>1, <1>2 DEF StatCaches, Touched
  <1>4. version \in Nat /\ now \in Nat /\ e.path # NoPath
    BY <1>2, SettledIs, DirCacheAssumption DEF Paths
  <1>5. /\ n \in Entries(version, now) /\ n.path = e.path /\ n.rights = e.rights /\ n.mtime = now /\ n.of = e.of
        /\ n.masked <=> e.masked \/ e.missed \/ disk[e.path] = Gone \/ disk[e.path].rights # e.rights
    BY <1>1, <1>2, <1>4, AlteredIs
  <1>6. ~n.masked => /\ disk[e.path] # Gone /\ disk[e.path].of = e.of /\ disk[e.path].rights = e.rights
    BY <1>2, <1>4, <1>5 DEF Tells
  <1>7. Tells(n, disk)
    <2>1. ~n.masked => disk[e.path].of # <<>>
      BY <1>2, <1>6, There
    <2>2. disk[e.path].contentAt <= now
      <3>1. disk[e.path].contentAt \in 0..now
        BY <1>2, SettledIs
      <3>. QED  BY <1>4, <3>1
    <2>. QED  BY <1>2, <1>4, <1>5, <1>6, <2>1, <2>2, TellsExactly DEF Settled
  <1>8. r \in StatCaches(version, now) /\ r.slots[i] = n /\ \A k \in StatSlots : k # i => r.slots[k] = c.slots[k]
    BY <1>1, <1>2, <1>5, SlotIs
  <1>9. Stats(r, disk, version, now)
    BY <1>7, <1>8, StatsWith
  <1>. QED  BY <1>1, <1>3, <1>5, <1>6, <1>8, <1>9
-----------------------------------------------------------------------------
(* The directories, as commands change them *)

LEMMA ChangedIs ==
    ASSUME Settled, NEW p \in Paths
    PROVE  /\ Heir(disk[p], Changed(disk[p]), version + 1)
           /\ Changed(disk[p]).rights = disk[p].rights
  <1>1. PICK o : o = disk[p]
    OBVIOUS
  <1>2. version + 1 \in 0..version + 1 /\ version \in Nat /\ now \in Nat /\ now \in 0..now /\ version <= version + 1
    BY SettledIs
  <1>3. o \in Dirs(version + 1, now) /\ o \in Dirs(version, now) /\ Dated(o)
    BY <1>1, <1>2, SettledIs, Grow
  <1>4. PICK n : n = Changed(o)
    OBVIOUS
  <1>5. /\ n \in Dirs(version + 1, now) /\ n.of = o.of /\ n.rights = o.rights /\ n.rightsAt = o.rightsAt
        /\ n.contentAt = now /\ n.mtime = now /\ n.file = o.file
    BY <1>2, <1>3, <1>4 DEF Changed, Dirs
  <1>6. o.rightsAt \in 0..now
    BY <1>3 DEF Dirs
  <1>7. Dated(n)
    BY <1>2, <1>5, <1>6 DEF Dated
  <1>. QED  BY <1>1, <1>4, <1>5, <1>7 DEF Heir

(* Others change the flag files as well. *)
LEMMA FlaggedIs ==
    ASSUME Settled, NEW p \in Paths, NEW rights \in SUBSET Flags
    PROVE  Heir(disk[p], Flagged(disk[p], rights), version + 1)
  <1>1. PICK o, c : o = disk[p] /\ c = Changed(o)
    OBVIOUS
  <1>2. now \in Nat /\ now \in 0..now
    BY SettledIs
  <1>3. /\ c \in Dirs(version + 1, now) /\ c.of = o.of /\ c.rights = o.rights /\ Dated(c)
        /\ c.file \in {NoFile, o.file} \/ (c.file.of = c.of /\ c.file.version = c.version)
    BY <1>1, ChangedIs DEF Heir
  <1>4. c.mtime = now /\ c.contentAt = now /\ c.rightsAt = o.rightsAt /\ c.file = o.file
    <2>1. o \in Dirs(version, now)
      BY <1>1, SettledIs
    <2>. QED  BY <1>1, <2>1 DEF Changed, Dirs
  <1>5. PICK n, s : /\ s = IF o.rights = rights THEN c.rightsAt ELSE now
                    /\ n = [c EXCEPT !.rights = rights, !.rightsAt = s]
    OBVIOUS
  <1>6. s \in 0..now
    BY <1>2, <1>3, <1>5 DEF Dirs
  <1>7. /\ n \in Dirs(version + 1, now) /\ n.of = o.of /\ n.rights = rights /\ n.rightsAt = s
        /\ n.contentAt = now /\ n.mtime = now /\ n.file = o.file
    BY <1>3, <1>4, <1>5, <1>6 DEF Dirs
  <1>8. Dated(n)
    BY <1>2, <1>6, <1>7 DEF Dated
  <1>9. Heir(o, n, version + 1)
    BY <1>4, <1>5, <1>7, <1>8 DEF Heir
  <1>10. n = Flagged(o, rights)
    BY <1>1, <1>3, <1>5 DEF Flagged, Dirs
  <1>. QED  BY <1>1, <1>9, <1>10

(* save_access_rights() *)
LEMMA SavedIs ==
    ASSUME Settled, NEW v \in {version, version + 1}, NEW o \in Dirs(v, now), Dated(o), NEW rights \in SUBSET Flags
    PROVE  /\ Heir(o, Saved(o, rights), v)
           /\ Saved(o, rights).rights = rights /\ Saved(o, rights).file = NoFile
  <1>1. now \in 0..now /\ now \in Nat /\ NoFile \in Files(v, now) /\ v \in Nat
    BY SettledIs, NoFileIs
  <1>2. PICK s, m : /\ s = IF o.rights = rights THEN o.rightsAt ELSE now
                    /\ m = IF o.rights = {} /\ rights = {} /\ o.file = NoFile THEN o.mtime ELSE now
    OBVIOUS
  <1>3. /\ s \in 0..now /\ m \in 0..now /\ s <= m /\ o.contentAt <= m
        /\ o.rightsAt \in 0..now /\ o.contentAt \in 0..now /\ o.mtime \in 0..now
    <2>1. /\ o.rightsAt \in 0..now /\ o.contentAt \in 0..now /\ o.mtime \in 0..now
          /\ o.rightsAt <= o.mtime /\ o.contentAt <= o.mtime
      BY DEF Dirs, Dated
    <2>2. \/ s = o.rightsAt /\ m = o.mtime
          \/ s \in {o.rightsAt, now} /\ m = now
      BY <1>2
    <2>. QED  BY <1>1, <2>1, <2>2
  <1>4. PICK n, f : f = NoFile /\ n = [o EXCEPT !.rights = rights, !.file = f, !.rightsAt = s, !.mtime = m]
    OBVIOUS
  <1>5. /\ n \in Dirs(v, now) /\ n.of = o.of /\ n.rights = rights /\ n.rightsAt = s /\ n.version = o.version
        /\ n.contentAt = o.contentAt /\ n.mtime = m /\ n.file = NoFile
    BY <1>1, <1>3, <1>4 DEF Dirs
  <1>6. Heir(o, n, v)
    BY <1>2, <1>3, <1>5 DEF Heir, Dated
  <1>7. n = Saved(o, rights)
    <2>1. /\ o.rights = IF TRUE THEN o.rights ELSE {}
          /\ Saved(o, rights) = [o EXCEPT !.rights = rights, !.file = f,
                 !.rightsAt = IF o.rights = rights THEN @ ELSE now,
                 !.mtime = IF o.rights = {} /\ rights = {} /\ o.file = f THEN @ ELSE now]
      BY <1>4 DEF Saved
    <2>. QED  BY <1>2, <1>4, <2>1 DEF Dirs
  <1>. QED  BY <1>5, <1>6, <1>7

(* server_get_dir() writes .FSP_CONTENT. *)
LEMMA WrittenIs ==
    ASSUME Settled, NEW p \in Paths, NEW l \in Files(version, now),
           l.of = disk[p].of, l.version = disk[p].version
    PROVE  Heir(disk[p], Written(disk[p], l), version)
  <1>1. PICK o, m : o = disk[p] /\ m = IF o.file = NoFile THEN now ELSE o.mtime
    OBVIOUS
  <1>2. o \in Dirs(version, now) /\ Dated(o) /\ now \in Nat /\ now \in 0..now
    BY <1>1, SettledIs
  <1>3. m \in 0..now /\ o.rightsAt <= m /\ o.contentAt <= m
    BY <1>1, <1>2 DEF Dirs, Dated
  <1>4. PICK n : n = [o EXCEPT !.file = l, !.mtime = m]
    OBVIOUS
  <1>5. /\ n \in Dirs(version, now) /\ n.of = o.of /\ n.rights = o.rights /\ n.rightsAt = o.rightsAt
        /\ n.version = o.version /\ n.contentAt = o.contentAt /\ n.mtime = m /\ n.file = l
    BY <1>2, <1>3, <1>4 DEF Dirs
  <1>6. Heir(o, n, version)
    BY <1>1, <1>3, <1>5 DEF Heir, Dated
  <1>7. n = Written(o, l)
    BY <1>1, <1>2, <1>4 DEF Written, Dirs
  <1>. QED  BY <1>1, <1>6, <1>7

LEMMA MadeIs ==
    ASSUME Settled, NEW p \in Paths
    PROVE  New(Directory(p, version + 1, {}, now), version + 1)
  <1>1. PICK v \in Nat \ {0} : v = version + 1
    BY SettledIs
  <1>2. now \in Nat
    BY SettledIs
  <1>3. PICK n : n = Directory(p, v, {}, now)
    OBVIOUS
  <1>4. n \in Dirs(v, now) /\ n.of = <<p, v>> /\ n.file = NoFile /\ Dated(n)
    <2>1. PICK r \in SUBSET Flags : r = {}
      OBVIOUS
    <2>2. n = Directory(p, v, r, now)
      BY <1>3, <2>1
    <2>. QED  BY <1>1, <1>2, <2>2, DirectoryIs
  <1>5. n.of # <<>> /\ n.of[2] = v
    BY <1>4
  <1>. QED  BY <1>1, <1>3, <1>4, <1>5 DEF New

LEMMA HomeIs == ASSUME Settled PROVE Home \in Paths /\ disk[Home] # Gone
BY There DEF Paths, Settled, World

(* Directories stay where they are, go, and one is made. *)
LEMMA InPlace ==
    ASSUME Settled, NEW v \in {version, version + 1}, NEW d, DOMAIN d = Paths, d = [q \in Paths |-> d[q]],
           d[Home] # Gone, NEW m,
           \A q \in Paths : \/ d[q] = Gone
                            \/ disk[q] # Gone /\ Heir(disk[q], d[q], v)
                            \/ q = m /\ New(d[q], v)
    PROVE  Follows(d, v)
  <1>1. v \in Nat /\ now \in Nat
    BY SettledIs
  <1>2. \A q \in Paths : d[q] \in Dirs(v, now)
    BY <1>1, GoneIs DEF Heir, New
  <1>3. ASSUME NEW p \in Paths, NEW q \in Paths, p # q, d[p].of = d[q].of PROVE d[p].of = <<>>
    <2>1. CASE d[p] = Gone \/ d[q] = Gone
      BY <1>3, <2>1, GoneIs
    <2>2. CASE /\ disk[p] # Gone /\ Heir(disk[p], d[p], v)
               /\ disk[q] # Gone /\ Heir(disk[q], d[q], v)
      <3>1. disk[p].of = disk[q].of
        BY <1>3, <2>2 DEF Heir
      <3>. QED  BY <1>3, <2>2, <3>1 DEF Heir, Settled, World
    <2>3. ASSUME NEW r \in Paths, NEW s \in Paths, Heir(disk[r], d[r], v), New(d[s], v)
          PROVE  d[r].of # d[s].of
      <3>1. d[r].of \in Made(version)
        BY <2>3, SettledIs DEF Heir
      <3>. QED  BY <2>3, <3>1, NewIs
    <2>. QED  BY <1>3, <2>1, <2>2, <2>3
  <1>4. d \in [Paths -> Dirs(v, now)]
    BY <1>2
  <1>5. d[Home].of # <<>>
    <2>1. Home \in Paths /\ disk[Home].of # <<>>
      BY DEF Paths, Settled, World
    <2>. QED  BY <2>1 DEF Heir, New
  <1>. QED  BY <1>3, <1>4, <1>5 DEF Follows

LEMMA NothingMoves == ASSUME Settled, NEW v \in {version, version + 1} PROVE Follows(disk, v)
  <1>1. DOMAIN disk = Paths /\ disk = [q \in Paths |-> disk[q]]
    BY DEF Settled, World
  <1>2. \A q \in Paths : disk[q] = Gone \/ (disk[q] # Gone /\ Heir(disk[q], disk[q], v))
    BY HeirSelf
  <1>. QED  BY <1>1, <1>2, HomeIs, InPlace

(* One directory changes. *)
LEMMA OneMoves ==
    ASSUME Settled, NEW v \in {version, version + 1}, NEW p \in Paths, disk[p] # Gone, NEW n, Heir(disk[p], n, v)
    PROVE  Follows([disk EXCEPT ![p] = n], v) /\ [disk EXCEPT ![p] = n][p] = n
  <1>1. PICK d : d = [disk EXCEPT ![p] = n]
    OBVIOUS
  <1>2. disk \in [Paths -> Dirs(version, now)]
    BY DEF Settled, World
  <1>3. DOMAIN d = Paths /\ d = [q \in Paths |-> d[q]] /\ d[p] = n /\ \A q \in Paths : q # p => d[q] = disk[q]
    BY <1>1, <1>2
  <1>4. \A q \in Paths : d[q] = Gone \/ (disk[q] # Gone /\ Heir(disk[q], d[q], v))
    BY <1>3, HeirSelf
  <1>5. d[Home] # Gone
    <2>1. CASE p = Home
      <3>1. n.of = disk[p].of /\ disk[p].of # <<>>
        BY There DEF Heir
      <3>. QED  BY <1>3, <2>1, <3>1, GoneIs
    <2>. QED  BY <1>3, <2>1, HomeIs
  <1>6. Follows(d, v)
    BY <1>3, <1>4, <1>5, InPlace
  <1>. QED  BY <1>1, <1>3, <1>6

(* One comes or goes, and the home directory changes with it. *)
LEMMA HomeMoves ==
    ASSUME Settled, NEW p \in Subdirs, NEW n, n = Gone \/ New(n, version + 1)
    PROVE  LET d == [disk EXCEPT ![p] = n, ![Home] = Changed(@)]
           IN  Follows(d, version + 1) /\ d[p] = n /\ d[Home] = Changed(disk[Home])
  <1>1. PICK d, h : h = Changed(disk[Home]) /\ d = [disk EXCEPT ![p] = n, ![Home] = h]
    OBVIOUS
  <1>2. p \in Paths /\ Home \in Paths /\ p # Home /\ version + 1 \in {version, version + 1}
    BY DirCacheAssumption DEF Paths
  <1>3. disk \in [Paths -> Dirs(version, now)]
    BY DEF Settled, World
  <1>4. /\ DOMAIN d = Paths /\ d = [q \in Paths |-> d[q]] /\ d[p] = n /\ d[Home] = h
        /\ \A q \in Paths : q \notin {p, Home} => d[q] = disk[q]
    BY <1>1, <1>2, <1>3
  <1>5. \A q \in Paths : \/ d[q] = Gone
                         \/ disk[q] # Gone /\ Heir(disk[q], d[q], version + 1)
                         \/ q = p /\ New(d[q], version + 1)
    BY <1>1, <1>2, <1>4, HeirSelf, ChangedIs, HomeIs
  <1>6. Follows(d, version + 1)
    <2>1. h # Gone
      <3>1. h.of = disk[Home].of /\ disk[Home].of # <<>>
        BY <1>1, <1>2, ChangedIs, HomeIs, There DEF Heir
      <3>. QED  BY <3>1, GoneIs
    <2>. QED  BY <1>2, <1>4, <1>5, <2>1, InPlace
  <1>7. d = [disk EXCEPT ![p] = n, ![Home] = Changed(@)]
    BY <1>1, <1>2, <1>3
  <1>. QED  BY <1>1, <1>4, <1>6, <1>7
-----------------------------------------------------------------------------
(* Steps *)

LEMMA IInvIs ==
    ASSUME IInv
    PROVE  /\ Settled /\ now \in Times /\ version \in Nat /\ version <= MaxVersion
           /\ Stats(stats, disk, version, now) /\ Lists(lists, disk, version, now)
  <1>1. now \in Nat /\ version \in Nat \ {0} /\ version <= MaxVersion
    BY DirCacheAssumption DEF IInv, Times
  <1>. QED  BY <1>1 DEF IInv, Settled

LEMMA ListsStill ==
    ASSUME Settled, NEW v \in {version, version + 1}, NEW d, Follows(d, v), NEW l, Lists(l, disk, version, now)
    PROVE  l \in ListCaches(v, now) /\ \A k \in ListSlots : Shows(l.slots[k], d)
  <1>1. l \in ListCaches(v, now)
    <2>1. version \in Nat /\ v \in Nat /\ now \in Nat /\ version <= v /\ now <= now
      BY SettledIs
    <2>. QED  BY <2>1, Grow DEF Lists
  <1>2. ASSUME NEW k \in ListSlots PROVE Shows(l.slots[k], d)
    <2>1. PICK e : e = l.slots[k]
      OBVIOUS
    <2>2. e.of \in Made(version) /\ e.mtime \in 0..now \cup {None} /\ Shows(e, disk)
      BY <2>1 DEF Lists, ListCaches, Listings
    <2>. QED  BY <2>1, <2>2, ShowsStill
  <1>. QED  BY <1>1, <1>2

(* A step through no entry, or through one that learns of it. *)
LEMMA StepKeeps ==
    ASSUME Settled, now \in Times, NEW v \in {version, version + 1}, v <= MaxVersion, NEW d, Follows(d, v),
           NEW s, Stats(s, disk, version, now), NEW l, Lists(l, disk, version, now),
           NEW i, i = None \/ Tells(s.slots[i], d), Becomes(s, l, d, i), version' = v
    PROVE  IInv'
  <1>1. s \in StatCaches(v, now)
    <2>1. version \in Nat /\ v \in Nat /\ now \in Nat /\ version <= v /\ now <= now
      BY SettledIs
    <2>. QED  BY <2>1, Grow DEF Stats
  <1>2. \A k \in StatSlots : s.slots[k] \in Entries(version, now) /\ Tells(s.slots[k], disk)
    BY DEF Stats, StatCaches
  <1>3. None \notin StatSlots
    BY DEF None, StatSlots
  <1>4. l \in ListCaches(v, now) /\ \A k \in ListSlots : Shows(l.slots[k], d)
    BY ListsStill
  <1>. QED  BY <1>1, <1>2, <1>3, <1>4, BecomesKeeps

(* An entry through which its directory was changed learns of that. *)
LEMMA TouchedTells ==
    ASSUME Settled, NEW v \in {version, version + 1}, NEW d, Follows(d, v),
           NEW c, Stats(c, disk, version, now), NEW i \in StatSlots, NEW p \in Paths, c.slots[i].path = p,
           disk[p] # Gone => d[p].of = disk[p].of /\ d[p].rights = disk[p].rights
    PROVE  /\ Stats(Touched(c, i), disk, version, now)
           /\ Tells(Touched(c, i).slots[i], d)
  <1>1. PICK e : e = Touched(c, i).slots[i]
    OBVIOUS
  <1>2. /\ Stats(Touched(c, i), disk, version, now)
        /\ e.path = p /\ e.mtime = now
        /\ ~e.masked => disk[p] # Gone /\ disk[p].of = e.of /\ disk[p].rights = e.rights
    BY <1>1, TouchedIs
  <1>3. World(d, v, now) /\ now \in Nat
    BY WorldStill, SettledIs
  <1>4. d[p].contentAt <= now
    <2>1. d[p].contentAt \in 0..now
      BY DEF Follows, Dirs
    <2>. QED  BY <1>3, <2>1
  <1>5. ~e.masked => disk[p].of # <<>>
    BY <1>2, There
  <1>. QED  BY <1>1, <1>2, <1>3, <1>4, <1>5, TellsExactly

LEMMA ValidatedAt ==
    ASSUME Settled, NEW c, Stats(c, disk, version, now), NEW p \in Paths, Validated(c, p).at # None
    PROVE  /\ Stats(Validated(c, p).cache, disk, version, now)
           /\ Validated(c, p).at \in StatSlots
           /\ Validated(c, p).cache.slots[Validated(c, p).at].path = p
BY ValidatedIs DEF Answers

LEMMA GetProKeeps == ASSUME IInv, NEW p \in Paths, GetPro(p) PROVE IInv'
  <1>1. PICK s : s = Validated(stats, p).cache
    OBVIOUS
  <1>2. Stats(s, disk, version, now)
    BY <1>1, IInvIs, ValidatedIs DEF Answers
  <1>3. Becomes(s, lists, disk, None) /\ version' = version
    BY <1>1 DEF GetPro
  <1>4. Follows(disk, version)
    BY IInvIs, NothingMoves
  <1>. QED  BY <1>2, <1>3, <1>4, IInvIs, StepKeeps

LEMMA StatKeeps == ASSUME IInv, NEW p \in Paths, Stat(p) PROVE IInv'
BY GetProKeeps DEF Stat, GetPro

LEMMA AlterKeeps == ASSUME IInv, NEW p \in Paths, Alter(p) PROVE IInv'
  <1>1. PICK c, i, s, n, d : /\ c = Validated(stats, p).cache /\ i = Validated(stats, p).at /\ s = Touched(c, i)
                             /\ n = Changed(disk[p]) /\ d = [disk EXCEPT ![p] = n]
    OBVIOUS
  <1>2. /\ i # None /\ disk[p] # Gone /\ version < MaxVersion /\ version' = version + 1
        /\ Becomes(s, lists, d, i)
    <2>1. [disk EXCEPT ![p] = Changed(@)] = d
      BY <1>1, IInvIs DEF Settled, World
    <2>. QED  BY <1>1, <2>1 DEF Alter
  <1>3. Stats(c, disk, version, now) /\ i \in StatSlots /\ c.slots[i].path = p
    BY <1>1, <1>2, IInvIs, ValidatedAt
  <1>4. Heir(disk[p], n, version + 1) /\ n.rights = disk[p].rights /\ n.of = disk[p].of
    BY <1>1, IInvIs, ChangedIs DEF Heir
  <1>5. Follows(d, version + 1) /\ d[p] = n
    BY <1>1, <1>2, <1>4, IInvIs, OneMoves
  <1>6. Stats(s, disk, version, now) /\ Tells(s.slots[i], d)
    BY <1>1, <1>3, <1>4, <1>5, IInvIs, TouchedTells
  <1>7. version + 1 <= MaxVersion
    BY <1>2, IInvIs, DirCacheAssumption
  <1>. QED  BY <1>2, <1>5, <1>6, <1>7, IInvIs, StepKeeps

LEMMA SetProKeeps == ASSUME IInv, NEW p \in Paths, NEW f \in Flags, NEW on \in BOOLEAN, SetPro(p, f, on) PROVE IInv'
  <1>1. PICK c, i, t : c = Validated(stats, p).cache /\ i = Validated(stats, p).at /\ t = Touched(c, i)
    OBVIOUS
  <1>2. i # None
    BY <1>1 DEF SetPro
  <1>3. Stats(c, disk, version, now) /\ i \in StatSlots /\ c.slots[i].path = p
    BY <1>1, <1>2, IInvIs, ValidatedAt
  <1>4. PICK e : e = t.slots[i]
    OBVIOUS
  <1>5. /\ Stats(t, disk, version, now) /\ e.path = p /\ e.rights = c.slots[i].rights /\ e.mtime = now
        /\ ~e.masked => disk[p] # Gone /\ disk[p].of = e.of
    BY <1>1, <1>3, <1>4, IInvIs, TouchedIs
  <1>6. e \in Entries(version, now) /\ t \in StatCaches(version, now)
    BY <1>3, <1>4, <1>5 DEF Stats, StatCaches
  <1>7. PICK rights : rights = IF on THEN e.rights \cup {f} ELSE e.rights \ {f}
    OBVIOUS
  <1>8. rights \in SUBSET Flags
    BY <1>6, <1>7 DEF Entries
  <1>9. PICK target : target = IF disk[p] = Gone THEN Home ELSE p
    OBVIOUS
  <1>10. target \in Paths /\ disk[target] # Gone
    BY <1>9, IInvIs, HomeIs
  <1>11. PICK n, s, o, d : /\ n = [e EXCEPT !.rights = rights] /\ s = [t EXCEPT !.slots[i] = n]
                           /\ o = Saved(disk[target], rights) /\ d = [disk EXCEPT ![target] = o]
    OBVIOUS
  <1>12. Becomes(s, lists, d, i) /\ version' = version
    <2>1. [disk EXCEPT ![target] = Saved(@, rights)] = d
      BY <1>10, <1>11, IInvIs DEF Settled, World
    <2>2. [Touched(c, i) EXCEPT !.slots[i].rights = rights] = s
      BY <1>1, <1>3, <1>4, <1>6, <1>11 DEF StatCaches
    <2>. QED  BY <1>1, <1>5, <1>7, <1>9, <2>1, <2>2 DEF SetPro
  <1>13. /\ n \in Entries(version, now) /\ n.path = p /\ n.rights = rights /\ n.mtime = now /\ n.of = e.of
         /\ n.masked = e.masked
    BY <1>5, <1>6, <1>8, <1>11 DEF Entries
  <1>14. Heir(disk[target], o, version) /\ o.rights = rights /\ o.of = disk[target].of
    BY <1>8, <1>10, <1>11, IInvIs, SettledIs, SavedIs DEF Heir
  <1>15. Follows(d, version) /\ d[target] = o
    BY <1>10, <1>11, <1>14, IInvIs, OneMoves
  <1>16. s \in StatCaches(version, now) /\ s.slots[i] = n /\ \A k \in StatSlots : k # i => s.slots[k] = t.slots[k]
    BY <1>3, <1>6, <1>11, <1>13, SlotIs
  <1>17. Tells(n, d)
    <2>1. World(d, version, now) /\ now \in Nat
      BY <1>15, IInvIs, WorldStill, SettledIs
    <2>2. ASSUME ~n.masked PROVE /\ d[p].of # <<>> /\ d[p].of = n.of /\ d[p].rights = n.rights
                                 /\ d[p].contentAt <= n.mtime
      <3>1. target = p /\ disk[p].of # <<>>
        BY <1>5, <1>9, <1>13, <2>2, IInvIs, There
      <3>2. d[p].contentAt \in 0..now
        BY <1>15 DEF Follows, Dirs
      <3>. QED  BY <1>5, <1>13, <1>14, <1>15, <2>1, <2>2, <3>1, <3>2
    <2>. QED  BY <1>13, <2>1, <2>2, TellsExactly
  <1>18. \A k \in StatSlots : k # i => s.slots[k] \in Entries(version, now) /\ Tells(s.slots[k], disk)
    BY <1>5, <1>16 DEF Stats, StatCaches
  <1>19. lists \in ListCaches(version, now) /\ \A k \in ListSlots : Shows(lists.slots[k], d)
    BY <1>15, IInvIs, ListsStill
  <1>. QED  BY <1>12, <1>15, <1>16, <1>17, <1>18, <1>19, IInvIs, BecomesKeeps

LEMMA ListingIs ==
    ASSUME NEW v \in Nat, NEW t \in Nat, NEW p \in Paths \cup {NoPath}, NEW l \in Files(v, t)
    PROVE  /\ Listing(p, l) \in Listings(v, t)
           /\ \A d : Shows(l, d) => Shows(Listing(p, l), d)
  <1>1. /\ Listing(p, l).of = l.of /\ Listing(p, l).version = l.version /\ Listing(p, l).mtime = l.mtime
        /\ l.of \in Made(v) /\ l.version \in 0..v /\ l.mtime \in 0..t \cup {None}
    BY DEF Listing, Files
  <1>2. Listing(p, l) \in Listings(v, t)
    BY <1>1 DEF Listing, Listings
  <1>. QED  BY <1>1, <1>2 DEF Shows

(* A listing is dropped, another is put into the cache. *)
LEMMA ListsCleared ==
    ASSUME Settled, Lists(lists, disk, version, now), NEW k \in ListSlots
    PROVE  Lists([lists EXCEPT !.slots[k] = NoListing], disk, version, now)
  <1>1. PICK n : n = NoListing
    OBVIOUS
  <1>2. n \in Listings(version, now) /\ Shows(n, disk)
    <2>1. NoFile \in Files(version, now) /\ Shows(NoFile, disk) /\ version \in Nat /\ now \in Nat
      BY SettledIs, NoFileIs DEF Shows
    <2>. QED  BY <1>1, <2>1, ListingIs DEF NoListing
  <1>3. PICK c : c = [lists EXCEPT !.slots[k] = n]
    OBVIOUS
  <1>4. c \in ListCaches(version, now) /\ \A j \in ListSlots : c.slots[j] = IF j = k THEN n ELSE lists.slots[j]
    BY <1>2, <1>3 DEF Lists, ListCaches
  <1>5. Lists(c, disk, version, now)
    BY <1>2, <1>4 DEF Lists
  <1>. QED  BY <1>1, <1>3, <1>5

LEMMA ListsPut ==
    ASSUME Settled, NEW c, Lists(c, disk, version, now), NEW p \in Paths, NEW l \in Files(version, now), Shows(l, disk)
    PROVE  Lists(Put(c, Listing(p, l)), disk, version, now)
  <1>1. PICK n : n = Listing(p, l)
    OBVIOUS
  <1>2. n \in Listings(version, now) /\ Shows(n, disk)
    BY <1>1, SettledIs, ListingIs
  <1>3. c \in ListCaches(version, now) /\ \A k \in ListSlots : Shows(c.slots[k], disk)
    BY DEF Lists
  <1>4. Put(c, n) \in ListCaches(version, now) /\ \A k \in ListSlots : Put(c, n).slots[k] \in {n, c.slots[k]}
    BY <1>2, <1>3, PutLists
  <1>5. Lists(Put(c, n), disk, version, now)
    BY <1>2, <1>3, <1>4 DEF Lists
  <1>. QED  BY <1>1, <1>5

LEMMA GetDirKeeps == ASSUME IInv, NEW p \in Paths, GetDir(p) PROVE IInv'
  <1>1. PICK s, i, di, k, expired, cleared, f :
            /\ s = Validated(stats, p).cache /\ i = Validated(stats, p).at /\ di = s.slots[i]
            /\ k = Found(lists, p) /\ expired \in BOOLEAN /\ (expired <=> k # None /\ Expired(lists.slots[k], di))
            /\ cleared = IF expired THEN [lists EXCEPT !.slots[k] = NoListing] ELSE lists
            /\ f = disk[p].file
    OBVIOUS
  <1>2. PICK built : built = [of |-> disk[p].of, version |-> disk[p].version, mtime |-> now]
    OBVIOUS
  <1>3. PICK written : written = IF use_prebuild_dirlists THEN [disk EXCEPT ![p] = Written(@, built)] ELSE disk
    OBVIOUS
  <1>4. /\ version' = version
        /\ \/ Becomes(s, lists, disk, None)
           \/ Becomes(s, cleared, disk, None)
           \/ Becomes(s, Put(cleared, Listing(p, f)), disk, None)
           \/ disk[p] # Gone /\ Becomes(s, Put(cleared, Listing(p, built)), written, None)
    BY <1>1, <1>2, <1>3, Zenon DEF GetDir
  <1>5. Settled /\ Stats(s, disk, version, now)
    BY <1>1, IInvIs, ValidatedIs DEF Answers
  <1>6. Lists(cleared, disk, version, now)
    <2>1. CASE expired
      <3>1. lists \in ListCaches(version, now)
        BY IInvIs DEF Lists
      <3>2. k \in ListSlots
        BY <1>1, <2>1, <3>1, FoundList
      <3>. QED  BY <1>1, <2>1, <3>2, IInvIs, ListsCleared
    <2>2. CASE ~expired
      BY <1>1, <2>2, IInvIs
    <2>. QED  BY <1>1, <2>1, <2>2
  <1>7. Lists(Put(cleared, Listing(p, f)), disk, version, now)
    <2>1. f \in Files(version, now) /\ Shows(f, disk)
      BY <1>1, <1>5 DEF Settled, World, Dirs
    <2>. QED  BY <1>5, <1>6, <2>1, ListsPut
  <1>8. built \in Files(version, now) /\ built.of = disk[p].of /\ built.version = disk[p].version
    <2>1. disk[p] \in Dirs(version, now) /\ now \in 0..now
      BY <1>5, SettledIs
    <2>2. disk[p].of \in Made(version) /\ disk[p].version \in 0..version
      BY <2>1 DEF Dirs
    <2>. QED  BY <1>2, <2>1, <2>2 DEF Files
  <1>9. Lists(Put(cleared, Listing(p, built)), disk, version, now)
    <2>1. Shows(built, disk)
      BY <1>5, <1>8 DEF Shows, Settled, World
    <2>. QED  BY <1>5, <1>6, <1>8, <2>1, ListsPut
  <1>10. Follows(disk, version)
    BY <1>5, NothingMoves
  <1>11. ASSUME disk[p] # Gone PROVE Follows(written, version)
    <2>1. PICK n : n = Written(disk[p], built)
      OBVIOUS
    <2>2. Heir(disk[p], n, version)
      BY <1>5, <1>8, <2>1, WrittenIs
    <2>3. Follows([disk EXCEPT ![p] = n], version)
      BY <1>5, <1>11, <2>2, OneMoves
    <2>4. use_prebuild_dirlists => written = [disk EXCEPT ![p] = n]
      BY <1>1, <1>3, <1>5, <2>1 DEF Settled, World
    <2>. QED  BY <1>3, <1>10, <2>3, <2>4
  <1>12. CASE Becomes(s, lists, disk, None)
    BY <1>4, <1>5, <1>10, <1>12, IInvIs, StepKeeps
  <1>13. CASE Becomes(s, cleared, disk, None)
    BY <1>4, <1>5, <1>6, <1>10, <1>13, IInvIs, StepKeeps
  <1>14. CASE Becomes(s, Put(cleared, Listing(p, f)), disk, None)
    BY <1>4, <1>5, <1>7, <1>10, <1>14, IInvIs, StepKeeps
  <1>15. CASE disk[p] # Gone /\ Becomes(s, Put(cleared, Listing(p, built)), written, None)
    BY <1>4, <1>5, <1>9, <1>11, <1>15, IInvIs, StepKeeps
  <1>. QED  BY <1>4, <1>12, <1>13, <1>14, <1>15

LEMMA MakeDirKeeps == ASSUME IInv, NEW p \in Subdirs, MakeDir(p) PROVE IInv'
  <1>1. PICK c, i, di, o, made, h, e, s, d :
            /\ c = Validated(stats, Home).cache /\ i = Validated(stats, Home).at /\ di = c.slots[i]
            /\ o = Directory(p, version + 1, {}, now) /\ made = Saved(o, di.rights)
            /\ e = Info(p, made, now) /\ s = Put(c, e)
            /\ d = [disk EXCEPT ![p] = made, ![Home] = Changed(@)]
            /\ h = Changed(disk[Home])
    OBVIOUS
  <1>2. /\ i # None /\ disk[p] = Gone /\ version < MaxVersion /\ version' = version + 1
        /\ Becomes(s, lists, d, c.next)
    BY <1>1, Zenon DEF MakeDir
  <1>3. Settled /\ Home \in Paths /\ p \in Paths
    BY IInvIs, HomeIs DEF Paths
  <1>4. Stats(c, disk, version, now) /\ i \in StatSlots
    BY <1>1, <1>2, <1>3, IInvIs, ValidatedAt
  <1>5. di.rights \in SUBSET Flags
    BY <1>1, <1>4 DEF Stats, StatCaches, Entries
  <1>6. version \in Nat /\ version + 1 \in Nat /\ now \in Nat /\ now \in 0..now /\ version <= version + 1 /\ now <= now
    BY <1>3, SettledIs
  <1>7. New(o, version + 1)
    BY <1>1, <1>3, MadeIs
  <1>8. New(made, version + 1)
    <2>1. o \in Dirs(version + 1, now) /\ Dated(o) /\ o.of # <<>> /\ o.of[2] = version + 1
      BY <1>7 DEF New
    <2>2. Heir(o, made, version + 1) /\ made.file = NoFile
      BY <1>1, <1>3, <1>5, <2>1, SavedIs
    <2>. QED  BY <2>1, <2>2 DEF Heir, New
  <1>9. Follows(d, version + 1) /\ d[p] = made
    BY <1>1, <1>3, <1>8, HomeMoves
  <1>10. /\ e \in Entries(version + 1, now) /\ e.path = p /\ e.rights = made.rights /\ e.mtime = now
         /\ e.of = made.of
    <2>1. PICK w \in Nat : w = version + 1
      BY <1>6
    <2>2. made \in Dirs(w, now)
      BY <1>8, <2>1 DEF New
    <2>3. PICK m \in 0..now : m = now
      BY <1>6
    <2>4. e = Info(p, made, m)
      BY <1>1, <2>3
    <2>. QED  BY <1>3, <1>6, <2>1, <2>2, <2>3, <2>4, InfoIs
  <1>11. Tells(e, d)
    <2>1. World(d, version + 1, now)
      BY <1>3, <1>9, WorldStill
    <2>2. made.of # <<>> /\ made.contentAt \in 0..now
      BY <1>8 DEF New, Dirs
    <2>3. made.contentAt <= now
      BY <1>6, <2>2
    <2>. QED  BY <1>3, <1>6, <1>9, <1>10, <2>1, <2>2, <2>3, TellsExactly
  <1>12. c \in StatCaches(version, now) /\ c \in StatCaches(version + 1, now)
    BY <1>4, <1>6, Grow DEF Stats
  <1>13. /\ s \in StatCaches(version + 1, now)
         /\ \A k \in StatSlots : s.slots[k] = IF k = c.next THEN e ELSE c.slots[k]
    <2>1. PICK w \in Nat : w = version + 1
      BY <1>6
    <2>2. e \in Entries(w, now) /\ c \in StatCaches(w, now)
      BY <1>10, <1>12, <2>1
    <2>3. s = Put(c, e)
      BY <1>1
    <2>4. s \in StatCaches(w, now) /\ \A k \in StatSlots : s.slots[k] = IF k = c.next THEN e ELSE c.slots[k]
      BY <2>2, <2>3, PutStats
    <2>. QED  BY <2>1, <2>4
  <1>14. \A k \in StatSlots : k # c.next => s.slots[k] \in Entries(version, now) /\ Tells(s.slots[k], disk)
    BY <1>4, <1>12, <1>13 DEF Stats, StatCaches
  <1>15. c.next \in StatSlots => Tells(s.slots[c.next], d)
    BY <1>11, <1>13
  <1>16. lists \in ListCaches(version + 1, now) /\ \A k \in ListSlots : Shows(lists.slots[k], d)
    BY <1>3, <1>9, IInvIs, ListsStill
  <1>17. version + 1 <= MaxVersion
    BY <1>2, <1>6, DirCacheAssumption
  <1>. QED  BY <1>2, <1>3, <1>9, <1>13, <1>14, <1>15, <1>16, <1>17, IInvIs, BecomesKeeps

LEMMA DelDirKeeps == ASSUME IInv, NEW p \in Subdirs, NEW empty \in BOOLEAN, DelDir(p, empty) PROVE IInv'
  <1>1. PICK c, i, e, s, o, n, d, g :
            /\ c = Validated(stats, p).cache /\ i = Validated(stats, p).at /\ e = c.slots[i]
            /\ s = [c EXCEPT !.slots[i].lastcheck = 0]
            /\ o = Saved(disk[p], {}) /\ n = Saved(o, e.rights) /\ d = [disk EXCEPT ![p] = n]
            /\ g = [disk EXCEPT ![p] = Gone, ![Home] = Changed(@)]
    OBVIOUS
  <1>2. /\ i # None /\ disk[p] # Gone /\ version < MaxVersion /\ version' = version + 1
        /\ IF empty THEN Becomes(s, lists, g, None) ELSE Becomes(c, lists, d, None)
    <2>1. [disk EXCEPT ![p] = Saved(o, e.rights)] = d
      BY <1>1
    <2>. QED  BY <1>1, <2>1, Zenon DEF DelDir
  <1>3. Settled /\ p \in Paths
    BY IInvIs DEF Paths
  <1>4. Stats(c, disk, version, now) /\ i \in StatSlots
    BY <1>1, <1>2, <1>3, IInvIs, ValidatedAt
  <1>5. c \in StatCaches(version, now) /\ e \in Entries(version, now) /\ Tells(e, disk)
    BY <1>1, <1>4 DEF Stats, StatCaches
  <1>6. version + 1 <= MaxVersion
    BY <1>2, <1>3, SettledIs, DirCacheAssumption
  <1>7. CASE empty
    <2>1. Follows(g, version + 1)
      BY <1>1, <1>3, HomeMoves
    <2>2. PICK m : m = [e EXCEPT !.lastcheck = 0]
      OBVIOUS
    <2>3. m \in Entries(version, now) /\ Tells(m, disk)
      <3>1. 0 \in 0..now
        BY <1>3, SettledIs
      <3>2. /\ m \in Entries(version, now) /\ m.path = e.path /\ m.rights = e.rights /\ m.mtime = e.mtime
            /\ m.of = e.of /\ m.masked = e.masked /\ m.missed = e.missed
        BY <1>5, <2>2, <3>1 DEF Entries
      <3>. QED  BY <1>5, <3>2 DEF Tells
    <2>4. s = [c EXCEPT !.slots[i] = m]
      BY <1>1, <1>4, <1>5, <2>2 DEF StatCaches
    <2>5. s \in StatCaches(version, now) /\ s.slots[i] = m /\ \A k \in StatSlots : k # i => s.slots[k] = c.slots[k]
      BY <1>4, <1>5, <2>3, <2>4, SlotIs
    <2>6. Stats(s, disk, version, now)
      BY <1>3, <1>4, <2>3, <2>5, StatsWith
    <2>. QED  BY <1>2, <1>3, <1>6, <1>7, <2>1, <2>6, IInvIs, StepKeeps
  <1>8. CASE ~empty
    <2>1. disk[p] \in Dirs(version + 1, now) /\ Dated(disk[p])
      <3>1. version \in Nat /\ version + 1 \in Nat /\ now \in Nat /\ version <= version + 1 /\ now <= now
        BY <1>3, SettledIs
      <3>. QED  BY <1>3, <3>1, SettledIs, Grow
    <2>2. PICK none \in SUBSET Flags : none = {}
      OBVIOUS
    <2>3. Heir(disk[p], o, version + 1)
      BY <1>1, <1>3, <2>1, <2>2, SavedIs
    <2>4. o \in Dirs(version + 1, now) /\ Dated(o) /\ e.rights \in SUBSET Flags
      BY <1>5, <2>3 DEF Heir, Entries
    <2>5. Heir(o, n, version + 1) /\ n.file = NoFile
      BY <1>1, <1>3, <2>4, SavedIs
    <2>6. Follows(d, version + 1)
      BY <1>1, <1>2, <1>3, <2>3, <2>5, HeirHeir, OneMoves
    <2>. QED  BY <1>2, <1>3, <1>4, <1>6, <1>8, <2>6, IInvIs, StepKeeps
  <1>. QED  BY <1>7, <1>8

(* A directory gets another name. *)
LEMMA Renames ==
    ASSUME Settled, NEW p \in Subdirs, NEW q \in Subdirs, disk[p] # Gone, disk[q] = Gone
    PROVE  LET d == [disk EXCEPT ![q] = disk[p], ![p] = Gone, ![Home] = Changed(@)]
           IN  Follows(d, version + 1) /\ d[Home] = Changed(disk[Home])
  <1>1. PICK d, h, v : /\ h = Changed(disk[Home]) /\ d = [disk EXCEPT ![q] = disk[p], ![p] = Gone, ![Home] = h]
                       /\ v = version + 1
    OBVIOUS
  <1>2. p \in Paths /\ q \in Paths /\ Home \in Paths /\ p # Home /\ q # Home /\ p # q
    BY DirCacheAssumption DEF Paths
  <1>3. disk \in [Paths -> Dirs(version, now)]
    BY DEF Settled, World
  <1>4. /\ DOMAIN d = Paths /\ d = [x \in Paths |-> d[x]] /\ d[q] = disk[p] /\ d[p] = Gone /\ d[Home] = h
        /\ \A x \in Paths : x \notin {p, q, Home} => d[x] = disk[x]
    BY <1>1, <1>2, <1>3
  <1>5. Heir(disk[Home], h, v) /\ disk[Home] # Gone
    BY <1>1, <1>2, ChangedIs, HomeIs
  <1>6. h.of = disk[Home].of /\ disk[Home].of # <<>>
    BY <1>2, <1>5, There DEF Heir
  <1>7. ASSUME NEW x \in Paths
        PROVE  /\ d[x] \in Dirs(v, now)
               /\ d[x] # Gone => \E r \in Paths : disk[r] # Gone /\ Heir(disk[r], d[x], v)
    <2>1. v \in Nat /\ now \in Nat /\ v \in {version, version + 1}
      BY <1>1, SettledIs
    <2>2. \A r \in Paths : Heir(disk[r], disk[r], v) /\ disk[r] \in Dirs(v, now)
      BY <2>1, HeirSelf DEF Heir
    <2>3. CASE x = Home
      BY <1>2, <1>4, <1>5, <2>3 DEF Heir
    <2>4. CASE x = q
      BY <1>2, <1>4, <2>2, <2>4
    <2>5. CASE x = p
      BY <1>4, <2>1, <2>5, GoneIs
    <2>6. CASE x \notin {p, q, Home}
      BY <1>4, <2>2, <2>6
    <2>. QED  BY <2>3, <2>4, <2>5, <2>6
  <1>8. ASSUME NEW x \in Paths, NEW y \in Paths, x # y, d[x].of = d[y].of PROVE d[x].of = <<>>
    <2> DEFINE from(z) == IF z = q THEN p ELSE IF z = p THEN q ELSE z
    <2>1. \A z \in Paths : from(z) \in Paths /\ d[z].of = disk[from(z)].of
      BY <1>2, <1>4, <1>6
    <2>2. from(x) # from(y)
      BY <1>8
    <2> HIDE DEF from
    <2>3. disk[from(x)].of = disk[from(y)].of
      BY <1>8, <2>1
    <2>4. disk[from(x)].of = <<>>
      BY <2>1, <2>2, <2>3 DEF Settled, World
    <2>. QED  BY <2>1, <2>4
  <1>9. d \in [Paths -> Dirs(v, now)]
    BY <1>4, <1>7
  <1>10. Follows(d, v)
    BY <1>4, <1>6, <1>7, <1>8, <1>9 DEF Follows
  <1>11. d = [disk EXCEPT ![q] = disk[p], ![p] = Gone, ![Home] = Changed(@)]
    BY <1>1, <1>2, <1>3
  <1>. QED  BY <1>1, <1>4, <1>10, <1>11

LEMMA RenameDirKeeps == ASSUME IInv, NEW p \in Subdirs, NEW q \in Subdirs, RenameDir(p, q) PROVE IInv'
  <1>1. PICK c, i, s, d : /\ c = Validated(stats, Home).cache /\ i = Validated(stats, Home).at /\ s = Touched(c, i)
                          /\ d = [disk EXCEPT ![q] = disk[p], ![p] = Gone, ![Home] = Changed(@)]
    OBVIOUS
  <1>2. /\ i # None /\ disk[p] # Gone /\ disk[q] = Gone /\ version < MaxVersion /\ version' = version + 1
        /\ Becomes(s, lists, d, i)
    BY <1>1, Zenon DEF RenameDir
  <1>3. Settled /\ Home \in Paths
    BY IInvIs, HomeIs
  <1>4. Stats(c, disk, version, now) /\ i \in StatSlots /\ c.slots[i].path = Home
    BY <1>1, <1>2, <1>3, IInvIs, ValidatedAt
  <1>5. Follows(d, version + 1) /\ d[Home] = Changed(disk[Home])
    BY <1>1, <1>2, <1>3, Renames
  <1>6. d[Home].of = disk[Home].of /\ d[Home].rights = disk[Home].rights
    BY <1>3, <1>5, ChangedIs DEF Heir
  <1>7. Stats(s, disk, version, now) /\ Tells(s.slots[i], d)
    BY <1>1, <1>3, <1>4, <1>5, <1>6, TouchedTells
  <1>8. version + 1 <= MaxVersion
    BY <1>2, <1>3, SettledIs, DirCacheAssumption
  <1>. QED  BY <1>2, <1>3, <1>5, <1>7, <1>8, IInvIs, StepKeeps

LEMMA RenameFileKeeps ==
    ASSUME IInv, NEW p \in Paths, NEW q \in Paths \ {p}, RenameFile(p, q) PROVE IInv'
  <1>1. PICK c, b, i, j, s, d : /\ c = Validated(stats, p).cache /\ i = Validated(stats, p).at
                                /\ b = Validated(c, q).cache /\ j = Validated(c, q).at /\ s = Touched(b, j)
                                /\ d = [disk EXCEPT ![p] = Changed(@), ![q] = Changed(@)]
    OBVIOUS
  <1>2. /\ i # None /\ version < MaxVersion
        /\ \/ /\ j = i /\ disk[p] # Gone /\ disk[q] # Gone /\ version' = version + 1
              /\ Becomes(s, lists, d, j)
           \/ version' = version /\ Becomes(b, lists, disk, None)
    BY <1>1, Zenon DEF RenameFile
  <1>3. Settled /\ q \in Paths
    BY IInvIs
  <1>4. Stats(c, disk, version, now)
    BY <1>1, <1>3, IInvIs, ValidatedIs DEF Answers
  <1>5. Stats(b, disk, version, now)
    BY <1>1, <1>3, <1>4, ValidatedIs DEF Answers
  <1>6. CASE /\ j = i /\ disk[p] # Gone /\ disk[q] # Gone /\ version' = version + 1
             /\ Becomes(s, lists, d, j)
    <2>1. j \in StatSlots /\ b.slots[j].path = q
      <3>1. Validated(c, q).at # None
        BY <1>1, <1>2, <1>6
      <3>2. j \in StatSlots /\ Validated(c, q).cache.slots[j].path = q
        BY <1>1, <1>3, <1>4, <3>1, ValidatedAt
      <3>. QED  BY <1>1, <3>2
    <2>2. disk \in [Paths -> Dirs(version, now)]
      BY <1>3 DEF Settled, World
    <2>3. /\ DOMAIN d = Paths /\ d = [x \in Paths |-> d[x]]
          /\ d[p] = Changed(disk[p]) /\ d[q] = Changed(disk[q])
          /\ \A x \in Paths : x \notin {p, q} => d[x] = disk[x]
      BY <1>1, <1>3, <2>2
    <2>4. /\ Heir(disk[p], d[p], version + 1) /\ Heir(disk[q], d[q], version + 1)
          /\ d[q].rights = disk[q].rights
      BY <1>3, <2>3, ChangedIs
    <2>5. \A x \in Paths : d[x] = Gone \/ (disk[x] # Gone /\ Heir(disk[x], d[x], version + 1))
      BY <1>3, <1>6, <2>3, <2>4, HeirSelf
    <2>6. d[Home] # Gone
      <3>1. Heir(disk[Home], d[Home], version + 1) /\ disk[Home].of # <<>>
        BY <1>3, <2>3, <2>4, HeirSelf, HomeIs, There
      <3>. QED  BY <3>1, GoneIs DEF Heir
    <2>7. Follows(d, version + 1)
      BY <1>3, <2>3, <2>5, <2>6, InPlace
    <2>8. Stats(s, disk, version, now) /\ Tells(s.slots[j], d)
      BY <1>1, <1>3, <1>5, <2>1, <2>4, <2>7, TouchedTells DEF Heir
    <2>9. version + 1 <= MaxVersion
      BY <1>2, <1>3, SettledIs, DirCacheAssumption
    <2>. QED  BY <1>3, <1>6, <2>7, <2>8, <2>9, IInvIs, StepKeeps
  <1>7. CASE version' = version /\ Becomes(b, lists, disk, None)
    <2>1. Follows(disk, version)
      BY <1>3, NothingMoves
    <2>. QED  BY <1>3, <1>5, <1>7, <2>1, IInvIs, StepKeeps
  <1>. QED  BY <1>2, <1>6, <1>7

LEMMA OutsideKeeps == ASSUME IInv, NEW p \in Paths, Outside(p) PROVE IInv'
  <1>1. Settled /\ version < MaxVersion /\ version' = version + 1
    BY IInvIs DEF Outside
  <1>2. version + 1 <= MaxVersion
    BY <1>1, SettledIs, DirCacheAssumption
  <1>3. ASSUME disk[p] # Gone, NEW rights \in SUBSET Flags,
               Becomes(stats, lists, [disk EXCEPT ![p] = Flagged(@, rights)], None)
        PROVE  IInv'
    <2>1. PICK n, d : n = Flagged(disk[p], rights) /\ d = [disk EXCEPT ![p] = n]
      OBVIOUS
    <2>2. Heir(disk[p], n, version + 1)
      BY <1>1, <2>1, FlaggedIs
    <2>3. Follows(d, version + 1)
      BY <1>1, <1>3, <2>1, <2>2, OneMoves
    <2>4. Becomes(stats, lists, d, None)
      BY <1>3, <2>1
    <2>. QED  BY <1>1, <1>2, <2>3, <2>4, IInvIs, StepKeeps
  <1>4. ASSUME p # Home,
               Becomes(stats, lists,
                       [disk EXCEPT ![p] = IF @ = Gone THEN Directory(p, version + 1, {}, now) ELSE Gone,
                                    ![Home] = Changed(@)], None)
        PROVE  IInv'
    <2>1. PICK n, d : /\ n = IF disk[p] = Gone THEN Directory(p, version + 1, {}, now) ELSE Gone
                      /\ d = [disk EXCEPT ![p] = n, ![Home] = Changed(@)]
      OBVIOUS
    <2>2. p \in Subdirs /\ (n = Gone \/ New(n, version + 1))
      BY <1>1, <1>4, <2>1, MadeIs DEF Paths
    <2>3. Follows(d, version + 1)
      BY <1>1, <2>1, <2>2, HomeMoves
    <2>4. Becomes(stats, lists, d, None)
      BY <1>4, <2>1
    <2>. QED  BY <1>1, <1>2, <2>3, <2>4, IInvIs, StepKeeps
  <1>. QED  BY <1>3, <1>4 DEF Outside

LEMMA TickKeeps == ASSUME IInv, Tick PROVE IInv'
  <1>1. PICK t \in Nat : t = now + 1 /\ t \in Times /\ now <= t
    BY DirCacheAssumption DEF IInv, Tick, Times
  <1>2. now' = t /\ version' = version /\ disk' = disk /\ stats' = stats /\ lists' = lists
    BY <1>1 DEF Tick
  <1>3. version \in Nat /\ now \in Nat /\ version <= version
    BY IInvIs, SettledIs
  <1>4. World(disk, version, t)
    <2>1. Dirs(version, now) \subseteq Dirs(version, t)
      BY <1>1, <1>3, Grow
    <2>. QED  BY <2>1, IInvIs DEF Settled, World
  <1>5. Stats(stats, disk, version, t)
    BY <1>1, <1>3, Grow, IInvIs DEF Stats
  <1>6. Lists(lists, disk, version, t)
    BY <1>1, <1>3, Grow, IInvIs DEF Lists
  <1>7. World(disk', version', now') /\ Stats(stats', disk', version', now') /\ Lists(lists', disk', version', now')
    BY <1>2, <1>4, <1>5, <1>6
  <1>8. now' \in Times /\ version' \in 1..MaxVersion
    BY <1>1, <1>2 DEF IInv
  <1>. QED  BY <1>7, <1>8 DEF IInv, World, Stats, Lists, Shows, Tells

(* The caches of a server just started. *)
LEMMA EmptyStats ==
    ASSUME NEW v \in Nat, now \in Nat, NEW d
    PROVE  Stats(EmptyCache(StatSize, NoInfo), d, v, now)
  <1>1. NoInfo \in Entries(v, now) /\ Tells(NoInfo, d)
    BY NoInfoIs DEF Tells
  <1>2. EmptyCache(StatSize, NoInfo) = [slots |-> [i \in StatSlots |-> NoInfo], next |-> 0] /\ 0 \in StatSlots
    BY DirCacheAssumption DEF EmptyCache, StatSlots
  <1>. QED  BY <1>1, <1>2 DEF Stats, StatCaches

LEMMA EmptyLists ==
    ASSUME NEW v \in Nat, now \in Nat, NEW d
    PROVE  Lists(EmptyCache(ListSize, NoListing), d, v, now)
  <1>1. NoListing \in Listings(v, now) /\ Shows(NoListing, d)
    <2>1. NoFile \in Files(v, now) /\ Shows(NoFile, d)
      BY NoFileIs DEF Shows
    <2>. QED  BY <2>1, ListingIs DEF NoListing
  <1>2. EmptyCache(ListSize, NoListing) = [slots |-> [i \in ListSlots |-> NoListing], next |-> 0] /\ 0 \in ListSlots
    BY DirCacheAssumption DEF EmptyCache, ListSlots
  <1>. QED  BY <1>1, <1>2 DEF Lists, ListCaches

LEMMA RestartKeeps == ASSUME IInv, Restart PROVE IInv'
  <1>1. PICK s, l : s = EmptyCache(StatSize, NoInfo) /\ l = EmptyCache(ListSize, NoListing)
    OBVIOUS
  <1>2. Becomes(s, l, disk, None) /\ version' = version
    BY <1>1 DEF Restart
  <1>3. Settled /\ version \in Nat /\ now \in Nat
    BY IInvIs, SettledIs
  <1>4. Stats(s, disk, version, now) /\ Lists(l, disk, version, now)
    BY <1>1, <1>3, EmptyStats, EmptyLists
  <1>5. Follows(disk, version)
    BY <1>3, NothingMoves
  <1>. QED  BY <1>2, <1>3, <1>4, <1>5, IInvIs, StepKeeps

LEMMA InitKeeps == Init => IInv
  <1>. SUFFICES ASSUME Init PROVE IInv
    OBVIOUS
  <1>1. now \in Nat /\ now \in Times /\ version = 1 /\ 1 \in 1..MaxVersion
    BY DirCacheAssumption DEF Init, Times
  <1>2. PICK P \in SUBSET Subdirs : disk = [p \in Paths |-> IF p \in P THEN Gone ELSE Directory(p, 1, {}, 0)]
    BY DEF Init
  <1>3. \A p \in Paths : Gone \in Dirs(1, now) /\ Directory(p, 1, {}, 0) \in Dirs(1, now)
    <2>1. PICK none \in SUBSET Flags : none = {}
      OBVIOUS
    <2>2. \A p \in Paths : Directory(p, 1, none, 0) \in Dirs(1, 0)
      <3>1. PICK one \in Nat \ {0}, zero \in Nat : one = 1 /\ zero = 0
        OBVIOUS
      <3>2. \A p \in Paths : Directory(p, one, none, zero) \in Dirs(one, zero)
        BY DirectoryIs
      <3>. QED  BY <3>1, <3>2
    <2>3. Dirs(1, 0) \subseteq Dirs(1, now)
      BY <1>1, Grow
    <2>. QED  BY <1>1, <2>1, <2>2, <2>3, GoneIs
  <1>4. disk \in [Paths -> Dirs(1, now)]
    BY <1>2, <1>3
  <1>5. ASSUME NEW p \in Paths
        PROVE  /\ p \in P => disk[p].of = <<>>
               /\ p \notin P => disk[p].of # <<>> /\ disk[p].of[1] = p
               /\ Dated(disk[p]) /\ (disk[p] # Gone => disk[p].of # <<>>) /\ disk[p].file = NoFile
    <2>1. CASE p \in P
      BY <1>2, <2>1, GoneIs
    <2>2. CASE p \notin P
      <3>1. PICK none \in SUBSET Flags : none = {}
        OBVIOUS
      <3>2. PICK n : n = Directory(p, 1, none, 0)
        OBVIOUS
      <3>3. n.of = <<p, 1>> /\ n.file = NoFile /\ Dated(n)
        BY <3>2, DirectoryIs
      <3>4. disk[p] = n
        BY <1>2, <2>2, <3>1, <3>2
      <3>. QED  BY <2>2, <3>3, <3>4
    <2>. QED  BY <2>1, <2>2
  <1>6. World(disk, 1, now)
    <2>1. Shows(NoFile, disk)
      BY NoFileIs DEF Shows
    <2>2. Home \in Paths /\ Home \notin P
      BY <1>2, DirCacheAssumption DEF Paths
    <2>3. disk[Home].of # <<>>
      BY <1>5, <2>2
    <2>4. ASSUME NEW p \in Paths, NEW q \in Paths, p # q, disk[p].of = disk[q].of PROVE disk[p].of = <<>>
      BY <1>5, <2>4
    <2>. QED  BY <1>4, <1>5, <2>1, <2>3, <2>4 DEF World
  <1>7. Stats(stats, disk, 1, now) /\ Lists(lists, disk, 1, now)
    BY <1>1, EmptyStats, EmptyLists DEF Init
  <1>. QED  BY <1>1, <1>6, <1>7 DEF IInv

LEMMA StepsKeep == IInv /\ [Next]_vars => IInv'
  <1>. SUFFICES ASSUME IInv, [Next]_vars PROVE IInv'
    OBVIOUS
  <1>1. Subdirs \subseteq Paths /\ Listed \subseteq Paths
    BY DirCacheAssumption DEF Paths
  <1>2. ASSUME NEW p \in Paths, GetPro(p) \/ Stat(p) \/ Alter(p) \/ Outside(p) PROVE IInv'
    BY <1>2, GetProKeeps, StatKeeps, AlterKeeps, OutsideKeeps
  <1>3. ASSUME NEW p \in Paths, NEW f \in Flags, NEW on \in BOOLEAN, SetPro(p, f, on) PROVE IInv'
    BY <1>3, SetProKeeps
  <1>4. ASSUME NEW p \in Listed, GetDir(p) PROVE IInv'
    BY <1>1, <1>4, GetDirKeeps
  <1>5. ASSUME NEW p \in Paths, NEW q \in Paths \ {p}, RenameFile(p, q) PROVE IInv'
    BY <1>5, RenameFileKeeps
  <1>6. ASSUME NEW p \in Subdirs, MakeDir(p) PROVE IInv'
    BY <1>6, MakeDirKeeps
  <1>7. ASSUME NEW p \in Subdirs, NEW empty \in BOOLEAN, DelDir(p, empty) PROVE IInv'
    BY <1>7, DelDirKeeps
  <1>8. ASSUME NEW p \in Subdirs, NEW q \in Subdirs, RenameDir(p, q) PROVE IInv'
    BY <1>8, RenameDirKeeps
  <1>9. CASE Tick
    BY <1>9, TickKeeps
  <1>10. CASE Restart
    BY <1>10, RestartKeeps
  <1>11. CASE UNCHANGED vars
    BY <1>11 DEF vars, IInv, World, Stats, Lists, Shows, Tells
  <1>. QED  BY <1>2, <1>3, <1>4, <1>5, <1>6, <1>7, <1>8, <1>9, <1>10, <1>11 DEF Next

-----------------------------------------------------------------------------
(* What holds *)

LEMMA TypesOf == IInv => TypeOK
  <1>. SUFFICES ASSUME IInv PROVE TypeOK
    OBVIOUS
  <1>1. Settled /\ now \in Times /\ version \in 1..MaxVersion /\ 0..now \subseteq Times
    BY IInvIs, DirCacheAssumption DEF IInv, Times
  <1>2. ASSUME NEW p \in Paths
        PROVE  /\ disk[p].rights \subseteq Flags /\ disk[p].version \in 0..version
               /\ disk[p].mtime \in Times /\ disk[p].mtime <= now
               /\ disk[p].file.mtime \in Times \cup {None}
    <2>1. disk[p] \in Dirs(version, now) /\ now \in Nat
      BY <1>1, SettledIs
    <2>2. disk[p].file \in Files(version, now) /\ disk[p].mtime \in 0..now
      BY <2>1 DEF Dirs
    <2>3. disk[p].file.mtime \in 0..now \cup {None}
      BY <2>2 DEF Files
    <2>. QED  BY <1>1, <2>1, <2>2, <2>3 DEF Dirs
  <1>3. stats \in StatCaches(version, now) /\ lists \in ListCaches(version, now)
    BY IInvIs DEF Stats, Lists
  <1>4. ASSUME NEW i \in 0..StatSize - 1
        PROVE  /\ stats.slots[i].path \in Paths \cup {NoPath} /\ stats.slots[i].rights \subseteq Flags
               /\ stats.slots[i].mtime \in 0..now /\ stats.slots[i].lastcheck \in 0..now
    <2>1. stats.slots[i] \in Entries(version, now)
      BY <1>3 DEF StatCaches, StatSlots
    <2>. QED  BY <2>1 DEF Entries
  <1>5. ASSUME NEW i \in 0..ListSize - 1
        PROVE  lists.slots[i].path \in Paths \cup {NoPath} /\ lists.slots[i].version \in 0..version
    <2>1. lists.slots[i] \in Listings(version, now)
      BY <1>3 DEF ListCaches, ListSlots
    <2>. QED  BY <2>1 DEF Listings
  <1>6. stats.next \in 0..StatSize - 1 /\ lists.next \in 0..ListSize - 1
    BY <1>3 DEF StatCaches, ListCaches, StatSlots, ListSlots
  <1>. QED  BY <1>1, <1>2, <1>4, <1>5, <1>6 DEF TypeOK

(* What an entry that is used says of its directory. *)
LEMMA EntryIs ==
    ASSUME IInv, NEW p \in Paths, NEW e, Validated(stats, p).at # None,
           e = Validated(stats, p).cache.slots[Validated(stats, p).at]
    PROVE  /\ e.path = p /\ e.mtime \in 0..now /\ (e.missed => Fresh(e))
           /\ ~e.missed /\ ~e.masked =>
                  /\ disk[p] # Gone /\ disk[p].contentAt <= e.mtime
                  /\ disk[p].rights = e.rights \/ disk[p].rightsAt = e.mtime
  <1>1. PICK c, i : c = Validated(stats, p).cache /\ i = Validated(stats, p).at
    OBVIOUS
  <1>2. /\ Stats(c, disk, version, now) /\ i \in StatSlots /\ e = c.slots[i]
        /\ e.path = p /\ (e.missed => Fresh(e))
    BY <1>1, IInvIs, ValidatedIs DEF Answers
  <1>3. e \in Entries(version, now) /\ Tells(e, disk)
    BY <1>2 DEF Stats, StatCaches
  <1>4. p # NoPath
    BY DirCacheAssumption DEF Paths
  <1>5. ~e.missed /\ ~e.masked => disk[p] # Gone
    BY <1>2, <1>3, <1>4, IInvIs, There DEF Tells
  <1>. QED  BY <1>2, <1>3, <1>4, <1>5 DEF Tells, Entries

LEMMA RightsOf == IInv => RightsKnown
  <1>. SUFFICES ASSUME IInv, NEW p \in Paths, Validated(stats, p).at # None,
                       NEW e, e = Validated(stats, p).cache.slots[Validated(stats, p).at]
                PROVE  \/ /\ disk[p] # Gone
                          /\ e.rights = disk[p].rights \/ e.mtime = disk[p].rightsAt
                       \/ e.missed /\ Fresh(e)
                       \/ e.masked
    BY DEF RightsKnown
  <1>. QED  BY EntryIs

LEMMA ListingsOf == IInv => ListingKnown
  <1>. SUFFICES ASSUME IInv, NEW p \in Listed, Validated(stats, p).at # None,
                       NEW e, e = Validated(stats, p).cache.slots[Validated(stats, p).at],
                       NEW k, k = Found(lists, p), k # None, NEW l, l = lists.slots[k], ~Expired(l, e)
                PROVE  \/ /\ disk[p] # Gone
                          /\ l.of = disk[p].of => l.version = disk[p].version \/ l.mtime = disk[p].contentAt
                       \/ e.missed /\ Fresh(e)
                       \/ e.masked
    BY DEF ListingKnown
  <1>1. p \in Paths
    BY DirCacheAssumption DEF Paths
  <1>2. /\ e.mtime \in 0..now /\ (e.missed => Fresh(e))
        /\ ~e.missed /\ ~e.masked => disk[p] # Gone /\ disk[p].contentAt <= e.mtime
    BY <1>1, EntryIs
  <1>3. lists \in ListCaches(version, now) /\ \A j \in ListSlots : Shows(lists.slots[j], disk)
    BY IInvIs DEF Lists
  <1>4. k \in ListSlots
    BY <1>3, FoundList
  <1>5. l \in Listings(version, now) /\ Shows(l, disk)
    BY <1>3, <1>4 DEF ListCaches
  <1>6. l.mtime \in Int /\ disk[p].contentAt \in Int /\ e.mtime \in Int
    <2>1. l.mtime \in 0..now \cup {None}
      BY <1>5 DEF Listings
    <2>2. disk[p].contentAt \in 0..now
      BY <1>1, IInvIs, SettledIs
    <2>. QED  BY <1>2, <2>1, <2>2 DEF None
  <1>7. ASSUME ~e.missed, ~e.masked, l.of = disk[p].of, l.version # disk[p].version
        PROVE  l.mtime = disk[p].contentAt
    <2>1. disk[p] # Gone /\ disk[p].contentAt <= e.mtime
      BY <1>2, <1>7
    <2>2. disk[p].of # <<>>
      BY <1>1, <2>1, IInvIs, There
    <2>3. l.mtime <= disk[p].contentAt
      BY <1>1, <1>5, <1>7, <2>2 DEF Shows
    <2>4. ~(l.mtime < e.mtime)
      BY DEF Expired
    <2>. QED  BY <1>6, <2>1, <2>3, <2>4
  <1>. QED  BY <1>2, <1>7

(* Marks of directories are unique, entries and listings agree with the    *)
(* directories they are of, unless these changed later than their mtimes   *)
(* say; every command keeps that.                                          *)
THEOREM Invariance == Spec => []IInv
  <1>. QED  BY InitKeeps, StepsKeep, PTL DEF Spec

(* Directories, dirstatcache and dirlistcache are well typed; no time is   *)
(* in the future, and next stays in the ring.                              *)
THEOREM TypesHold == Spec => []TypeOK
  <1>. QED  BY Invariance, TypesOf, PTL

(* validate_path() judges by the rights the directory has or had less than *)
(* stat_cache_timeout ago, but for a change in the second of the mtime and *)
(* for masked entries.                                                     *)
THEOREM RightsAreKnown == Spec => []RightsKnown
  <1>. QED  BY Invariance, RightsOf, PTL

(* server_get_dir() hands out a listing of the content the directory has   *)
(* or had at the last check, with the exceptions ListingKnown names.       *)
THEOREM ListingsAreKnown == Spec => []ListingKnown
  <1>. QED  BY Invariance, ListingsOf, PTL
=============================================================================
