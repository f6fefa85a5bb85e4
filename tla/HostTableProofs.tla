-------------------------- MODULE HostTableProofs --------------------------
(***************************************************************************)
(* Proofs about HostTable for any addresses and any number of hosts: the   *)
(* table stays sorted within its allocated room, and the entry find_host() *)
(* returns is the one of the address asked for.                            *)
(***************************************************************************)
EXTENDS HostTable, TLAPS

(* The search interval always encloses the address. *)
Bracket == pc = "search" => /\ x \in Addrs /\ l < h
                            /\ htab[l].inet_num < x /\ x < htab[h].inet_num

(* The entry find_host() returned is the sender's. *)
OwnEntry == pc = "serve" => /\ hp \in 1..hcnt - 2
                            /\ x \in Addrs /\ htab[hp].inet_num = x

HostInv == /\ hcnt >= 2
           /\ TypeOK /\ Sorted /\ WithinRoom /\ Bracket /\ OwnEntry

(* The loop reads only entries strictly inside the interval, so neither a  *)
(* sentinel nor anything past the table is compared.                       *)
LEMMA MiddleInside ==
    ASSUME TypeOK, l < h
    PROVE  /\ Middle \in 0..hcnt - 1 /\ l <= Middle /\ Middle < h
           /\ Middle = l => h = l + 1
BY DEF TypeOK, Middle

LEMMA FreshType ==
    ASSUME NEW a \in 0..Highest, NEW named \in BOOLEAN
    PROVE  Fresh(a, named) \in Entries /\ Fresh(a, named).inet_num = a
BY HostTableAssumption DEF Fresh, Entries

(* What a hit does to an entry leaves its address alone. *)
LEMMA AccessedType ==
    ASSUME NEW e \in Entries, NEW named \in BOOLEAN
    PROVE  Accessed(e, named) \in Entries /\ Accessed(e, named).inet_num = e.inet_num
<1> DEFINE acc == IF e.acc_cnt < MaxAcc THEN e.acc_cnt + 1 ELSE 0
<1>1. /\ e.acc_cnt \in 0..MaxAcc /\ MaxAcc \in Nat
      /\ e.inet_num \in 0..Highest /\ e.session \in Sessions
  BY HostTableAssumption DEF Entries
<1>2. acc \in 0..MaxAcc
  BY <1>1
<1> QED BY <1>1, <1>2 DEF Accessed, Entries

(* init_htab() establishes the invariant. *)
LEMMA HostInit == Init => HostInv
<1> SUFFICES ASSUME Init PROVE HostInv
  OBVIOUS
<1>1. /\ hcnt = 2 /\ 0..hcnt - 1 = {0, 1} /\ 0..1 = {0, 1}
      /\ Highest \in Nat /\ Highest > 0
  BY HostTableAssumption DEF Init
<1>2. 0 \in 0..Highest /\ Highest \in 0..Highest /\ FALSE \in BOOLEAN
  BY <1>1
<1>3. /\ Fresh(0, FALSE) \in Entries /\ Fresh(0, FALSE).inet_num = 0
      /\ Fresh(Highest, FALSE) \in Entries /\ Fresh(Highest, FALSE).inet_num = Highest
  BY <1>2, FreshType
<1>4. /\ htab[0] = Fresh(0, FALSE) /\ htab[1] = Fresh(Highest, FALSE)
      /\ DOMAIN htab = {0, 1}
      /\ htab = [i \in {0, 1} |-> htab[i]]
  BY <1>1 DEF Init
<1>5. TypeOK
  <2>1. htab \in [0..hcnt - 1 -> Entries]
    BY <1>1, <1>3, <1>4
  <2>2. hcnt \in Nat /\ htot \in Nat /\ 0 \in 0..hcnt - 1
    BY <1>1, HostTableAssumption DEF Init
  <2>3. pc = "idle" /\ x = None /\ l = 0 /\ h = 0 /\ hp = 0
    BY DEF Init
  <2> QED BY <2>1, <2>2, <2>3 DEF TypeOK
<1>6. Sorted
  <2>1. ASSUME NEW i \in {0, 1}, NEW j \in {0, 1}, i < j
        PROVE  htab[i].inet_num < htab[j].inet_num
    <3>1. i = 0 /\ j = 1
      BY <2>1, SMT
    <3> QED BY <3>1, <1>1, <1>3, <1>4
  <2>2. htab[0].inet_num = 0 /\ htab[hcnt - 1].inet_num = Highest
    <3>1. hcnt - 1 = 1 BY <1>1
    <3> QED BY <3>1, <1>3, <1>4
  <2> QED BY <1>1, <2>1, <2>2 DEF Sorted
<1>7. WithinRoom /\ Bracket /\ OwnEntry
  BY <1>1, HostTableAssumption DEF Init, WithinRoom, Bracket, OwnEntry
<1> QED BY <1>1, <1>5, <1>6, <1>7 DEF HostInv

(* The search starts between the sentinels. *)
LEMMA LookupInv == ASSUME HostInv, NEW a \in Addrs, Lookup(a) PROVE HostInv'
<1>1. a \in Int /\ 0 < a /\ a < Highest /\ hcnt \in Nat /\ hcnt >= 2
  BY HostTableAssumption DEF HostInv, TypeOK
<1>2. TypeOK'
  BY <1>1 DEF HostInv, TypeOK, Lookup, table
<1>3. Sorted' /\ WithinRoom' /\ OwnEntry'
  BY DEF HostInv, Sorted, WithinRoom, OwnEntry, Lookup, table
<1>4. Bracket'
  BY <1>1 DEF HostInv, Sorted, Bracket, Lookup, table
<1> QED BY <1>1, <1>2, <1>3, <1>4 DEF HostInv, Lookup, table

(* A round that does not hit keeps the address inside the interval. *)
LEMMA HalveInv == ASSUME HostInv, Halve PROVE HostInv'
<1>1. /\ Middle \in 0..hcnt - 1 /\ l < Middle /\ Middle < h
      /\ x \in Addrs /\ x \in Int
      /\ htab[Middle].inet_num \in Int
  <2>1. l < h /\ x \in Addrs
    BY DEF HostInv, Bracket, Halve
  <2>2. Middle \in 0..hcnt - 1 /\ l <= Middle /\ Middle < h
    BY <2>1, MiddleInside DEF HostInv
  <2>3. l \in Int /\ Middle \in Int /\ htab[Middle] \in Entries
    BY <2>2 DEF HostInv, TypeOK
  <2> QED BY <2>1, <2>2, <2>3, HostTableAssumption DEF Halve, Entries
<1>2. TypeOK'
  BY <1>1 DEF HostInv, TypeOK, Halve, table
<1>3. Sorted' /\ WithinRoom' /\ OwnEntry'
  BY DEF HostInv, Sorted, WithinRoom, OwnEntry, Halve, table
<1>4. Bracket'
  BY <1>1 DEF HostInv, Bracket, Halve, table
<1> QED BY <1>2, <1>3, <1>4 DEF HostInv, Halve, table

(* Storing into an entry leaves its address, and so the order, alone. *)
LEMMA StoreKeepsOrder ==
    ASSUME HostInv, UNCHANGED hcnt,
           \A i \in 0..hcnt - 1 : htab'[i].inet_num = htab[i].inet_num
    PROVE  Sorted'
BY DEF HostInv, TypeOK, Sorted

(* A hit on the middle entry returns the sender's own. *)
LEMMA HitInv == ASSUME HostInv, Hit PROVE HostInv'
<1>1. /\ Middle \in 0..hcnt - 1 /\ l < Middle /\ Middle < h /\ x \in Addrs
      /\ l \in 0..hcnt - 1 /\ h \in 0..hcnt - 1 /\ hcnt \in Nat
  <2>1. l < h /\ x \in Addrs
    BY DEF HostInv, Bracket, Hit
  <2>2. Middle \in 0..hcnt - 1 /\ l <= Middle /\ Middle < h
    BY <2>1, MiddleInside DEF HostInv
  <2> QED BY <2>1, <2>2 DEF HostInv, TypeOK, Hit
<1>2. PICK named \in Renamed(htab[Middle]) :
        htab' = [htab EXCEPT ![Middle] = Accessed(@, named)]
  BY DEF Hit
<1>3. htab \in [0..hcnt - 1 -> Entries] /\ htab[Middle] \in Entries
  BY <1>1 DEF HostInv, TypeOK
<1>4. named \in BOOLEAN
  BY <1>2, <1>3 DEF Renamed, Entries
<1>5. /\ Accessed(htab[Middle], named) \in Entries
      /\ Accessed(htab[Middle], named).inet_num = htab[Middle].inet_num
  BY <1>3, <1>4, AccessedType
<1>6. htab' \in [0..hcnt - 1 -> Entries]
  BY <1>2, <1>3, <1>5
<1>7. \A i \in 0..hcnt - 1 : htab'[i].inet_num = htab[i].inet_num
  BY <1>1, <1>2, <1>3, <1>5
<1>8. TypeOK'
  BY <1>1, <1>6 DEF HostInv, TypeOK, Hit
<1>9. Sorted'
  BY <1>7, StoreKeepsOrder DEF Hit
<1>10. WithinRoom' /\ Bracket'
  BY DEF HostInv, WithinRoom, Bracket, Hit
<1>11. OwnEntry'
  BY <1>1, <1>7 DEF OwnEntry, Hit
<1> QED BY <1>8, <1>9, <1>10, <1>11 DEF HostInv, Hit

(* The case of a miss: the interval has no entry inside, the new one goes  *)
(* between its ends, and the table stays sorted and within its room.       *)
LEMMA InsertInv == ASSUME HostInv, Insert PROVE HostInv'
<1> DEFINE N == hcnt
<1>1. /\ hcnt \in Nat /\ hcnt >= 2 /\ htot \in Nat /\ hcnt <= htot
      /\ htab \in [0..hcnt - 1 -> Entries]
      /\ x \in Addrs /\ x \in 0..Highest /\ x \in Int
  BY HostTableAssumption DEF HostInv, TypeOK, WithinRoom, Bracket, Insert
<1>2. /\ l \in 0..hcnt - 1 /\ h = l + 1 /\ l + 1 \in 0..hcnt - 1
      /\ htab[l].inet_num < x /\ x < htab[l + 1].inet_num
  <2>1. l < h /\ Middle = l /\ htab[l].inet_num < x /\ x < htab[h].inet_num
    BY DEF HostInv, Bracket, Insert
  <2>2. h = l + 1
    BY <2>1, MiddleInside DEF HostInv
  <2> QED BY <2>1, <2>2 DEF HostInv, TypeOK
<1>3. Place = l + 1
  BY <1>2 DEF Place
<1>4. PICK named \in BOOLEAN :
        htab' = [i \in 0..hcnt |-> IF i < Place THEN htab[i]
                                   ELSE IF i = Place THEN Fresh(x, named)
                                   ELSE htab[i - 1]]
  BY DEF Insert
<1>5. Fresh(x, named) \in Entries /\ Fresh(x, named).inet_num = x
  BY <1>1, FreshType
<1>6. hcnt' = hcnt + 1 /\ 0..hcnt' - 1 = 0..hcnt
  BY <1>1 DEF Insert
<1>7. /\ \A i \in 0..hcnt : /\ i < l + 1 => i \in 0..hcnt - 1 /\ htab'[i] = htab[i]
                            /\ i = l + 1 => htab'[i] = Fresh(x, named)
                            /\ i > l + 1 => i - 1 \in 0..hcnt - 1 /\ htab'[i] = htab[i - 1]
  BY <1>1, <1>2, <1>3, <1>4
<1>8. htab' \in [0..hcnt' - 1 -> Entries]
  <2>1. ASSUME NEW i \in 0..hcnt PROVE htab'[i] \in Entries
    <3>1. CASE i < l + 1 BY <3>1, <1>1, <1>7
    <3>2. CASE i = l + 1 BY <3>2, <1>5, <1>7
    <3>3. CASE i > l + 1 BY <3>3, <1>1, <1>7
    <3> QED BY <1>2, <3>1, <3>2, <3>3
  <2>2. htab' = [i \in 0..hcnt |-> htab'[i]]
    BY <1>4
  <2> QED BY <1>6, <2>1, <2>2
<1>9. TypeOK'
  <2>1. htot' \in Nat
    BY <1>1, HostTableAssumption DEF Insert, Room
  <2>2. l + 1 \in 0..hcnt /\ l \in 0..hcnt /\ h \in 0..hcnt
    BY <1>1, <1>2
  <2> QED BY <1>1, <1>3, <1>6, <1>8, <2>1, <2>2 DEF Insert, TypeOK
<1>10. Sorted'
  <2> DEFINE a(i) == htab[i].inet_num
  <2>1. \A i \in 0..hcnt - 1 : a(i) \in Int
    BY <1>1 DEF Entries
  <2>2. \A i, j \in 0..hcnt - 1 : i < j => a(i) < a(j)
    BY DEF HostInv, Sorted
  <2>3. a(0) = 0 /\ a(hcnt - 1) = Highest
    BY DEF HostInv, Sorted
  <2>4. a(l) < x /\ x < a(l + 1)
    BY <1>2
  <2>5. \A i \in 0..hcnt : htab'[i].inet_num = IF i < l + 1 THEN a(i)
                                               ELSE IF i = l + 1 THEN x ELSE a(i - 1)
    BY <1>2, <1>5, <1>7
  <2> HIDE DEF a
  <2>6. \A i \in 0..hcnt - 1 : /\ i <= l => a(i) < x
                               /\ i >= l + 1 => x < a(i)
    <3> SUFFICES ASSUME NEW i \in 0..hcnt - 1
                 PROVE (i <= l => a(i) < x) /\ (i >= l + 1 => x < a(i))
      OBVIOUS
    <3>1. a(i) \in Int /\ a(l) \in Int /\ a(l + 1) \in Int
      BY <1>2, <2>1
    <3>2. (i < l => a(i) < a(l)) /\ (l + 1 < i => a(l + 1) < a(i))
      BY <1>2, <2>2
    <3> QED BY <1>1, <1>2, <2>4, <3>1, <3>2
  <2>7. ASSUME NEW i \in 0..hcnt, NEW j \in 0..hcnt, i < j
        PROVE  htab'[i].inet_num < htab'[j].inet_num
    <3>1. CASE j < l + 1 BY <3>1, <2>7, <1>1, <1>2, <2>2, <2>5
    <3>2. CASE j = l + 1 BY <3>2, <2>7, <1>1, <1>2, <2>5, <2>6
    <3>3. CASE j > l + 1 /\ i < l + 1 BY <3>3, <2>7, <1>1, <1>2, <2>2, <2>5
    <3>4. CASE j > l + 1 /\ i = l + 1 BY <3>4, <2>7, <1>1, <1>2, <2>5, <2>6
    <3>5. CASE j > l + 1 /\ i > l + 1 BY <3>5, <2>7, <1>1, <1>2, <2>2, <2>5
    <3> QED BY <1>1, <1>2, <3>1, <3>2, <3>3, <3>4, <3>5
  <2>8. htab'[0].inet_num = 0 /\ htab'[hcnt].inet_num = Highest
    BY <1>1, <1>2, <2>3, <2>4, <2>5
  <2> QED BY <1>1, <1>6, <2>7, <2>8 DEF Sorted
<1>11. WithinRoom'
  BY <1>1, HostTableAssumption DEF WithinRoom, Insert, Room
<1>12. Bracket'
  BY DEF Bracket, Insert
<1>13. OwnEntry'
  <2>1. hp' = l + 1 /\ x' = x
    BY <1>3 DEF Insert
  <2>2. l + 1 \in 1..hcnt' - 2 /\ l + 1 \in 0..hcnt
    BY <1>1, <1>2, <1>6
  <2> QED BY <1>1, <1>5, <1>7, <2>1, <2>2 DEF OwnEntry
<1> QED BY <1>1, <1>6, <1>9, <1>10, <1>11, <1>12, <1>13 DEF HostInv

(* The server stores into the entry it was given. *)
LEMMA ServeInv == ASSUME HostInv, Serve PROVE HostInv'
<1>1. PICK s \in Sessions : htab' = [htab EXCEPT ![hp].session = s]
  BY DEF Serve
<1>2. htab \in [0..hcnt - 1 -> Entries] /\ hp \in 0..hcnt - 1 /\ hcnt \in Nat /\ hcnt >= 2
  BY DEF HostInv, TypeOK
<1>3. [htab[hp] EXCEPT !.session = s] \in Entries
  BY <1>1, <1>2 DEF Entries
<1>4. htab' \in [0..hcnt - 1 -> Entries]
  BY <1>1, <1>2, <1>3
<1>5. \A i \in 0..hcnt - 1 : htab'[i].inet_num = htab[i].inet_num
  BY <1>1, <1>2 DEF Entries
<1>6. TypeOK'
  BY <1>2, <1>4 DEF HostInv, TypeOK, Serve, Return
<1>7. Sorted'
  BY <1>5, StoreKeepsOrder DEF Serve, Return
<1>8. WithinRoom' /\ Bracket' /\ OwnEntry'
  BY DEF HostInv, WithinRoom, Bracket, OwnEntry, Serve, Return
<1> QED BY <1>2, <1>6, <1>7, <1>8 DEF HostInv, Serve, Return

LEMMA RefuseInv == ASSUME HostInv, RefuseUnnamed PROVE HostInv'
<1>1. hcnt \in Nat /\ hcnt >= 2
  BY DEF HostInv, TypeOK
<1>2. TypeOK'
  BY <1>1 DEF HostInv, TypeOK, RefuseUnnamed, Return
<1>3. Sorted' /\ WithinRoom' /\ Bracket' /\ OwnEntry'
  BY DEF HostInv, Sorted, WithinRoom, Bracket, OwnEntry, RefuseUnnamed, Return
<1> QED BY <1>2, <1>3 DEF HostInv, RefuseUnnamed, Return

LEMMA HostNext == HostInv /\ [Next]_vars => HostInv'
<1> SUFFICES ASSUME HostInv, [Next]_vars PROVE HostInv'
  OBVIOUS
<1>1. ASSUME NEW a \in Addrs, Lookup(a) PROVE HostInv'
  BY <1>1, LookupInv
<1>2. CASE UNCHANGED vars
  BY <1>2 DEF vars, HostInv, TypeOK, Sorted, WithinRoom, Bracket, OwnEntry
<1> QED BY <1>1, <1>2, HalveInv, HitInv, InsertInv, ServeInv, RefuseInv DEF Next

(* The inductive invariant of the client data base. *)
THEOREM HostInvariant == Spec => []HostInv
BY HostInit, HostNext, PTL DEF Spec

(* However many hosts appear, in whatever order, the table stays strictly  *)
(* sorted between its sentinels: no host gets a second entry.              *)
THEOREM AlwaysSorted == Spec => []Sorted
<1>1. HostInv => Sorted BY DEF HostInv
<1> QED BY <1>1, HostInvariant, PTL

(* find_host() never writes past the room it has allocated. *)
THEOREM NeverPastRoom == Spec => []WithinRoom
<1>1. HostInv => WithinRoom BY DEF HostInv
<1> QED BY <1>1, HostInvariant, PTL

(* The entry find_host() returns is the entry of the address it was asked  *)
(* for, and no sentinel.                                                   *)
THEOREM ReturnsOwnEntry == Spec => []OwnEntry
<1>1. HostInv => OwnEntry BY DEF HostInv
<1> QED BY <1>1, HostInvariant, PTL

(* The table of entries is type correct for any number of hosts: no index  *)
(* of the search, and no entry, leaves its range.                          *)
THEOREM TableTypeCorrect == Spec => []TypeOK
<1>1. HostInv => TypeOK BY DEF HostInv
<1> QED BY <1>1, HostInvariant, PTL
-----------------------------------------------------------------------------
(* The table implements the map.                                           *)

(* Nobody is being looked up between two packets. *)
NobodyAsked == pc = "idle" => x = None

(* The map holds what the table holds between its sentinels. *)
MapOfTable == \A i \in 1..hcnt - 2 : /\ htab[i].inet_num \in DOMAIN Known
                                     /\ Known[htab[i].inet_num] = Record(htab[i])

LEMMA MapTable == HostInv => MapOfTable
<1> SUFFICES ASSUME HostInv, NEW i \in 1..hcnt - 2
             PROVE  /\ htab[i].inet_num \in DOMAIN Known
                    /\ Known[htab[i].inet_num] = Record(htab[i])
  BY DEF MapOfTable
<1>1. htab[i].inet_num \in Hosts
  BY DEF Hosts
<1>2. EntryOf(htab[i].inet_num) = htab[i]
  <2> DEFINE j == CHOOSE k \in 1..hcnt - 2 : htab[k].inet_num = htab[i].inet_num
  <2>1. j \in 1..hcnt - 2 /\ htab[j].inet_num = htab[i].inet_num
    OBVIOUS
  <2>2. hcnt \in Nat /\ htab \in [0..hcnt - 1 -> Entries]
    BY DEF HostInv, TypeOK
  <2>3. i \in 0..hcnt - 1 /\ j \in 0..hcnt - 1
    BY <2>1, <2>2
  <2>4. /\ i < j => htab[i].inet_num < htab[j].inet_num
        /\ j < i => htab[j].inet_num < htab[i].inet_num
    BY <2>3 DEF HostInv, Sorted
  <2>5. htab[i].inet_num \in Int
    BY <2>2, <2>3 DEF Entries
  <2> HIDE DEF j
  <2>6. i = j
    BY <2>1, <2>2, <2>3, <2>4, <2>5
  <2> QED BY <2>6 DEF EntryOf, j
<1> QED BY <1>1, <1>2 DEF Known

(* The same after a step. *)
LEMMA MapTableNext == HostInv' => MapOfTable'
BY MapTable, PTL

(* What a table with the same indices maps to is known entry by entry. *)
LEMMA SameKnown == ASSUME UNCHANGED <<htab, hcnt>> PROVE UNCHANGED Known
BY DEF Known, Hosts, EntryOf

LEMMA AskStep == ASSUME HostInv, NobodyAsked, NEW a \in Addrs, Lookup(a) PROVE Map!Ask
<1>1. UNCHANGED Known
  BY SameKnown DEF Lookup, table
<1>2. x = None /\ x' = a /\ Given' = Given
  BY DEF NobodyAsked, Lookup, Given
<1> QED BY <1>1, <1>2 DEF Map!Ask

LEMMA HalveStep == ASSUME Halve PROVE UNCHANGED Map!mapvars
<1>1. UNCHANGED Known
  BY SameKnown DEF Halve, table
<1>2. x' = x /\ Given' = Given
  BY DEF Halve, Given
<1> QED BY <1>1, <1>2 DEF Map!mapvars

(* What a known host's record becomes at a hit. *)
LEMMA AccessedRecord ==
    ASSUME NEW e \in Entries, NEW named
    PROVE  Record(Accessed(e, named)) =
             [acc_cnt |-> IF Record(e).acc_cnt < MaxAcc THEN Record(e).acc_cnt + 1 ELSE 0,
              session |-> Record(e).session, named |-> named]
BY DEF Record, Accessed

(* A hit hands out the record of a host already known. *)
LEMMA HitStep == ASSUME HostInv, HostInv', Hit PROVE Map!Give
<1>1. /\ Middle \in 1..hcnt - 2 /\ x \in Addrs /\ htab[Middle].inet_num = x
      /\ htab \in [0..hcnt - 1 -> Entries] /\ hcnt \in Nat /\ htab[Middle] \in Entries
  <2>1. l < h /\ x \in Addrs
    BY DEF HostInv, Bracket, Hit
  <2>2. Middle \in 0..hcnt - 1 /\ l <= Middle /\ Middle < h
    BY <2>1, MiddleInside DEF HostInv
  <2> QED BY <2>1, <2>2 DEF HostInv, TypeOK, Hit
<1>2. PICK named \in Renamed(htab[Middle]) :
        htab' = [htab EXCEPT ![Middle] = Accessed(@, named)]
  BY DEF Hit
<1>3. hcnt' = hcnt /\ x' = x /\ hp' = Middle /\ pc = "search" /\ pc' = "serve"
  BY DEF Hit
<1>4. \A i \in 0..hcnt - 1 : htab'[i].inet_num = htab[i].inet_num
  BY <1>1, <1>2 DEF Accessed
<1>5. Hosts' = Hosts /\ x \in Hosts
  BY <1>1, <1>3, <1>4 DEF Hosts
<1>6. named \in BOOLEAN /\ (Known[x].named => named)
  <2>1. Known[x] = Record(htab[Middle])
    BY <1>1, MapTable DEF MapOfTable
  <2>2. htab[Middle].named \in BOOLEAN
    BY <1>1 DEF Entries
  <2>3. Known[x].named = htab[Middle].named
    BY <2>1 DEF Record
  <2>4. named \in {htab[Middle].named, TRUE}
    BY <1>2, Zenon DEF Renamed
  <2> QED BY <2>2, <2>3, <2>4, Zenon
<1> DEFINE record == [acc_cnt |-> IF Known[x].acc_cnt < MaxAcc THEN Known[x].acc_cnt + 1 ELSE 0,
                         session |-> Known[x].session, named |-> named]
<1>7. ASSUME NEW a \in Hosts
      PROVE  Known'[a] = IF a = x THEN record ELSE Known[a]
  <2>1. PICK i \in 1..hcnt - 2 : a = htab[i].inet_num
    BY DEF Hosts
  <2>2. Known'[a] = Record(htab'[i]) /\ Known[a] = Record(htab[i])
    BY <1>1, <1>3, <1>4, <2>1, MapTable, MapTableNext DEF MapOfTable
  <2>3. CASE i = Middle
    BY <1>1, <1>2, <2>1, <2>2, <2>3, AccessedRecord
  <2>4. CASE i # Middle
    <3>1. a # x
      <4>1. i < Middle \/ Middle < i
        BY <1>1, <2>4
      <4> QED BY <1>1, <2>1, <4>1 DEF HostInv, Sorted, Entries
    <3> QED BY <1>1, <1>2, <2>2, <2>4, <3>1
  <2> QED BY <2>3, <2>4
<1>8. Known' = [a \in Hosts |-> IF a = x THEN record ELSE Known[a]]
  <2>1. Known' = [a \in Hosts |-> Known'[a]]
    BY <1>5 DEF Known
  <2> HIDE DEF record
  <2> QED BY <1>7, <2>1
<1>9. DOMAIN Known = Hosts /\ Hosts \cup {x} = Hosts
  BY <1>5 DEF Known
<1>10. x # None /\ Given = None /\ Given' = x
  BY <1>1, <1>3, <1>4, HostTableAssumption DEF Given
<1> QED BY <1>3, <1>5, <1>6, <1>8, <1>9, <1>10 DEF Map!Give

(* A miss adds a zeroed record, and the others keep theirs although their  *)
(* entries move.                                                           *)
LEMMA InsertStep == ASSUME HostInv, HostInv', Insert PROVE Map!Give
<1>1. /\ hcnt \in Nat /\ hcnt >= 2 /\ htab \in [0..hcnt - 1 -> Entries]
      /\ x \in Addrs /\ x \in Int
  BY HostTableAssumption DEF HostInv, TypeOK, Bracket, Insert
<1>2. /\ l \in 0..hcnt - 2 /\ l + 1 \in 0..hcnt - 1
      /\ htab[l].inet_num < x /\ x < htab[l + 1].inet_num
  <2>1. l < h /\ Middle = l /\ htab[l].inet_num < x /\ x < htab[h].inet_num
    BY DEF HostInv, Bracket, Insert
  <2>2. h = l + 1
    BY <2>1, MiddleInside DEF HostInv
  <2> QED BY <1>1, <2>1, <2>2 DEF HostInv, TypeOK
<1>3. Place = l + 1
  BY <1>2 DEF Place
<1>4. PICK named \in BOOLEAN :
        htab' = [i \in 0..hcnt |-> IF i < Place THEN htab[i]
                                   ELSE IF i = Place THEN Fresh(x, named)
                                   ELSE htab[i - 1]]
  BY DEF Insert
<1>5. hcnt' = hcnt + 1 /\ x' = x /\ hp' = l + 1 /\ pc = "search" /\ pc' = "serve"
  BY <1>3 DEF Insert
<1>6. /\ htab'[l + 1] = Fresh(x, named) /\ htab'[l + 1].inet_num = x
      /\ \A i \in 0..l : htab'[i] = htab[i]
      /\ \A i \in l + 1..hcnt - 1 : htab'[i + 1] = htab[i]
  <2>1. htab'[l + 1] = Fresh(x, named)
    BY <1>1, <1>2, <1>3, <1>4
  <2>2. \A i \in 0..l : htab'[i] = htab[i]
    BY <1>1, <1>2, <1>3, <1>4
  <2>3. ASSUME NEW i \in l + 1..hcnt - 1 PROVE htab'[i + 1] = htab[i]
    BY <1>1, <1>2, <1>3, <1>4
  <2> QED BY <2>1, <2>2, <2>3 DEF Fresh
<1>7. x \notin Hosts
  <2> SUFFICES ASSUME NEW i \in 1..hcnt - 2, htab[i].inet_num = x PROVE FALSE
    BY DEF Hosts
  <2>1. i <= l => htab[i].inet_num < x
    <3>1. i < l => htab[i].inet_num < htab[l].inet_num
      BY <1>1, <1>2 DEF HostInv, Sorted
    <3> QED BY <1>1, <1>2, <3>1 DEF Entries
  <2>2. l + 1 <= i => x < htab[i].inet_num
    <3>1. l + 1 < i => htab[l + 1].inet_num < htab[i].inet_num
      BY <1>1, <1>2 DEF HostInv, Sorted
    <3> QED BY <1>1, <1>2, <3>1 DEF Entries
  <2> QED BY <1>1, <1>2, <2>1, <2>2
<1>8. /\ x \in Hosts' /\ Known'[x] = Record(Fresh(x, named))
  <2>1. l + 1 \in 1..hcnt' - 2
    BY <1>1, <1>2, <1>5
  <2> QED BY <1>6, <2>1, MapTableNext DEF MapOfTable, Known
<1>9. ASSUME NEW a \in Hosts PROVE a \in Hosts' /\ Known'[a] = Known[a]
  <2>1. PICK i \in 1..hcnt - 2 : a = htab[i].inet_num
    BY DEF Hosts
  <2>2. PICK j \in 1..hcnt' - 2 : htab'[j] = htab[i]
    <3>1. CASE i <= l
      <4>1. i \in 1..hcnt' - 2 /\ htab'[i] = htab[i]
        BY <1>1, <1>2, <1>5, <1>6, <3>1
      <4> QED BY <4>1
    <3>2. CASE l < i
      <4>1. i + 1 \in 1..hcnt' - 2 /\ htab'[i + 1] = htab[i]
        BY <1>1, <1>2, <1>5, <1>6, <3>2
      <4> QED BY <4>1
    <3> QED BY <1>1, <1>2, <3>1, <3>2
  <2>3. a \in DOMAIN Known' /\ Known'[a] = Record(htab'[j])
    BY <2>1, <2>2, MapTableNext DEF MapOfTable
  <2>4. Known[a] = Record(htab[i])
    BY <2>1, MapTable DEF MapOfTable
  <2> QED BY <2>2, <2>3, <2>4 DEF Known
<1>10. Hosts' \subseteq Hosts \cup {x}
  <2> SUFFICES ASSUME NEW j \in 1..hcnt' - 2 PROVE htab'[j].inet_num \in Hosts \cup {x}
    BY DEF Hosts
  <2>1. CASE j <= l
    <3>1. j \in 1..hcnt - 2 /\ htab'[j] = htab[j]
      BY <1>1, <1>2, <1>5, <1>6, <2>1
    <3> QED BY <3>1 DEF Hosts
  <2>2. CASE j = l + 1
    BY <1>6, <2>2
  <2>3. CASE l + 1 < j
    <3>1. j - 1 \in 1..hcnt - 2 /\ htab'[j] = htab[j - 1]
      <4>1. j - 1 \in l + 1..hcnt - 1 /\ j - 1 \in 1..hcnt - 2 /\ (j - 1) + 1 = j
        BY <1>1, <1>2, <1>5, <2>3
      <4> QED BY <1>6, <4>1
    <3> QED BY <3>1 DEF Hosts
  <2> QED BY <1>1, <1>2, <2>1, <2>2, <2>3
<1> DEFINE record == [acc_cnt |-> 0, session |-> NoSession, named |-> named]
<1>11. Known' = [a \in Hosts \cup {x} |-> IF a = x THEN record ELSE Known[a]]
  <2>1. Hosts' = Hosts \cup {x}
    BY <1>8, <1>9, <1>10
  <2>2. Known' = [a \in Hosts' |-> Known'[a]]
    BY DEF Known
  <2>3. Record(Fresh(x, named)) = record
    BY DEF Record, Fresh
  <2> HIDE DEF record
  <2> QED BY <1>8, <1>9, <2>1, <2>2, <2>3
<1>12. DOMAIN Known = Hosts /\ (MaxAcc < MaxAcc) = FALSE
  BY HostTableAssumption DEF Known
<1>13. x # None /\ Given = None /\ Given' = x
  BY <1>1, <1>5, <1>6, HostTableAssumption DEF Given
<1> QED BY <1>5, <1>7, <1>11, <1>12, <1>13 DEF Map!Give

(* Storing into the entry changes the record handed out and no other. *)
LEMMA UseStep == ASSUME HostInv, HostInv', Serve PROVE Map!Use
<1>1. PICK s \in Sessions : htab' = [htab EXCEPT ![hp].session = s]
  BY DEF Serve
<1>2. /\ htab \in [0..hcnt - 1 -> Entries] /\ hcnt \in Nat /\ hcnt' = hcnt
      /\ hp \in 1..hcnt - 2 /\ x \in Addrs /\ htab[hp].inet_num = x
      /\ pc = "serve" /\ pc' = "idle" /\ x' = None
  BY DEF HostInv, TypeOK, OwnEntry, Serve, Return
<1>3. \A i \in 0..hcnt - 1 : htab'[i].inet_num = htab[i].inet_num
  BY <1>1, <1>2 DEF Entries
<1>4. Hosts' = Hosts /\ x \in Hosts
  BY <1>2, <1>3 DEF Hosts
<1>5. Known' = [Known EXCEPT ![x].session = s]
  <2>1. ASSUME NEW a \in Hosts
        PROVE  Known'[a] = IF a = x THEN [Known[a] EXCEPT !.session = s] ELSE Known[a]
    <3>1. PICK i \in 1..hcnt - 2 : a = htab[i].inet_num
      BY DEF Hosts
    <3>2. Known'[a] = Record(htab'[i]) /\ Known[a] = Record(htab[i])
      BY <1>2, <1>3, <3>1, MapTable, MapTableNext DEF MapOfTable
    <3>3. CASE i = hp
      BY <1>1, <1>2, <3>1, <3>2, <3>3 DEF Record, Entries
    <3>4. CASE i # hp
      <4>1. a # x
        <5>1. i < hp \/ hp < i
          BY <1>2, <3>4
        <5> QED BY <1>2, <3>1, <5>1 DEF HostInv, Sorted, Entries
      <4> QED BY <1>1, <1>2, <3>2, <3>4, <4>1
    <3> QED BY <3>3, <3>4
  <2>2. Known' = [a \in Hosts |-> Known'[a]] /\ DOMAIN Known = Hosts
    BY <1>4 DEF Known
  <2>3. Known = [a \in Hosts |-> Known[a]]
    BY DEF Known
  <2> QED BY <1>4, <2>1, <2>2, <2>3
<1>6. Given = x /\ x # None /\ Given' = None
  BY <1>2, HostTableAssumption DEF Given
<1> QED BY <1>2, <1>5, <1>6 DEF Map!Use

LEMMA RefuseStep == ASSUME HostInv, RefuseUnnamed PROVE Map!Refuse
<1>1. UNCHANGED Known
  BY SameKnown DEF RefuseUnnamed, Return
<1>2. pc = "serve" /\ pc' = "idle" /\ x' = None
  BY DEF RefuseUnnamed, Return
<1>3. htab[hp].inet_num = x /\ x # None
  <2>1. htab[hp].inet_num = x /\ x \in Addrs
    BY <1>2 DEF HostInv, OwnEntry
  <2>2. \A a \in Addrs : a \in Nat
    BY HostTableAssumption
  <2> QED BY <2>1, <2>2, HostTableAssumption
<1>4. Given # None /\ Given' = None
  BY <1>2, <1>3 DEF Given
<1> QED BY <1>1, <1>2, <1>4 DEF Map!Refuse

LEMMA MapInit == Init => Map!Init
<1> SUFFICES ASSUME Init PROVE Map!Init
  OBVIOUS
<1>1. Hosts = {}
  BY DEF Init, Hosts
<1>2. Known = [a \in {} |-> None]
  BY <1>1 DEF Known
<1> QED BY <1>2 DEF Init, Map!Init, Given

LEMMA NobodyAskedNext == NobodyAsked /\ [Next]_vars => NobodyAsked'
BY DEF NobodyAsked, Next, vars, Lookup, Halve, Hit, Insert, Serve, RefuseUnnamed, Return

LEMMA MapNext ==
    HostInv /\ HostInv' /\ NobodyAsked /\ [Next]_vars => [Map!Next]_(Map!mapvars)
<1> SUFFICES ASSUME HostInv, HostInv', NobodyAsked, [Next]_vars
             PROVE  Map!Next \/ UNCHANGED Map!mapvars
  OBVIOUS
<1>1. ASSUME NEW a \in Addrs, Lookup(a) PROVE Map!Next
  BY <1>1, AskStep DEF Map!Next
<1>2. ASSUME Halve PROVE UNCHANGED Map!mapvars
  BY <1>2, HalveStep
<1>3. ASSUME Hit \/ Insert PROVE Map!Next
  BY <1>3, HitStep, InsertStep DEF Map!Next
<1>4. ASSUME Serve \/ RefuseUnnamed PROVE Map!Next
  BY <1>4, UseStep, RefuseStep DEF Map!Next
<1>5. ASSUME UNCHANGED vars PROVE UNCHANGED Map!mapvars
  BY <1>5, SameKnown DEF vars, Map!mapvars, Given
<1> QED BY <1>1, <1>2, <1>3, <1>4, <1>5 DEF Next

(* The sorted array with its search and insertion implements the map from  *)
(* hosts to records: every host keeps its own record, whatever hosts come  *)
(* after it, and is handed that one.                                       *)
THEOREM TableRefinesMap == Spec => MapRefined
<1>1. Init => NobodyAsked
  BY DEF Init, NobodyAsked
<1>2. Spec => []NobodyAsked
  BY <1>1, NobodyAskedNext, PTL DEF Spec
<1>3. Spec => [](HostInv /\ NobodyAsked)
  BY <1>2, HostInvariant, PTL
<1> QED BY <1>3, MapInit, MapNext, PTL DEF Spec, MapRefined, Map!Spec
=============================================================================
