----------------------------- MODULE HostTable -----------------------------
(***************************************************************************)
(* The client data base of server/host.c: find_host() searches a sorted    *)
(* array with a sentinel at each end and inserts what it does not find,    *)
(* and server_loop() uses the entry it returns.                            *)
(*                                                                         *)
(* Addresses are ordered as the integers they are compared as.  Of an      *)
(* entry the model keeps the access count, whether the name is known, and  *)
(* "session" for what the server stores (keys, last access, active).       *)
(***************************************************************************)
EXTENDS Integers

CONSTANTS
    Addrs,       \* the senders' addresses
    Highest,     \* ~0U
    None,
    Sessions, NoSession,
    NoUnnamed,   \* no_unnamed
    AllocSize,   \* HALLOC_SIZE (30)
    MaxAcc       \* where acc_cnt wraps around (65535)

ASSUME HostTableAssumption ==
    /\ Highest \in Nat \ {0}
    /\ Addrs \subseteq 1..Highest - 1      \* no datagram comes from 0.0.0.0 or 255.255.255.255
    /\ None \notin Nat
    /\ NoSession \in Sessions
    /\ NoUnnamed \in BOOLEAN
    /\ AllocSize \in Nat /\ AllocSize >= 2
    /\ MaxAcc \in Nat

VARIABLES
    htab,    \* the entries, from index 0
    hcnt,    \* how many there are
    htot,    \* how many there is room for
    pc,      \* where find_host() and its caller are
    x,       \* inet_num
    l, h,    \* the search interval
    hp       \* index of the entry returned

vars == <<htab, hcnt, htot, pc, x, l, h, hp>>
table == <<htab, hcnt, htot>>

Entries == [inet_num : 0..Highest, acc_cnt : 0..MaxAcc, session : Sessions, named : BOOLEAN]
Fresh(a, named) == [inet_num |-> a, acc_cnt |-> 0, session |-> NoSession, named |-> named]

(* init_htab() *)
Init == /\ htab = [i \in 0..1 |-> Fresh(IF i = 0 THEN 0 ELSE Highest, FALSE)]
        /\ hcnt = 2
        /\ htot = AllocSize
        /\ pc = "idle"
        /\ x = None
        /\ l = 0 /\ h = 0 /\ hp = 0

Middle == (l + h) \div 2

(* Faulty variant: the interval starts one past the upper sentinel. *)
Lookup_PastEnd(a) ==
    /\ pc = "idle"
    /\ pc' = "search" /\ x' = a
    /\ l' = 0 /\ h' = hcnt
    /\ UNCHANGED <<table, hp>>

(* A datagram from a comes in. *)
Lookup(a) ==
    /\ pc = "idle"
    /\ pc' = "search" /\ x' = a
    /\ l' = 0 /\ h' = hcnt - 1
    /\ UNCHANGED <<table, hp>>

(* Faulty variant: the interval is halved past the middle. *)
Halve_Past ==
    /\ pc = "search" /\ Middle # l
    /\ htab[Middle].inet_num # x
    /\ IF htab[Middle].inet_num > x THEN l' = l /\ h' = Middle - 1
                                    ELSE l' = Middle /\ h' = h
    /\ UNCHANGED <<table, pc, x, hp>>

(* Faulty variant: the interval is not halved from below. *)
Halve_Stuck ==
    /\ pc = "search" /\ Middle # l
    /\ htab[Middle].inet_num # x
    /\ IF htab[Middle].inet_num > x THEN l' = l /\ h' = Middle ELSE l' = l /\ h' = h
    /\ UNCHANGED <<table, pc, x, hp>>

(* One round of the search that does not hit. *)
Halve ==
    /\ pc = "search" /\ Middle # l
    /\ htab[Middle].inet_num # x
    /\ IF htab[Middle].inet_num > x THEN l' = l /\ h' = Middle
                                    ELSE l' = Middle /\ h' = h
    /\ UNCHANGED <<table, pc, x, hp>>

(* The name of a host found may be looked up again, with what success the  *)
(* name service decides.                                                   *)
Renamed(e) == IF NoUnnamed THEN {e.named, TRUE} ELSE {e.named}

Accessed(e, named) ==
    [inet_num |-> e.inet_num, session |-> e.session, named |-> named,
     acc_cnt |-> IF e.acc_cnt < MaxAcc THEN e.acc_cnt + 1 ELSE 0]

Hit ==
    /\ pc = "search" /\ Middle # l
    /\ htab[Middle].inet_num = x
    /\ \E named \in Renamed(htab[Middle]) :
         htab' = [htab EXCEPT ![Middle] = Accessed(@, named)]
    /\ hp' = Middle /\ pc' = "serve"
    /\ UNCHANGED <<hcnt, htot, x, l, h>>

(* Faulty variant: the place is not moved on. *)
Place_Before == l

(* "locate first entry that is >" *)
Place == IF htab[l].inet_num < x THEN l + 1 ELSE l

(* Faulty variant: the table grows one entry too late. *)
Room_Late == IF hcnt > htot THEN htot + AllocSize ELSE htot

(* "need more space" *)
Room == IF hcnt + 1 > htot THEN htot + AllocSize ELSE htot

(* Faulty variant: "htab[m]=hzero" is missing. *)
Insert_NotZeroed ==
    /\ pc = "search" /\ Middle = l
    /\ htot' = Room
    /\ htab' = [i \in 0..hcnt |-> IF i < Place THEN htab[i]
                                 ELSE IF i = Place THEN [htab[i] EXCEPT !.inet_num = x]
                                 ELSE htab[i - 1]]
    /\ hcnt' = hcnt + 1
    /\ hp' = Place /\ pc' = "serve"
    /\ UNCHANGED <<x, l, h>>

(* The entries from Place on move up by one. *)
Insert ==
    /\ pc = "search" /\ Middle = l
    /\ htot' = Room
    /\ \E named \in BOOLEAN :
         htab' = [i \in 0..hcnt |-> IF i < Place THEN htab[i]
                                    ELSE IF i = Place THEN Fresh(x, named)
                                    ELSE htab[i - 1]]
    /\ hcnt' = hcnt + 1
    /\ hp' = Place /\ pc' = "serve"
    /\ UNCHANGED <<x, l, h>>

Return == /\ pc' = "idle"
          /\ x' = None
          /\ l' = 0 /\ h' = 0 /\ hp' = 0
          /\ UNCHANGED <<hcnt, htot>>

(* server_loop() and the handlers store into the entry. *)
Serve ==
    /\ pc = "serve"
    /\ ~(NoUnnamed /\ ~htab[hp].named)
    /\ \E s \in Sessions : htab' = [htab EXCEPT ![hp].session = s]
    /\ Return

(* REVERSE_ERR_MSG *)
RefuseUnnamed ==
    /\ pc = "serve"
    /\ NoUnnamed /\ ~htab[hp].named
    /\ Return
    /\ UNCHANGED htab

Next == \/ \E a \in Addrs : Lookup(a)
        \/ Halve \/ Hit \/ Insert
        \/ Serve \/ RefuseUnnamed

Spec == Init /\ [][Next]_vars

(* find_host() is sequential code: it runs on. *)
FairSpec == Spec /\ WF_vars(Halve \/ Hit \/ Insert)
-----------------------------------------------------------------------------
TypeOK == /\ hcnt \in Nat /\ htot \in Nat
          /\ htab \in [0..hcnt - 1 -> Entries]
          /\ pc \in {"idle", "search", "serve"}
          /\ x \in Addrs \cup {None}
          /\ l \in 0..hcnt - 1 /\ h \in 0..hcnt - 1
          /\ hp \in 0..hcnt - 1

(* The table is strictly sorted between its sentinels: no host has two     *)
(* entries, whatever order the hosts appeared in.                          *)
Sorted == /\ htab[0].inet_num = 0 /\ htab[hcnt - 1].inet_num = Highest
          /\ \A i, j \in 0..hcnt - 1 : i < j => htab[i].inet_num < htab[j].inet_num

(* The entries, the one in the making included, lie in allocated memory.   *)
WithinRoom == hcnt <= htot

(* The search ends, with an entry for the caller. *)
SearchEnds == (pc = "search") ~> (pc = "serve")

(* The table as a map: what is stored of a host survives all insertions    *)
(* of others, and the entry returned is the host's own.                    *)
Hosts == {htab[i].inet_num : i \in 1..hcnt - 2}
EntryOf(a) == htab[CHOOSE i \in 1..hcnt - 2 : htab[i].inet_num = a]
Record(e) == [acc_cnt |-> e.acc_cnt, session |-> e.session, named |-> e.named]
Known == [a \in Hosts |-> Record(EntryOf(a))]
Given == IF pc = "serve" THEN htab[hp].inet_num ELSE None

Map == INSTANCE HostMap WITH known <- Known, asked <- x, given <- Given
MapRefined == Map!Spec
=============================================================================
