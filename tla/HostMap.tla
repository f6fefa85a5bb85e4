------------------------------ MODULE HostMap ------------------------------
(***************************************************************************)
(* What the server loop relies on when it looks up the sender of a packet: *)
(* every host ever heard of has one record, the lookup hands out that      *)
(* record, zeroed for a newcomer, and disturbs no other.                   *)
(*                                                                         *)
(* HostTable implements this specification (HostTable!MapRefined).         *)
(***************************************************************************)
EXTENDS Naturals

CONSTANTS
    Addrs, None, Sessions, NoSession,
    MaxAcc    \* the count of accesses starts over after this

VARIABLES
    known,   \* record of each host heard of: accesses, session, named
    asked,   \* the address being looked up, or None
    given    \* the address whose record was handed out, or None

mapvars == <<known, asked, given>>

Init == /\ known = [x \in {} |-> None]
        /\ asked = None
        /\ given = None

Ask == \E x \in Addrs : /\ asked = None
                        /\ asked' = x
                        /\ UNCHANGED <<known, given>>

(* A newcomer's count starts at 0, as it does over again after MaxAcc.  A  *)
(* name once known is kept; an unknown one may be tried again.             *)
Give == /\ asked # None /\ given = None
        /\ given' = asked
        /\ \E named \in BOOLEAN :
             /\ asked \in DOMAIN known /\ known[asked].named => named
             /\ LET acc == IF asked \in DOMAIN known THEN known[asked].acc_cnt ELSE MaxAcc
                    record == [acc_cnt |-> IF acc < MaxAcc THEN acc + 1 ELSE 0,
                               session |-> IF asked \in DOMAIN known THEN known[asked].session
                                                                     ELSE NoSession,
                               named |-> named]
                IN  known' = [x \in DOMAIN known \cup {asked} |->
                                IF x = asked THEN record ELSE known[x]]
        /\ UNCHANGED asked

(* The caller works on the record and on no other. *)
Use == /\ given # None
       /\ \E s \in Sessions : known' = [known EXCEPT ![given].session = s]
       /\ asked' = None /\ given' = None

(* ... or refuses the host. *)
Refuse == /\ given # None
          /\ asked' = None /\ given' = None
          /\ UNCHANGED known

Next == Ask \/ Give \/ Use \/ Refuse

Spec == Init /\ [][Next]_mapvars
=============================================================================
