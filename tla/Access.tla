------------------------------- MODULE Access -------------------------------
(***************************************************************************)
(* Who may do what: the tables of address ranges (iprange.c), for hosts    *)
(* and for the owners of directories, and require_access_rights().         *)
(*                                                                         *)
(* An address is four octets, first one first.  A line of a table is read  *)
(* as words: the address, in fields or as a host name, a type and a        *)
(* message.                                                                *)
(***************************************************************************)
EXTENDS Integers, Sequences

CONSTANT MaxOctet       \* 255

ASSUME AccessAssumption == MaxOctet \in Nat \ {0}

Octet == 0..MaxOctet
Address == [1..4 -> Octet]
-----------------------------------------------------------------------------
(* iprange.c *)

(* A field: <<>> for "*", <<n>>, <<n, m>> for n-m, <<-1>> for others.      *)
Bad == [lo |-> 1, hi |-> -1]
ParseField(f) ==
    IF f = <<>> THEN [lo |-> 0, hi |-> MaxOctet]
    ELSE IF \E i \in DOMAIN f : f[i] \notin Octet THEN Bad
    ELSE [lo |-> f[1], hi |-> f[Len(f)]]

(* Faulty variant: what is not given is zero. *)
ParseNumber_Zero(fields) ==
    LET range == [i \in 1..4 |-> IF i <= Len(fields) THEN ParseField(fields[i]) ELSE [lo |-> 0, hi |-> 0]]
    IN  IF \E i \in 1..4 : range[i] = Bad THEN <<>> ELSE range

(* parse_ipnumber(): what follows four fields is not looked at, what is    *)
(* not given may be anything.  <<>> for NULL.                              *)
ParseNumber(fields) ==
    LET range == [i \in 1..4 |-> ParseField(IF i <= Len(fields) THEN fields[i] ELSE <<>>)]
    IN  IF \E i \in 1..4 : range[i] = Bad THEN <<>> ELSE range

(* parse_hostname(): the address as the host keeps it; the table is for    *)
(* addresses whose last octet is the lowest byte.                          *)
ParseHostname(address, littleEndian) ==
    [i \in 1..4 |-> LET n == address[IF littleEndian THEN 5 - i ELSE i] IN [lo |-> n, hi |-> n]]

NoType == "no type"

(* parse_ipline(): <<>> for a comment, no type, or a bad address. *)
ParseLine(line, littleEndian) ==
    LET range == IF line.named THEN ParseHostname(line.host, littleEndian) ELSE ParseNumber(line.fields)
    IN  IF line.type = NoType \/ range = <<>> THEN <<>>
        ELSE <<[range |-> range, type |-> line.type]>>

(* add_ipline(): a second record ends the program, realloc() is given the  *)
(* address of the pointer to the table.                                    *)
Aborted == <<[range |-> <<>>, type |-> "aborted"]>>
AddLine(table, line, littleEndian) ==
    LET new == ParseLine(line, littleEndian)
    IN  IF table = <<>> \/ new = <<>> THEN table \o new ELSE Aborted
Table(lines, littleEndian) ==
    LET table[n \in 0..Len(lines)] == IF n = 0 THEN <<>> ELSE AddLine(table[n - 1], lines[n], littleEndian)
    IN  table[Len(lines)]

(* check_ip(), check_ip_table(): the type of the first that matches.       *)
Matches(ip, range) == \A i \in 1..4 : ip[i] \in range[i].lo..range[i].hi
CheckTable(ip, table) ==
    LET found == {i \in DOMAIN table : Matches(ip, table[i].range)}
        first == CHOOSE i \in found : \A j \in found : i <= j
    IN  IF found = {} THEN NoType ELSE table[first].type
-----------------------------------------------------------------------------
(* acl.c *)

None == "no password"

(* Faulty variant: a wrong password is no obstacle for an owner. *)
Owns_AnyPassword(acc, di, passwd, permit) == acc = "O" /\ (passwd # None \/ permit)

(* An owner, and proved to be one. *)
Owns(acc, di, passwd, permit_passwordless_owners) ==
    /\ acc = "O"
    /\ IF di.owner_password = None THEN permit_passwordless_owners
       ELSE passwd = di.owner_password

(* require_access_rights(): the first letter of the answer; "N", welcome,  *)
(* "O", as the owner, "I" and "D" not.  acc is what check_ip_table() says  *)
(* of the host, rights a set of rights.                                    *)
RequireRights(di, rights, acc, passwd, permit_passwordless_owners) ==
    IF acc \in {"I", "D"} THEN acc
    ELSE IF Owns(acc, di, passwd, permit_passwordless_owners) THEN "O"
    ELSE IF "OWNER" \in rights THEN "D"
    ELSE IF di.public_password \notin {None, passwd} THEN "D"
    ELSE IF rights = {} \/ rights \cap di.protection # {} THEN "N"
    ELSE "D"
=============================================================================
