----------------------------- MODULE PureProofs -----------------------------
(***************************************************************************)
(* Proofs about the functions of Path, Access, Listing and Settings, for   *)
(* inputs of any length, and that the calls of Pure return what they must  *)
(* for every value of the constants.                                       *)
(***************************************************************************)
EXTENDS Pure, SequenceTheorems, WellFoundedInduction, TLAPS

(* Induction: a statement holds for all numbers up to N if there is no     *)
(* least one that it does not hold for.                                    *)
LEMMA LeastOf ==
    ASSUME NEW T, T \subseteq Nat, T # {}
    PROVE  \E x \in T : \A y \in T : x <= y
<1> DEFINE R == OpToRel(<, Nat)
<1>1. IsWellFoundedOn(R, Nat) BY NatLessThanWellFounded
<1>2. PICK x \in T : \A y \in T : ~ (<<y, x>> \in R)
  <2> HIDE DEF R
  <2> QED BY <1>1, WFMin, Zenon
<1>3. \A y \in T : ~ (y < x) BY <1>2 DEF OpToRel
<1> QED BY <1>3

LEMMA Induction ==
    ASSUME NEW N \in Nat, NEW S, 0 \in S, \A n \in 0..N - 1 : n \in S => n + 1 \in S
    PROVE  0..N \subseteq S
<1> DEFINE T == {n \in 0..N : n \notin S}
<1> SUFFICES ASSUME T # {} PROVE FALSE
  OBVIOUS
<1>1. T \subseteq Nat OBVIOUS
<1>2. PICK x \in T : \A y \in T : x <= y
  <2> HIDE DEF T
  <2> QED BY <1>1, LeastOf
<1>3. x # 0 /\ x - 1 \in 0..N - 1 /\ x - 1 \notin T
  BY <1>2
<1> QED BY <1>3

(* A loop of N rounds, the n-th one T[n], that does not leave S. *)
Iterates(r, N, S, x, T) ==
    r \in [0..N -> S] /\ r[0] = x /\ \A n \in 1..N : r[n] = T[n][r[n - 1]]
LEMMA Iterated ==
    ASSUME NEW N \in Nat, NEW S, NEW x \in S, NEW T \in [1..N -> [S -> S]]
    PROVE  \E r : Iterates(r, N, S, x, T)
<1> DEFINE Solves(r, n) == r[0] = x /\ \A i \in 1..n : r[i] = T[i][r[i - 1]]
           Q == {n \in 0..N : \E r \in [0..N -> S] : Solves(r, n)}
<1>1. 0 \in Q
  <2> DEFINE r == [i \in 0..N |-> x]
  <2>1. r \in [0..N -> S] /\ Solves(r, 0) OBVIOUS
  <2> HIDE DEF r
  <2> QED BY <2>1
<1>2. ASSUME NEW n \in 0..N - 1, n \in Q PROVE n + 1 \in Q
  <2>1. PICK r \in [0..N -> S] : Solves(r, n) BY <1>2
  <2> DEFINE s == [r EXCEPT ![n + 1] = T[n + 1][r[n]]]
  <2>2. n \in 0..N /\ n + 1 \in 1..N /\ n + 1 \in 0..N OBVIOUS
  <2>3. T[n + 1] \in [S -> S] /\ r[n] \in S BY <2>2
  <2>4. s \in [0..N -> S] BY <2>2, <2>3
  <2>5. s[0] = x BY <2>1, <2>2
  <2>6. ASSUME NEW i \in 1..n + 1 PROVE s[i] = T[i][s[i - 1]]
    <3>1. CASE i = n + 1 BY <3>1, <2>2
    <3>2. CASE i \in 1..n BY <3>2, <2>1, <2>2
    <3> QED BY <3>1, <3>2, <2>2
  <2> HIDE DEF s
  <2> QED BY <2>2, <2>4, <2>5, <2>6
<1>3. 0..N \subseteq Q
  <2> HIDE DEF Q
  <2> QED BY <1>1, <1>2, Induction
<1>4. N \in Q BY <1>3
<1> QED BY <1>4 DEF Iterates

(* What holds before a loop and after a round, if before it, holds always. *)
LEMMA Kept ==
    ASSUME NEW N \in Nat, NEW S, NEW r, r[0] \in S, \A n \in 1..N : r[n - 1] \in S => r[n] \in S
    PROVE  \A n \in 0..N : r[n] \in S
<1> DEFINE Q == {n \in 0..N : r[n] \in S}
<1>1. 0 \in Q OBVIOUS
<1>2. \A n \in 0..N - 1 : n \in Q => n + 1 \in Q
  <2> SUFFICES ASSUME NEW n \in 0..N - 1, n \in Q PROVE n + 1 \in Q
    OBVIOUS
  <2>1. n + 1 \in 1..N /\ n + 1 - 1 = n OBVIOUS
  <2>2. r[n + 1] \in S BY <2>1
  <2> QED BY <2>1, <2>2
<1>3. 0..N \subseteq Q
  <2> HIDE DEF Q
  <2> QED BY <1>1, <1>2, Induction
<1> QED BY <1>3

(* A call is one of one function. *)
LEMMA OneCall ==
    ASSUME Next
    PROVE  \/ MakesPath /\ call'.op = "abs_path"
           \/ GetsPath /\ call'.op = "parse_path"
           \/ LooksUp /\ call'.op = "check_ip_table"
           \/ Asks /\ call'.op = "require_access_rights"
           \/ Reads /\ call'.op = "get_dir_blk"
           \/ Starts /\ call'.op = "main"
<1>1. CASE MakesPath
  <2>1. call'.op = "abs_path" BY <1>1 DEF MakesPath
  <2> QED BY <1>1, <2>1
<1>2. CASE GetsPath
  <2>1. call'.op = "parse_path" BY <1>2 DEF GetsPath
  <2> QED BY <1>2, <2>1
<1>3. CASE LooksUp
  <2>1. \E fields, ip, type, answer :
            call' = [op |-> "check_ip_table", fields |-> fields, ip |-> ip, type |-> type, answer |-> answer]
    BY <1>3, Zenon DEF LooksUp
  <2>2. call'.op = "check_ip_table" BY <2>1
  <2> QED BY <1>3, <2>2
<1>4. CASE Asks
  <2>1. \E di, rights, acc, passwd, permit, answer :
            call' = [op |-> "require_access_rights", di |-> di, rights |-> rights, acc |-> acc,
                     passwd |-> passwd, permit |-> permit, answer |-> answer]
    BY <1>4, Zenon DEF Asks
  <2>2. call'.op = "require_access_rights" BY <2>1
  <2> QED BY <1>4, <2>2
<1>5. CASE Reads
  <2>1. call'.op = "get_dir_blk" BY <1>5 DEF Reads
  <2> QED BY <1>5, <2>1
<1>6. CASE Starts
  <2>1. call'.op = "main" BY <1>6 DEF Starts
  <2> QED BY <1>6, <2>1
<1> QED BY <1>1, <1>2, <1>3, <1>4, <1>5, <1>6 DEF Next
-----------------------------------------------------------------------------
(* Rights *)

(* What is answered for passwords from Passwords and a host of type acc. *)
Due(di, rights, acc, passwd, permit) ==
    /\ "OWNER" \in rights =>
           acc = "O" /\ (passwd = di.owner_password \/ (permit /\ di.owner_password = None))
    /\ acc \notin {"I", "D"}
    /\ passwd = "wrong" => Granting(di, rights, acc, None, permit)
    /\ acc = "N" => Granting(di, rights, "O", passwd, permit)

LEMMA RightsAnswered ==
    ASSUME NEW di \in DirInfos, NEW rights \in SUBSET {"GET", "OWNER"},
           NEW acc \in {NoType, "I", "D", "O", "N"}, NEW passwd \in Passwords, NEW permit \in BOOLEAN,
           Granting(di, rights, acc, passwd, permit)
    PROVE  Due(di, rights, acc, passwd, permit)
BY DEF Due, Granting, RequireRights, Owns, Granted, DirInfos, Passwords, None, NoType

(* Rights are given to those only who may have them: the answer of         *)
(* require_access_rights().                                                *)
THEOREM RightsAreProved == Spec => []RightsProved
<1>1. Init => RightsProved BY DEF Init, RightsProved
<1>2. RightsProved /\ [Next]_call => RightsProved'
  <2> SUFFICES ASSUME RightsProved, [Next]_call PROVE RightsProved'
    OBVIOUS
  <2>1. CASE UNCHANGED call BY <2>1 DEF RightsProved
  <2>2. CASE Next /\ call'.op # "require_access_rights" BY <2>2 DEF RightsProved
  <2>3. CASE Next /\ call'.op = "require_access_rights"
    <3>1. Asks BY <2>3, OneCall
    <3>2. PICK di \in DirInfos, rights \in SUBSET {"GET", "OWNER"}, acc \in {NoType, "I", "D", "O", "N"},
               passwd \in Passwords, permit \in BOOLEAN :
              call' = [op |-> "require_access_rights", di |-> di, rights |-> rights, acc |-> acc,
                       passwd |-> passwd, permit |-> permit,
                       answer |-> RequireRights(di, rights, acc, passwd, permit)]
      BY <3>1, Zenon DEF Asks
    <3>3. /\ call'.di = di /\ call'.rights = rights /\ call'.acc = acc /\ call'.passwd = passwd
          /\ call'.permit = permit /\ call'.answer = RequireRights(di, rights, acc, passwd, permit)
      BY <3>2
    <3>4. Granted(call'.answer) => Granting(di, rights, acc, passwd, permit)
      BY <3>3, Zenon DEF Granting
    <3>5. ASSUME Granting(di, rights, acc, passwd, permit)
          PROVE  Due(di, rights, acc, passwd, permit)
      BY <3>5, RightsAnswered, Zenon
    <3> QED BY <3>3, <3>4, <3>5 DEF RightsProved, Due
  <2> QED BY <2>1, <2>2, <2>3
<1> QED BY <1>1, <1>2, PTL DEF Spec
-----------------------------------------------------------------------------
(* Addresses *)

(* A field of a line: any octet, others, one, or a range. *)
Field == {<<>>, <<-1>>} \cup {<<n>> : n \in Octet} \cup {<<n, m>> : n \in Octet, m \in Octet}

LEMMA FieldsAre == Fields \subseteq Field
<1>1. 0 \in Octet /\ 1 \in Octet BY AccessAssumption DEF Octet
<1>2. <<0>> \in Field /\ <<1>> \in Field BY <1>1 DEF Field
<1>4. <<0, 1>> \in Field /\ <<1, 0>> \in Field BY <1>1 DEF Field
<1>3. <<>> \in Field /\ <<-1>> \in Field BY DEF Field
<1> QED BY <1>2, <1>3, <1>4, Zenon DEF Fields

LEMMA FieldDenotes ==
    ASSUME NEW f \in Field, NEW n \in Octet
    PROVE  /\ ParseField(f) = Bad <=> f = <<-1>>
           /\ f # <<-1>> => (n \in ParseField(f).lo..ParseField(f).hi <=> InField(n, f))
<1>1. CASE f = <<>> BY <1>1, AccessAssumption DEF ParseField, Bad, InField, Octet
<1>2. CASE f = <<-1>>
  <2>1. 1 \in DOMAIN f /\ f[1] \notin Octet BY <1>2 DEF Octet
  <2> QED BY <1>2, <2>1 DEF ParseField
<1>3. CASE \E m \in Octet : f = <<m>>
  <2>1. PICK m \in Octet : f = <<m>> BY <1>3
  <2>2. DOMAIN f = 1..1 /\ f[1] = m /\ Len(f) = 1 /\ f # <<>> /\ f # <<-1>>
    BY <2>1 DEF Octet
  <2>3. ParseField(f) = [lo |-> m, hi |-> m] BY <2>2 DEF ParseField
  <2> QED BY <2>2, <2>3, AccessAssumption DEF Bad, InField, Octet
<1>4. CASE \E l, m \in Octet : f = <<l, m>>
  <2>1. PICK l \in Octet, m \in Octet : f = <<l, m>> BY <1>4
  <2>2. DOMAIN f = 1..2 /\ f[1] = l /\ f[2] = m /\ Len(f) = 2 /\ f # <<>> /\ f # <<-1>>
    BY <2>1
  <2>3. ParseField(f) = [lo |-> l, hi |-> m] BY <2>2 DEF ParseField
  <2> QED BY <2>2, <2>3, AccessAssumption DEF Bad, InField, Octet
<1> QED BY <1>1, <1>2, <1>3, <1>4 DEF Field

(* A table of one line is what the line says. *)
LEMMA TableOfOne ==
    ASSUME NEW line, NEW littleEndian
    PROVE  Table(<<line>>, littleEndian) = ParseLine(line, littleEndian)
<1> DEFINE Is(t) == t = [n \in 0..Len(<<line>>) |->
                            IF n = 0 THEN <<>> ELSE AddLine(t[n - 1], <<line>>[n], littleEndian)]
           table == CHOOSE t : Is(t)
           parsed == ParseLine(line, littleEndian)
<1>1. Len(<<line>>) = 1 /\ <<line>>[1] = line OBVIOUS
<1>2. AddLine(<<>>, line, littleEndian) = parsed
  <2>1. parsed = <<>> \/ \E e : parsed = <<e>> BY DEF ParseLine
  <2>2. <<>> \o parsed = parsed BY <2>1
  <2> QED BY <2>2 DEF AddLine
<1> HIDE DEF parsed
<1>3. \E t : Is(t)
  <2> DEFINE t == [n \in 0..1 |-> IF n = 0 THEN <<>> ELSE parsed]
  <2>1. Is(t) BY <1>1, <1>2
  <2> QED BY <2>1
<1>4. Is(table) BY <1>3, Zenon
<1>5. Table(<<line>>, littleEndian) = table[1] BY <1>1 DEF Table
<1> HIDE DEF table
<1>6. table[0] = <<>> BY <1>1, <1>4
<1>7. table[1] = AddLine(table[0], line, littleEndian) BY <1>1, <1>4
<1> QED BY <1>2, <1>5, <1>6, <1>7 DEF parsed

(* The answer for a host, when the table is one line of up to four fields. *)
LEMMA AddressAnswered ==
    ASSUME NEW n \in 1..4, NEW fields \in [1..n -> Field], NEW type, NEW ip \in Address, NEW littleEndian,
           NEW line, line = [named |-> FALSE, fields |-> fields, type |-> type]
    PROVE  CheckTable(ip, Table(<<line>>, littleEndian)) =
               IF type # NoType /\ \A i \in 1..n : fields[i] # <<-1>> /\ InField(ip[i], fields[i])
               THEN type ELSE NoType
<1> DEFINE field == [i \in 1..4 |-> IF i <= Len(fields) THEN fields[i] ELSE <<>>]
           range == [i \in 1..4 |-> ParseField(field[i])]
<1>1. Len(fields) = n /\ DOMAIN fields = 1..n OBVIOUS
<1>2. \A i \in 1..4 : field[i] \in Field BY <1>1 DEF Field
<1>3. \A i \in 1..4 : field[i] = IF i \in 1..n THEN fields[i] ELSE <<>> BY <1>1
<1>4. \A i \in 1..4 : ip[i] \in Octet BY DEF Address
<1>5. \A i \in 1..4 : /\ range[i] = Bad <=> field[i] = <<-1>>
                      /\ field[i] # <<-1>> =>
                             (ip[i] \in range[i].lo..range[i].hi <=> InField(ip[i], field[i]))
  <2> HIDE DEF field
  <2> QED BY <1>2, <1>4, FieldDenotes
<1>6. ParseNumber(fields) = IF \E i \in 1..4 : range[i] = Bad THEN <<>> ELSE range
  BY DEF ParseNumber
<1>7. \A m : InField(m, <<>>) BY DEF InField
<1>8. <<>> # <<-1>> OBVIOUS
<1> HIDE DEF range, field
<1>9. ParseLine(line, littleEndian) =
          IF type = NoType \/ ParseNumber(fields) = <<>> THEN <<>>
          ELSE <<[range |-> ParseNumber(fields), type |-> type]>>
  BY DEF ParseLine
<1>10. CASE type = NoType \/ \E i \in 1..4 : field[i] = <<-1>>
  <2>1. ParseLine(line, littleEndian) = <<>> BY <1>5, <1>6, <1>9, <1>10
  <2>2. CheckTable(ip, <<>>) = NoType BY DEF CheckTable
  <2>3. type = NoType \/ \E i \in 1..n : fields[i] = <<-1>> BY <1>3, <1>8, <1>10
  <2> QED BY <2>1, <2>2, <2>3, TableOfOne
<1>11. CASE type # NoType /\ \A i \in 1..4 : field[i] # <<-1>>
  <2> DEFINE entry == [range |-> range, type |-> type]
             table == <<entry>>
  <2>1. range # <<>>
    <3>1. DOMAIN range = 1..4 BY DEF range
    <3> QED BY <3>1
  <2>2. Table(<<line>>, littleEndian) = table
    BY <1>5, <1>6, <1>9, <1>11, <2>1, TableOfOne
  <2>3. Matches(ip, range) <=> \A i \in 1..4 : InField(ip[i], field[i])
    BY <1>5, <1>11 DEF Matches
  <2>4. Matches(ip, range) <=> \A i \in 1..n : InField(ip[i], fields[i])
    BY <1>3, <1>7, <2>3
  <2>5. ASSUME NEW i \in 1..n PROVE fields[i] # <<-1>>
    <3>1. i \in 1..4 /\ field[i] = fields[i] BY <1>3
    <3> QED BY <1>11, <3>1
  <2>6. DOMAIN table = {1} /\ table[1].range = range /\ table[1].type = type OBVIOUS
  <2> HIDE DEF table
  <2>7. CheckTable(ip, table) = IF Matches(ip, range) THEN type ELSE NoType
    <3> DEFINE found == {i \in DOMAIN table : Matches(ip, table[i].range)}
               first == CHOOSE i \in found : \A j \in found : i <= j
    <3>1. found = IF Matches(ip, range) THEN {1} ELSE {} BY <2>6
    <3>2. CheckTable(ip, table) = IF found = {} THEN NoType ELSE table[first].type BY DEF CheckTable
    <3>3. found = {1} => first = 1 OBVIOUS
    <3> HIDE DEF found, first
    <3> QED BY <2>6, <3>1, <3>2, <3>3
  <2> QED BY <1>11, <2>2, <2>4, <2>5, <2>7
<1> QED BY <1>10, <1>11

LEMMA FieldsAnswered ==
    ASSUME NEW n \in 1..3, NEW fields \in [1..n -> Fields], NEW type \in {NoType, "O"}, NEW ip \in Address
    PROVE  CheckTable(ip, Table(<<[named |-> FALSE, fields |-> fields, type |-> type]>>, TRUE)) = "O" <=>
               /\ type = "O"
               /\ \A i \in DOMAIN fields : fields[i] # <<-1>>
               /\ \A i \in DOMAIN fields : InField(ip[i], fields[i])
<1> DEFINE answer == CheckTable(ip, Table(<<[named |-> FALSE, fields |-> fields, type |-> type]>>, TRUE))
<1>1. n \in 1..4 OBVIOUS
<1>2. fields \in [1..n -> Field] BY FieldsAre, Zenon
<1>3. answer = IF type # NoType /\ \A i \in 1..n : fields[i] # <<-1>> /\ InField(ip[i], fields[i])
               THEN type ELSE NoType
  BY <1>1, <1>2, AddressAnswered
<1>4. DOMAIN fields = 1..n OBVIOUS
<1>5. answer = "O" <=> /\ type = "O"
                       /\ \A i \in DOMAIN fields : fields[i] # <<-1>>
                       /\ \A i \in DOMAIN fields : InField(ip[i], fields[i])
  <2> HIDE DEF answer
  <2> QED BY <1>3, <1>4 DEF NoType
<1> QED BY <1>5

(* An address is found in a table exactly if it is in a field for every    *)
(* octet: the answer of check_ip_table().                                  *)
THEOREM AddressIsFound == Spec => []AddressFound
<1>1. Init => AddressFound BY DEF Init, AddressFound
<1>2. AddressFound /\ [Next]_call => AddressFound'
  <2> SUFFICES ASSUME AddressFound, [Next]_call PROVE AddressFound'
    OBVIOUS
  <2>1. CASE UNCHANGED call BY <2>1 DEF AddressFound
  <2>2. CASE Next /\ call'.op # "check_ip_table" BY <2>2 DEF AddressFound
  <2>3. CASE Next /\ call'.op = "check_ip_table"
    <3>1. LooksUp BY <2>3, OneCall
    <3>2. PICK n \in 1..3, type \in {NoType, "O"} : \E fields \in [1..n -> Fields], ip \in Address :
              call' = [op |-> "check_ip_table", fields |-> fields, ip |-> ip, type |-> type,
                       answer |-> CheckTable(ip, Table(<<[named |-> FALSE, fields |-> fields, type |-> type]>>, TRUE))]
      BY <3>1, Zenon DEF LooksUp
    <3>3. PICK fields \in [1..n -> Fields], ip \in Address :
              call' = [op |-> "check_ip_table", fields |-> fields, ip |-> ip, type |-> type,
                       answer |-> CheckTable(ip, Table(<<[named |-> FALSE, fields |-> fields, type |-> type]>>, TRUE))]
      BY <3>2, Zenon
    <3> DEFINE answer == CheckTable(ip, Table(<<[named |-> FALSE, fields |-> fields, type |-> type]>>, TRUE))
    <3>4. call'.fields = fields /\ call'.ip = ip /\ call'.type = type /\ call'.answer = answer
      BY <3>3
    <3>5. answer = "O" <=> /\ type = "O"
                           /\ \A i \in DOMAIN fields : fields[i] # <<-1>>
                           /\ \A i \in DOMAIN fields : InField(ip[i], fields[i])
      BY <3>2, <3>3, FieldsAnswered, Zenon
    <3> HIDE DEF answer
    <3> QED BY <3>4, <3>5, Zenon DEF AddressFound
  <2> QED BY <2>1, <2>2, <2>3
<1> QED BY <1>1, <1>2, PTL DEF Spec
-----------------------------------------------------------------------------
(* Settings *)

Words(Texts) == Seq(Seq(Texts))

LEMMA FlagsAre == ASSUME NEW name PROVE FlagsOf(name) \subseteq Flags
BY DEF FlagsOf, Flags

LEMMA LoggedType ==
    ASSUME NEW logging \in SUBSET Flags, NEW Texts, NEW words \in Words(Texts)
    PROVE  Logged(logging, words) \in SUBSET Flags
<1> DEFINE N == Len(words)
           S == SUBSET Flags
           Is(r) == r = [n \in 0..Len(words) |-> IF n = 0 THEN logging ELSE Worded(r[n - 1], words[n])]
           T == [n \in 1..N |-> [l \in S |-> Worded(l, words[n])]]
           logged == CHOOSE r : Is(r)
<1>1. N \in Nat BY DEF Words
<1>2. \A l \in S : \A w : Worded(l, w) \in S BY FlagsAre DEF Worded
<1>3. T \in [1..N -> [S -> S]] BY <1>2
<1>4. \E r : Is(r)
  <2>1. logging \in S OBVIOUS
  <2> HIDE DEF S
  <2>2. PICK r : Iterates(r, N, S, logging, T)
    <3> HIDE DEF T, N
    <3> QED BY <1>1, <1>3, <2>1, Iterated
  <2>3. \A n \in 1..N : r[n - 1] \in S /\ r[n] = Worded(r[n - 1], words[n]) BY <1>1, <2>2 DEF Iterates
  <2>4. \A n \in 0..N : r[n] = IF n = 0 THEN logging ELSE Worded(r[n - 1], words[n])
    BY <1>1, <2>2, <2>3 DEF Iterates
  <2>5. Is(r) BY <2>2, <2>4 DEF Iterates
  <2> QED BY <2>5
<1>5. Is(logged) BY <1>4, Zenon
<1>6. Logged(logging, words) = IF \E i \in DOMAIN words : words[i] = <<"none">> THEN {} ELSE logged[N]
  BY DEF Logged
<1> HIDE DEF logged
<1>7. logged[0] = logging /\ \A n \in 1..N : logged[n] = Worded(logged[n - 1], words[n])
  BY <1>1, <1>5
<1>8. logged[N] \in S
  <2>1. logged[0] \in S /\ \A n \in 1..N : logged[n - 1] \in S => logged[n] \in S
    BY <1>2, <1>7
  <2> HIDE DEF S, N
  <2> QED BY <1>1, <2>1, Kept
<1> QED BY <1>6, <1>8

(* Settings that are possible, with the timeouts of sessions in Times and  *)
(* texts of Texts, and the lines that lead to them, with files of Named.   *)
Config(Times, Texts) ==
    [session_timeout : Times, retry_timeout : {n \in Int : n >= 1},
     stat_cache_timeout : {n \in Int : n >= 1}, fp_cache_limit : {n \in Int : n >= 10},
     dir_cache_limit : {n \in Int : n >= 16}, stat_cache_limit : {n \in Int : n >= 10},
     packetsize : Nat, maxthcallowed : Int, logging : SUBSET Flags,
     home_dir : Texts, tmp_dir : Texts, logname : Texts, read_only : BOOLEAN,
     daemonize : BOOLEAN, dbug : BOOLEAN, inetd_mode : BOOLEAN, exit : Int]

Line(Times, Texts, Named) ==
    {l \in [command : Texts, text : Texts, number : Int, words : Words(Texts)] :
        /\ l.command = "statcache_timeout" => l.number \in Times
        /\ l.command = "conf" => l.text \in Named \cup {Unset}}

Timeouts == {n \in Int : n >= 7}

LEMMA DefaultsType == ASSUME NEW Times, Timeouts \subseteq Times, NEW Texts, Unset \in Texts PROVE Defaults \in Config(Times, Texts)
<1>1. 60 \in Times BY DEF Timeouts
<1>2. {} \in SUBSET Flags OBVIOUS
<1>3. DEFAULT_SPACE \in Nat BY DEF DEFAULT_SPACE
<1> QED BY <1>1, <1>2, <1>3 DEF Defaults, Config

LEMMA ObeyedType ==
    ASSUME NEW Times, Timeouts \subseteq Times, NEW Texts, Unset \in Texts, NEW c \in Config(Times, Texts),
           NEW Named, NEW line \in Line(Times, Texts, Named)
    PROVE  Obeyed(c, line) \in Config(Times, Texts)
<1>1. line.number \in Int /\ line.text \in Texts /\ line.words \in Words(Texts) /\ line.number % 65536 \in Nat
  BY DEF Line
<1>2. c.logging \in SUBSET Flags /\ c.stat_cache_timeout \in Int BY DEF Config
<1>3. Logged(c.logging, line.words) \in SUBSET Flags BY <1>1, <1>2, LoggedType
<1>4. line.command = "statcache_timeout" => line.number \in Times BY DEF Line
<1>5. AtLeast(line.number, 7, 60) \in Times BY <1>1 DEF AtLeast, Timeouts
<1>6. CASE line.command = "homedir"
  BY <1>1, <1>2, <1>3, <1>4, <1>5, <1>6 DEF Obeyed, Config
<1>7. CASE line.command = "tmpdir"
  BY <1>1, <1>2, <1>3, <1>4, <1>5, <1>7 DEF Obeyed, Config
<1>8. CASE line.command = "logfile"
  BY <1>1, <1>2, <1>3, <1>4, <1>5, <1>8 DEF Obeyed, Config
<1>9. CASE line.command = "log"
  BY <1>1, <1>2, <1>3, <1>4, <1>5, <1>9 DEF Obeyed, Config
<1>10. CASE line.command = "packetsize"
  BY <1>1, <1>2, <1>3, <1>4, <1>5, <1>10 DEF Obeyed, Config
<1>11. CASE line.command = "thruput"
  BY <1>1, <1>2, <1>3, <1>4, <1>5, <1>11 DEF Obeyed, Config
<1>12. CASE line.command = "filecache"
  BY <1>1, <1>2, <1>3, <1>4, <1>5, <1>12 DEF Obeyed, Config, AtLeast
<1>13. CASE line.command = "dircache"
  BY <1>1, <1>2, <1>3, <1>4, <1>5, <1>13 DEF Obeyed, Config, AtLeast
<1>14. CASE line.command = "statcache"
  BY <1>1, <1>2, <1>3, <1>4, <1>5, <1>14 DEF Obeyed, Config, AtLeast
<1>15. CASE line.command = "retry"
  BY <1>1, <1>2, <1>3, <1>4, <1>5, <1>15 DEF Obeyed, Config, AtLeast
<1>16. CASE line.command = "timeout"
  BY <1>1, <1>2, <1>3, <1>4, <1>5, <1>16 DEF Obeyed, Config, AtLeast
<1>17. CASE line.command = "statcache_timeout"
  <2> DEFINE n == AtLeast(c.stat_cache_timeout, 1, 20)
  <2>1. Obeyed(c, line) = [c EXCEPT !.session_timeout = line.number, !.stat_cache_timeout = n]
    BY <1>17 DEF Obeyed
  <2>2. n \in {m \in Int : m >= 1} BY <1>2 DEF AtLeast
  <2> HIDE DEF n
  <2> QED BY <1>4, <1>17, <2>1, <2>2 DEF Config
<1>18. CASE line.command = "read_only"
  <2>1. PICK yes \in BOOLEAN : yes <=> line.text = "yes" OBVIOUS
  <2>2. Obeyed(c, line) = [c EXCEPT !.read_only = yes] BY <1>18, <2>1 DEF Obeyed
  <2> QED BY <2>2 DEF Config
<1>19. CASE line.command = "daemonize"
  <2>1. PICK yes \in BOOLEAN : yes <=> line.text = "yes" OBVIOUS
  <2>2. Obeyed(c, line) = [c EXCEPT !.daemonize = yes] BY <1>19, <2>1 DEF Obeyed
  <2> QED BY <2>2 DEF Config
<1>20. CASE line.command = "debug"
  <2>1. PICK yes \in BOOLEAN : yes <=> line.text = "yes" OBVIOUS
  <2>2. Obeyed(c, line) = [c EXCEPT !.dbug = yes] BY <1>20, <2>1 DEF Obeyed
  <2> QED BY <2>2 DEF Config
<1>21. CASE line.command \notin {"homedir", "tmpdir", "logfile", "log", "packetsize", "thruput", "filecache", "dircache", "statcache", "retry", "timeout", "statcache_timeout", "read_only", "daemonize", "debug"}
  BY <1>21 DEF Obeyed
<1> QED BY <1>6, <1>7, <1>8, <1>9, <1>10, <1>11, <1>12, <1>13, <1>14, <1>15, <1>16, <1>17, <1>18, <1>19, <1>20, <1>21

LEMMA ConfiguredType ==
    ASSUME NEW Times, Timeouts \subseteq Times, NEW Texts, Unset \in Texts,
           NEW c \in Config(Times, Texts),
           NEW Named, NEW line \in Line(Times, Texts, Named)
    PROVE  Configured(c, line) \in Config(Times, Texts)
<1>1. [c EXCEPT !.exit = 1] \in Config(Times, Texts) BY DEF Config
<1> QED BY <1>1, ObeyedType DEF Configured

LEMMA LinesReadType ==
    ASSUME NEW L, NEW file \in Seq(L), NEW Files,
           \A l \in L : l.command = "conf" /\ l.text # Unset => Files[l.text] \in Seq(L)
    PROVE  LinesRead(file, Files) \in Seq(L)
<1> DEFINE conf == {i \in DOMAIN file : file[i].command = "conf"}
           first == CHOOSE i \in conf : \A j \in conf : i <= j
<1>1. LinesRead(file, Files) = IF conf = {} \/ file[first].text = Unset THEN file
                               ELSE SubSeq(file, 1, first - 1) \o Files[file[first].text]
  BY DEF LinesRead
<1>2. conf \subseteq 1..Len(file) OBVIOUS
<1>3. CASE conf # {} /\ file[first].text # Unset
  <2>1. \E i \in conf : \A j \in conf : i <= j
    <3>1. conf \subseteq Nat BY <1>2
    <3> HIDE DEF conf
    <3> QED BY <1>3, <3>1, LeastOf
  <2>2. first \in conf
    <3> HIDE DEF conf
    <3> QED BY <2>1, Zenon
  <2> HIDE DEF first
  <2>3. first \in 1..Len(file) /\ file[first] \in L /\ file[first].command = "conf" BY <1>2, <2>2
  <2>4. SubSeq(file, 1, first - 1) \in Seq(L)
    <3>1. \A i \in 1..first - 1 : file[i] \in L BY <2>3
    <3> QED BY <2>3, <3>1, SubSeqProperties
  <2>5. Files[file[first].text] \in Seq(L) BY <1>3, <2>3
  <2> HIDE DEF conf
  <2>6. SubSeq(file, 1, first - 1) \o Files[file[first].text] \in Seq(L)
    BY <2>4, <2>5, ConcatProperties
  <2> QED BY <1>1, <1>3, <2>6
<1> QED BY <1>1, <1>3

(* The settings after a file and the one that it names. *)
LEMMA LoadedType ==
    ASSUME NEW Times, Timeouts \subseteq Times, NEW Texts, Unset \in Texts, NEW c \in Config(Times, Texts),
           NEW Named, NEW file \in Seq(Line(Times, Texts, Named)), NEW Files,
           \A name \in Named : Files[name] \in Seq(Line(Times, Texts, Named))
    PROVE  LoadConfiguration(c, file, Files) \in Config(Times, Texts)
<1> DEFINE lines == LinesRead(file, Files)
           N == Len(lines)
           S == Config(Times, Texts)
           Is(r) == r = [n \in 0..N |-> IF n = 0 THEN c ELSE Configured(r[n - 1], lines[n])]
           T == [n \in 1..N |-> [d \in S |-> Configured(d, lines[n])]]
           loaded == CHOOSE r : Is(r)
<1>1. LoadConfiguration(c, file, Files) = loaded[N] BY DEF LoadConfiguration
<1>2. lines \in Seq(Line(Times, Texts, Named))
  <2> DEFINE L == Line(Times, Texts, Named)
  <2>1. \A l \in L : l.command = "conf" /\ l.text # Unset => l.text \in Named BY DEF Line
  <2>2. \A l \in L : l.command = "conf" /\ l.text # Unset => Files[l.text] \in Seq(L) BY <2>1
  <2> HIDE DEF L
  <2>3. file \in Seq(L) BY DEF L
  <2>4. LinesRead(file, Files) \in Seq(L) BY <2>2, <2>3, LinesReadType
  <2> QED BY <2>4 DEF L
<1> HIDE DEF lines
<1>3. N \in Nat /\ \A n \in 1..N : lines[n] \in Line(Times, Texts, Named) BY <1>2
<1>4. \A d \in S : \A n \in 1..N : Configured(d, lines[n]) \in S BY <1>3, ConfiguredType
<1>5. c \in S OBVIOUS
<1> HIDE DEF S, N
<1>6. T \in [1..N -> [S -> S]] BY <1>4
<1>7. \E r : Is(r)
  <2>1. PICK r : Iterates(r, N, S, c, T)
    <3> HIDE DEF T
    <3> QED BY <1>3, <1>5, <1>6, Iterated
  <2>2. ASSUME NEW n \in 1..N PROVE r[n - 1] \in S /\ r[n] = Configured(r[n - 1], lines[n])
    <3>1. n - 1 \in 0..N BY <1>3
    <3>2. r[n - 1] \in S /\ r[n] = T[n][r[n - 1]] BY <2>1, <3>1 DEF Iterates
    <3> QED BY <3>2
  <2>3. \A n \in 0..N : r[n] = IF n = 0 THEN c ELSE Configured(r[n - 1], lines[n])
    BY <1>3, <2>1, <2>2 DEF Iterates
  <2>4. Is(r) BY <2>1, <2>3 DEF Iterates
  <2> QED BY <2>4
<1>8. Is(loaded) BY <1>7, Zenon
<1> HIDE DEF loaded
<1>9. loaded[0] = c /\ \A n \in 1..N : loaded[n] = Configured(loaded[n - 1], lines[n])
  BY <1>3, <1>8
<1>10. \A n \in 0..N : loaded[n] \in S
  <2>1. loaded[0] \in S /\ \A n \in 1..N : loaded[n - 1] \in S => loaded[n] \in S
    BY <1>4, <1>5, <1>9
  <2> QED BY <1>3, <2>1, Kept
<1> QED BY <1>1, <1>3, <1>10 DEF S

Option(Texts) ==
    [command : {"d", "T", "s", "b", "l", "X", "F", "i"}, text : Texts, number : Int, words : Words(Texts)]

LEMMA OptionedType ==
    ASSUME NEW Times, NEW Texts, NEW c \in Config(Times, Texts), NEW o \in Option(Texts)
    PROVE  Optioned(c, o) \in Config(Times, Texts)
<1>1. o.number \in Int /\ o.text \in Texts /\ o.number % 65536 \in Nat BY DEF Option
<1>3. CASE o.command = "d"
  <2>1. Optioned(c, o) = [c EXCEPT !.home_dir = o.text] BY <1>3 DEF Optioned
  <2> QED BY <1>1, <2>1 DEF Config
<1>4. CASE o.command = "T"
  <2>1. Optioned(c, o) = [c EXCEPT !.tmp_dir = o.text] BY <1>4 DEF Optioned
  <2> QED BY <1>1, <2>1 DEF Config
<1>5. CASE o.command = "s"
  <2>1. Optioned(c, o) = [c EXCEPT !.packetsize = o.number % 65536] BY <1>5 DEF Optioned
  <2> QED BY <1>1, <2>1 DEF Config
<1>6. CASE o.command = "b"
  <2>1. Optioned(c, o) = [c EXCEPT !.maxthcallowed = o.number] BY <1>6 DEF Optioned
  <2> QED BY <1>1, <2>1 DEF Config
<1>7. CASE o.command = "l"
  <2>1. PICK flags \in SUBSET Flags : flags = Flags \ {"readonly"} OBVIOUS
  <2>2. Optioned(c, o) = [[c EXCEPT !.logname = o.text] EXCEPT !.logging = flags]
    BY <1>7, <2>1 DEF Optioned
  <2> DEFINE d == [c EXCEPT !.logname = o.text]
  <2>3. d \in Config(Times, Texts) BY <1>1 DEF Config
  <2> HIDE DEF d
  <2>4. [d EXCEPT !.logging = flags] \in Config(Times, Texts) BY <2>3 DEF Config
  <2> QED BY <2>2, <2>4 DEF d
<1>8. CASE o.command = "X"
  <2>1. PICK set \in BOOLEAN : set <=> TRUE OBVIOUS
  <2>2. Optioned(c, o) = [c EXCEPT !.dbug = set] BY <1>8, <2>1 DEF Optioned
  <2> QED BY <2>2 DEF Config
<1>9. CASE o.command = "F"
  <2>1. \A set \in BOOLEAN : [c EXCEPT !.daemonize = set] \in Config(Times, Texts) BY DEF Config
  <2>2. Optioned(c, o) = [c EXCEPT !.daemonize = FALSE] BY <1>9 DEF Optioned
  <2> QED BY <2>1, <2>2, Zenon
<1>10. CASE o.command = "i"
  <2>1. PICK set \in BOOLEAN : set <=> TRUE OBVIOUS
  <2>2. Optioned(c, o) = [c EXCEPT !.inetd_mode = set] BY <1>10, <2>1 DEF Optioned
  <2> QED BY <2>2 DEF Config
<1> QED BY <1>3, <1>4, <1>5, <1>6, <1>7, <1>8, <1>9, <1>10 DEF Option

(* The settings after the command line. *)
LEMMA CommandedType ==
    ASSUME NEW Times, NEW Texts, NEW c \in Config(Times, Texts), NEW options \in Seq(Option(Texts))
    PROVE  Commanded(c, options) \in Config(Times, Texts)
<1> DEFINE N == Len(options)
           S == Config(Times, Texts)
           Is(r) == r = [n \in 0..N |-> IF n = 0 THEN c ELSE Optioned(r[n - 1], options[n])]
           T == [n \in 1..N |-> [d \in S |-> Optioned(d, options[n])]]
           asked == CHOOSE r : Is(r)
<1>1. Commanded(c, options) = asked[N] BY DEF Commanded
<1>2. N \in Nat /\ \A n \in 1..N : options[n] \in Option(Texts) OBVIOUS
<1>3. \A d \in S : \A n \in 1..N : Optioned(d, options[n]) \in S BY <1>2, OptionedType
<1>4. c \in S OBVIOUS
<1> HIDE DEF S, N
<1>5. T \in [1..N -> [S -> S]] BY <1>3
<1>6. \E r : Is(r)
  <2>1. PICK r : Iterates(r, N, S, c, T)
    <3> HIDE DEF T
    <3> QED BY <1>2, <1>4, <1>5, Iterated
  <2>2. ASSUME NEW n \in 1..N PROVE r[n - 1] \in S /\ r[n] = Optioned(r[n - 1], options[n])
    <3>1. n - 1 \in 0..N BY <1>2
    <3>2. r[n - 1] \in S /\ r[n] = T[n][r[n - 1]] BY <2>1, <3>1 DEF Iterates
    <3> QED BY <3>2
  <2>3. \A n \in 0..N : r[n] = IF n = 0 THEN c ELSE Optioned(r[n - 1], options[n])
    BY <1>2, <2>1, <2>2 DEF Iterates
  <2>4. Is(r) BY <2>1, <2>3 DEF Iterates
  <2> QED BY <2>4
<1>7. Is(asked) BY <1>6, Zenon
<1> HIDE DEF asked
<1>8. asked[0] = c /\ \A n \in 1..N : asked[n] = Optioned(asked[n - 1], options[n])
  BY <1>2, <1>7
<1>9. \A n \in 0..N : asked[n] \in S
  <2>1. asked[0] \in S /\ \A n \in 1..N : asked[n - 1] \in S => asked[n] \in S
    BY <1>3, <1>4, <1>8
  <2> QED BY <1>2, <2>1, Kept
<1> QED BY <1>1, <1>2, <1>9 DEF S

(* What a server can work with. *)
Works(c, usable, Times) ==
    /\ ~c.read_only => c.tmp_dir \in usable
    /\ c.packetsize \in 64..MAXSPACE
    /\ c.fp_cache_limit >= 10 /\ c.dir_cache_limit >= 16 /\ c.stat_cache_limit >= 10
    /\ c.retry_timeout >= 1 /\ c.stat_cache_timeout >= 1
    /\ c.session_timeout \in Times
    /\ ~(c.dbug /\ (c.daemonize \/ c.inetd_mode))

LEMMA PacketSizeIs == ASSUME NEW n \in Nat PROVE PacketSize(n) \in Nat /\ PacketSize(n) \in 64..MAXSPACE
<1>1. MAXSPACE \in Nat /\ 1452 <= MAXSPACE /\ 64 <= MAXSPACE BY DEF MAXSPACE
<1>2. DEFAULT_SPACE \in Nat /\ 64 <= DEFAULT_SPACE /\ DEFAULT_SPACE <= MAXSPACE BY DEF MAXSPACE, DEFAULT_SPACE
<1> QED BY <1>1, <1>2 DEF PacketSize

(* A server that starts can work with its settings, whatever it is told. *)
LEMMA StartedWorks ==
    ASSUME NEW Times, Timeouts \subseteq Times, NEW Texts, Unset \in Texts,
           NEW Named, NEW file \in Seq(Line(Times, Texts, Named)), NEW options \in Seq(Option(Texts)),
           NEW usable, NEW Files, \A name \in Named : Files[name] \in Seq(Line(Times, Texts, Named)),
           Started(file, options, usable, Files).exit = 0
    PROVE  Works(Started(file, options, usable, Files), usable, Times)
<1> DEFINE S == Config(Times, Texts)
           loaded == LoadConfiguration(Defaults, file, Files)
           asked == IF loaded.exit # 0 THEN loaded ELSE Commanded(loaded, options)
           checked == IF asked.exit # 0 THEN asked ELSE Checked(asked)
           set == Started(file, options, usable, Files)
<1>1. set = IF checked.exit # 0 THEN checked ELSE Homed(checked, usable) BY DEF Started
<1>2. loaded \in S
  <2>1. Defaults \in S BY DefaultsType
  <2> HIDE DEF S
  <2> QED BY <2>1, LoadedType DEF S
<1> HIDE DEF loaded
<1>3. asked \in S BY <1>2, CommandedType
<1> HIDE DEF asked
<1>4. asked.exit = 0 /\ checked = Checked(asked) /\ checked.exit = 0 /\ set = Homed(checked, usable)
  <2>1. checked.exit = 0 BY <1>1
  <2>2. asked.exit = 0 BY <2>1
  <2> QED BY <1>1, <2>1, <2>2
<1> HIDE DEF checked, set
<1>5. asked.home_dir # Unset
  <2> SUFFICES ASSUME asked.home_dir = Unset PROVE FALSE
    OBVIOUS
  <2>1. checked = [asked EXCEPT !.exit = 1] BY <1>4 DEF Checked
  <2> QED BY <1>3, <1>4, <2>1 DEF Config
<1>6. checked = [asked EXCEPT
                     !.packetsize = PacketSize(asked.packetsize),
                     !.logging = IF asked.logname = Unset THEN {} ELSE asked.logging,
                     !.daemonize = asked.daemonize /\ ~asked.dbug,
                     !.dbug = asked.dbug /\ ~(asked.inetd_mode /\ asked.dbug),
                     !.read_only = asked.read_only \/ asked.tmp_dir = Unset]
  BY <1>4, <1>5 DEF Checked
<1>7. /\ checked.packetsize = PacketSize(asked.packetsize)
      /\ checked.fp_cache_limit = asked.fp_cache_limit /\ checked.dir_cache_limit = asked.dir_cache_limit
      /\ checked.stat_cache_limit = asked.stat_cache_limit
      /\ checked.retry_timeout = asked.retry_timeout
      /\ checked.stat_cache_timeout = asked.stat_cache_timeout
      /\ checked.session_timeout = asked.session_timeout
      /\ checked.tmp_dir = asked.tmp_dir
  BY <1>3, <1>6 DEF Config
<1>8. /\ checked.daemonize <=> asked.daemonize /\ ~asked.dbug
      /\ checked.dbug <=> asked.dbug /\ ~asked.inetd_mode
      /\ checked.inetd_mode <=> asked.inetd_mode
      /\ checked.read_only <=> asked.read_only \/ asked.tmp_dir = Unset
  BY <1>3, <1>6 DEF Config
<1>9. /\ asked.fp_cache_limit >= 10 /\ asked.dir_cache_limit >= 16 /\ asked.stat_cache_limit >= 10
      /\ asked.retry_timeout >= 1 /\ asked.stat_cache_timeout >= 1 /\ asked.session_timeout \in Times
      /\ asked.packetsize \in Nat
  BY <1>3 DEF Config
<1>10. checked.packetsize \in 64..MAXSPACE
  BY <1>7, <1>9, PacketSizeIs
<1>11. checked.home_dir \in usable
  <2> SUFFICES ASSUME checked.home_dir \notin usable PROVE FALSE
    OBVIOUS
  <2>1. set = [checked EXCEPT !.exit = 6] BY <1>4 DEF Homed
  <2>2. set.exit = 6 BY <1>3, <1>6, <2>1 DEF Config
  <2> QED BY <2>2 DEF set
<1>12. CASE checked.tmp_dir = Unset \/ checked.tmp_dir \in usable
  <2>1. set = checked BY <1>4, <1>11, <1>12 DEF Homed
  <2>2. ~set.read_only => set.tmp_dir \in usable BY <1>7, <1>8, <1>12, <2>1
  <2>3. ~(set.dbug /\ (set.daemonize \/ set.inetd_mode)) BY <1>8, <2>1, Zenon
  <2> HIDE DEF set
  <2>4. Works(set, usable, Times)
    BY <1>7, <1>9, <1>10, <2>1, <2>2, <2>3 DEF Works
  <2> QED BY <2>4 DEF set
<1>13. CASE checked.tmp_dir # Unset /\ checked.tmp_dir \notin usable
  <2>1. set = [checked EXCEPT !.tmp_dir = Unset, !.read_only = TRUE] BY <1>4, <1>11, <1>13 DEF Homed
  <2>2. /\ set.packetsize = checked.packetsize
        /\ set.fp_cache_limit = checked.fp_cache_limit /\ set.dir_cache_limit = checked.dir_cache_limit
        /\ set.stat_cache_limit = checked.stat_cache_limit
        /\ set.retry_timeout = checked.retry_timeout
        /\ set.stat_cache_timeout = checked.stat_cache_timeout
        /\ set.session_timeout = checked.session_timeout
    BY <1>3, <1>6, <2>1 DEF Config
  <2>3. /\ set.read_only
        /\ set.dbug = checked.dbug /\ set.daemonize = checked.daemonize
        /\ set.inetd_mode = checked.inetd_mode
    BY <1>3, <1>6, <2>1 DEF Config
  <2>4. ~(set.dbug /\ (set.daemonize \/ set.inetd_mode)) BY <1>8, <2>3, Zenon
  <2> HIDE DEF set
  <2>5. Works(set, usable, Times)
    BY <1>7, <1>9, <1>10, <2>2, <2>3, <2>4 DEF Works
  <2> QED BY <2>5 DEF set
<1> QED BY <1>12, <1>13

Vocabulary ==
    {"homedir", "tmpdir", "read_only", "conf", "logfile", "debug", "daemonize", "log", "packetsize", "retry",
     "timeout", "statcache", "dircache", "filecache", "statcache_timeout", "thruput",
     "home", "tmp", "yes", "no", "maybe", "other", Unset, "-",
     "all", "!", "transfers", "errors", "none", "getfile"}

LEMMA TextIs ==
    ASSUME NEW Times, NEW command \in Vocabulary \ {"statcache_timeout"}, NEW text \in Vocabulary,
           command = "conf" => text = "other"
    PROVE  Text(command, text) \in Line(Times, Vocabulary, {"other"})
<1>1. <<>> \in Words(Vocabulary) BY DEF Words
<1> QED BY <1>1 DEF Text, Line

LEMMA NumberIs ==
    ASSUME NEW Times, NEW command \in Vocabulary \ {"conf"}, NEW n \in Int,
           command = "statcache_timeout" => n \in Times
    PROVE  Number(command, n) \in Line(Times, Vocabulary, {"other"})
<1>1. <<>> \in Words(Vocabulary) BY DEF Words
<1>2. "-" \in Vocabulary BY DEF Vocabulary
<1> QED BY <1>1, <1>2 DEF Number, Line

LEMMA LogIs ==
    ASSUME NEW Times, NEW words \in Words(Vocabulary)
    PROVE  Log(words) \in Line(Times, Vocabulary, {"other"})
<1>1. "-" \in Vocabulary /\ "log" \in Vocabulary BY DEF Vocabulary
<1> QED BY <1>1 DEF Log, Line

(* The lines of Pure, with statcache_timeout and without. *)
LEMMA LinesAre ==
    ASSUME NEW Times, NEW line \in Lines, line.command = "statcache_timeout" => 0 \in Times
    PROVE  line \in Line(Times, Vocabulary, {"other"})
<1> DEFINE Commands == {"packetsize", "retry", "timeout", "statcache", "dircache", "filecache"}
           Texts == {Text("homedir", "home"), Text("homedir", Unset), Text("tmpdir", "tmp"),
                     Text("read_only", "yes"), Text("read_only", "no"), Text("read_only", "maybe"),
                     Text("conf", "other"), Text("logfile", "log"), Text("debug", "yes"), Text("daemonize", "no")}
           Logs == {Log(<< <<"all">>, <<"!", "transfers">> >>), Log(<< <<"errors">>, <<"none">>, <<"getfile">> >>)}
           Numbers == {Number(c, n) : c \in Commands, n \in {0, 5, 100}}
<1>1. line \in Texts \/ line \in Logs \/ line = Number("statcache_timeout", 0) \/ line \in Numbers
  BY DEF Lines
<1>2. CASE line \in Texts
  <2>1. \E command \in Vocabulary \ {"statcache_timeout"}, text \in Vocabulary :
            line = Text(command, text) /\ (command = "conf" => text = "other")
    <3> DEFINE C == Vocabulary \ {"statcache_timeout"}
    <3>1. {"homedir", "tmpdir", "read_only", "conf", "logfile", "debug", "daemonize"} \subseteq C
      BY DEF Vocabulary, Unset
    <3>2. {"home", Unset, "tmp", "yes", "no", "maybe", "other", "log"} \subseteq Vocabulary
      BY DEF Vocabulary
    <3> HIDE DEF C
    <3> QED BY <1>2, <3>1, <3>2 DEF C
  <2> QED BY <2>1, TextIs
<1>3. CASE line \in Logs
  <2>1. << <<"all">>, <<"!", "transfers">> >> \in Words(Vocabulary)
    BY DEF Words, Vocabulary
  <2>2. << <<"errors">>, <<"none">>, <<"getfile">> >> \in Words(Vocabulary)
    BY DEF Words, Vocabulary
  <2> QED BY <1>3, <2>1, <2>2, LogIs
<1>4. CASE line = Number("statcache_timeout", 0)
  <2>1. line.command = "statcache_timeout" BY <1>4 DEF Number
  <2>2. "statcache_timeout" \in Vocabulary \ {"conf"} BY DEF Vocabulary
  <2> QED BY <1>4, <2>1, <2>2, NumberIs
<1>5. CASE line \in Numbers
  <2>1. Commands \subseteq (Vocabulary \ {"conf"}) \ {"statcache_timeout"} BY DEF Vocabulary, Unset
  <2> HIDE DEF Commands
  <2> QED BY <1>5, <2>1, NumberIs
<1> QED BY <1>1, <1>2, <1>3, <1>4, <1>5

LEMMA OtherIs == ASSUME NEW Times PROVE Other \in Seq(Line(Times, Vocabulary, {"other"}))
<1>1. {"homedir", "tmpdir", "conf", "home", "tmp", "other", "thruput"} \subseteq Vocabulary \ {"statcache_timeout"}
  BY DEF Vocabulary, Unset
<1>2. /\ Text("homedir", "home") \in Line(Times, Vocabulary, {"other"})
      /\ Text("conf", "other") \in Line(Times, Vocabulary, {"other"})
      /\ Text("tmpdir", "tmp") \in Line(Times, Vocabulary, {"other"})
  BY <1>1, TextIs
<1>4. "thruput" \in Vocabulary \ {"conf"} BY DEF Vocabulary
<1>3. Number("thruput", 0) \in Line(Times, Vocabulary, {"other"}) BY <1>4, NumberIs
<1> QED BY <1>2, <1>3 DEF Other

LEMMA OptionsAre == Options \subseteq Option(Vocabulary)
<1> DEFINE C == {"d", "T", "s", "b", "l", "X", "F", "i"}
<1>1. <<>> \in Words(Vocabulary) BY DEF Words
<1>2. {"home", "tmp", "log", "-"} \subseteq Vocabulary BY DEF Vocabulary
<1>3. \A c \in C, t \in Vocabulary : Text(c, t) \in Option(Vocabulary) BY <1>1 DEF Text, Option
<1>4. \A c \in C, n \in Int : Number(c, n) \in Option(Vocabulary) BY <1>1, <1>2 DEF Number, Option
<1>5. Text("d", "home") \in Option(Vocabulary) /\ Text("T", "tmp") \in Option(Vocabulary)
  BY <1>2, <1>3
<1>6. Text("l", "log") \in Option(Vocabulary) /\ Text("X", "-") \in Option(Vocabulary)
  BY <1>2, <1>3
<1>7. Text("F", "-") \in Option(Vocabulary) /\ Text("i", "-") \in Option(Vocabulary)
  BY <1>2, <1>3
<1>8. /\ Number("s", 63) \in Option(Vocabulary) /\ Number("s", 65536 + 5000) \in Option(Vocabulary)
      /\ Number("b", 1) \in Option(Vocabulary)
  BY <1>4
<1> QED BY <1>5, <1>6, <1>7, <1>8 DEF Options

LEMMA BoundedSeq0 == ASSUME NEW S, NEW n \in Nat PROVE SeqOf(S, n) \subseteq Seq(S)
BY DEF SeqOf

LEMMA StartsAnswered ==
    ASSUME NEW file \in SeqOf(Lines, 2), NEW options \in SeqOf(Options, 1), NEW usable,
           Started(file, options, usable, [other |-> Other]).exit = 0
    PROVE  /\ Works(Started(file, options, usable, [other |-> Other]), usable, Int)
           /\ \/ Started(file, options, usable, [other |-> Other]).session_timeout >= 7
              \/ \E i \in DOMAIN file : file[i].command = "statcache_timeout"
<1> DEFINE Files == [other |-> Other]
           set == Started(file, options, usable, Files)
           L(T) == Line(T, Vocabulary, {"other"})
<1>1. file \in Seq(Lines) /\ options \in Seq(Options) BY BoundedSeq0
<1>2. options \in Seq(Option(Vocabulary)) BY <1>1, OptionsAre, SeqMonotonic
<1>3. ASSUME NEW Times, Timeouts \subseteq Times,
             \A i \in DOMAIN file : file[i].command = "statcache_timeout" => 0 \in Times
      PROVE  Works(set, usable, Times)
  <2>1. file \in Seq(L(Times))
    <3>1. \A i \in 1..Len(file) : file[i] \in L(Times) BY <1>1, <1>3, LinesAre
    <3> QED BY <1>1, <3>1
  <2>2. \A name \in {"other"} : Files[name] \in Seq(L(Times)) BY OtherIs
  <2>3. Unset \in Vocabulary BY DEF Vocabulary
  <2>4. set.exit = 0 OBVIOUS
  <2> HIDE DEF Files
  <2> QED BY <1>2, <1>3, <2>1, <2>2, <2>3, <2>4, StartedWorks
<1>4. Works(set, usable, Int) BY <1>3 DEF Timeouts
<1>5. CASE \A i \in DOMAIN file : file[i].command # "statcache_timeout"
  <2>1. Works(set, usable, Timeouts) BY <1>3, <1>5
  <2> HIDE DEF set
  <2>2. set.session_timeout >= 7 BY <2>1 DEF Works, Timeouts
  <2> QED BY <1>4, <2>2 DEF set
<1> QED BY <1>4, <1>5

(* A server that starts can work: the settings main() goes on with.        *)
THEOREM StartsAreSane == Spec => []StartsSane
<1>1. Init => StartsSane BY DEF Init, StartsSane
<1>2. StartsSane /\ [Next]_call => StartsSane'
  <2> SUFFICES ASSUME StartsSane, [Next]_call PROVE StartsSane'
    OBVIOUS
  <2>1. CASE UNCHANGED call BY <2>1 DEF StartsSane
  <2>2. CASE Next /\ call'.op # "main" BY <2>2 DEF StartsSane
  <2>3. CASE Next /\ call'.op = "main"
    <3>1. Starts BY <2>3, OneCall
    <3>2. PICK file \in SeqOf(Lines, 2), options \in SeqOf(Options, 1), usable \in SUBSET {"home", "tmp"} :
              call' = [op |-> "main", file |-> file, options |-> options, usable |-> usable,
                       set |-> Started(file, options, usable, [other |-> Other])]
      BY <3>1, Zenon DEF Starts
    <3> DEFINE set == Started(file, options, usable, [other |-> Other])
    <3>3. call'.file = file /\ call'.usable = usable /\ call'.set = set BY <3>2
    <3>4. set.exit = 0 => /\ Works(set, usable, Int)
                          /\ \/ set.session_timeout >= 7
                             \/ \E i \in DOMAIN file : file[i].command = "statcache_timeout"
      BY <3>2, StartsAnswered, Zenon
    <3> HIDE DEF set
    <3> QED BY <3>3, <3>4 DEF StartsSane, Works
  <2> QED BY <2>1, <2>2, <2>3
<1> QED BY <1>1, <1>2, PTL DEF Spec
-----------------------------------------------------------------------------
(* Paths *)

(* The first of chars from t on is there. *)
LEMMA NextOfIs ==
    ASSUME NEW C, NEW path \in Seq(C), NEW t \in 1..Len(path) + 1, NEW chars
    PROVE  /\ NextOf(path, t, chars) \in t..Len(path) + 1
           /\ NextOf(path, t, chars) = Len(path) + 1 \/ path[NextOf(path, t, chars)] \in chars
           /\ \A i \in t..NextOf(path, t, chars) - 1 : path[i] \notin chars
<1> DEFINE Is(n) == /\ n = Len(path) + 1 \/ path[n] \in chars
                    /\ \A i \in t..n - 1 : path[i] \notin chars
           D == t..Len(path) + 1
           T == {n \in D : n = Len(path) + 1 \/ path[n] \in chars}
<1>1. Len(path) + 1 \in T /\ T \subseteq Nat OBVIOUS
<1>2. PICK n \in T : \A m \in T : n <= m
  <2> HIDE DEF T
  <2> QED BY <1>1, LeastOf
<1>3. n \in D /\ Is(n) BY <1>2
<1>4. NextOf(path, t, chars) = CHOOSE m \in D : Is(m) BY DEF NextOf
<1> HIDE DEF D, Is
<1>5. NextOf(path, t, chars) \in D /\ Is(NextOf(path, t, chars)) BY <1>3, <1>4, Zenon
<1> QED BY <1>5 DEF D, Is

LEMMA JunkedIs ==
    ASSUME NEW C, NEW str \in Seq(C)
    PROVE  /\ Junked(str) \in Seq(C) /\ Len(Junked(str)) <= Len(str)
           /\ \A i \in 1..Len(Junked(str)) : Junked(str)[i] = str[i] /\ str[i] # NL
<1> DEFINE n == NextOf(str, 1, {NL})
<1>1. n \in 1..Len(str) + 1 /\ \A i \in 1..n - 1 : str[i] # NL BY NextOfIs
<1>2. Junked(str) = SubSeq(str, 1, n - 1) BY DEF Junked, Head0
<1> HIDE DEF n
<1> QED BY <1>1, <1>2

(* The walk along a path, one character after another. *)
Walked(C) == [dirs : Seq(Seq(C)), name : Seq(C)]

LEMMA EnterType ==
    ASSUME NEW C, NEW dirs \in Seq(Seq(C)), NEW name \in Seq(C), NEW follow
    PROVE  Enter(dirs, name, follow) \in Seq(Seq(C))
<1>1. SubSeq(dirs, 1, Len(dirs) - 1) \in Seq(Seq(C))
  <2> DEFINE S == Seq(C)
  <2>1. dirs \in Seq(S) OBVIOUS
  <2> HIDE DEF S
  <2>2. SubSeq(dirs, 1, Len(dirs) - 1) \in Seq(S) BY <2>1
  <2> QED BY <2>2 DEF S
<1>2. Append(dirs, name) \in Seq(Seq(C)) OBVIOUS
<1> QED BY <1>1, <1>2 DEF Enter

LEMMA PassType ==
    ASSUME NEW C, NEW w \in Walked(C), NEW c \in C, NEW follow
    PROVE  Pass(w, c, follow) \in Walked(C)
<1>1. w.dirs \in Seq(Seq(C)) /\ w.name \in Seq(C) BY DEF Walked
<1>2. Enter(w.dirs, w.name, follow) \in Seq(Seq(C)) BY <1>1, EnterType
<1>3. Append(w.name, c) \in Seq(C) /\ <<>> \in Seq(C) BY <1>1
<1> QED BY <1>2, <1>3 DEF Pass, Walked

LEMMA WalkIs ==
    ASSUME NEW C, NEW path \in Seq(C), NEW follow
    PROVE  /\ Walk(path, 0, follow) = [dirs |-> <<>>, name |-> <<>>]
           /\ \A i \in 0..Len(path) : Walk(path, i, follow) \in Walked(C)
           /\ \A i \in 1..Len(path) :
                  Walk(path, i, follow) = Pass(Walk(path, i - 1, follow), path[i], follow)
<1> DEFINE N == Len(path)
           S == Walked(C)
           x == [dirs |-> <<>>, name |-> <<>>]
           Is(r) == r = [n \in 0..N |-> IF n = 0 THEN x ELSE Pass(r[n - 1], path[n], follow)]
           T == [n \in 1..N |-> [w \in S |-> Pass(w, path[n], follow)]]
           walk == CHOOSE r : Is(r)
<1>1. \A n : Walk(path, n, follow) = walk[n] BY DEF Walk
<1>2. N \in Nat /\ \A n \in 1..N : path[n] \in C OBVIOUS
<1>3. x \in S BY DEF Walked
<1>4. \A w \in S : \A n \in 1..N : Pass(w, path[n], follow) \in S BY <1>2, PassType
<1> HIDE DEF S, x, N
<1>5. T \in [1..N -> [S -> S]] BY <1>4
<1>6. PICK r : Iterates(r, N, S, x, T)
  <2> HIDE DEF T
  <2> QED BY <1>2, <1>3, <1>5, Iterated
<1>7. ASSUME NEW n \in 1..N PROVE r[n - 1] \in S /\ r[n] = Pass(r[n - 1], path[n], follow)
  <2>1. n - 1 \in 0..N BY <1>2
  <2>2. r[n - 1] \in S /\ r[n] = T[n][r[n - 1]] BY <1>6, <2>1 DEF Iterates
  <2> QED BY <2>2
<1>8. Is(r)
  <2>1. \A n \in 0..N : r[n] = IF n = 0 THEN x ELSE Pass(r[n - 1], path[n], follow)
    BY <1>2, <1>6, <1>7 DEF Iterates
  <2> QED BY <1>6, <2>1 DEF Iterates
<1>9. Is(walk) BY <1>8, Zenon
<1> HIDE DEF walk
<1>10. walk[0] = x /\ \A n \in 1..N : walk[n] = Pass(walk[n - 1], path[n], follow) BY <1>2, <1>9
<1>11. \A n \in 0..N : walk[n] \in S
  <2>1. walk[0] \in S /\ \A n \in 1..N : walk[n - 1] \in S => walk[n] \in S BY <1>3, <1>4, <1>10
  <2> QED BY <1>2, <2>1, Kept
<1> QED BY <1>1, <1>2, <1>10, <1>11 DEF S, x, N

(* Two walks that agree once agree as long as the paths do. *)
Alike(a, m, b, n, k) == \A i \in 1..k : a[m + i] = b[n + i]
LEMMA WalksAgree ==
    ASSUME NEW C, NEW a \in Seq(C), NEW b \in Seq(C), NEW follow, NEW m \in Nat, NEW n \in Nat, NEW k \in Nat,
           m + k <= Len(a), n + k <= Len(b), Alike(a, m, b, n, k),
           Walk(a, m, follow) = Walk(b, n, follow)
    PROVE  Walk(a, m + k, follow) = Walk(b, n + k, follow)
<1> DEFINE Q == {i \in 0..k : Walk(a, m + i, follow) = Walk(b, n + i, follow)}
<1>1. 0 \in Q BY m + 0 = m, n + 0 = n
<1>2. ASSUME NEW i \in 0..k - 1, i \in Q PROVE i + 1 \in Q
  <2>1. PICK x : x = m + (i + 1) /\ x \in 1..Len(a) /\ x - 1 = m + i OBVIOUS
  <2>2. PICK y : y = n + (i + 1) /\ y \in 1..Len(b) /\ y - 1 = n + i OBVIOUS
  <2>3. Walk(a, x, follow) = Pass(Walk(a, x - 1, follow), a[x], follow) BY <2>1, WalkIs
  <2>4. Walk(b, y, follow) = Pass(Walk(b, y - 1, follow), b[y], follow) BY <2>2, WalkIs
  <2>5. a[x] = b[y]
    <3>1. i + 1 \in 1..k OBVIOUS
    <3>2. a[m + (i + 1)] = b[n + (i + 1)] BY <3>1 DEF Alike
    <3> QED BY <2>1, <2>2, <3>2
  <2>6. Walk(a, x - 1, follow) = Walk(b, y - 1, follow) BY <1>2, <2>1, <2>2
  <2> QED BY <2>1, <2>2, <2>3, <2>4, <2>5, <2>6
<1>3. 0..k \subseteq Q
  <2> HIDE DEF Q
  <2> QED BY <1>1, <1>2, Induction
<1> QED BY <1>3

(* Slashes lead nowhere. *)
LEMMA WalkSlashes ==
    ASSUME NEW C, NEW path \in Seq(C), NEW n \in 0..Len(path), \A i \in 1..n : path[i] = "/", NEW follow
    PROVE  Walk(path, n, follow) = [dirs |-> <<>>, name |-> <<>>]
<1> DEFINE x == [dirs |-> <<>>, name |-> <<>>]
           r == [i \in 0..n |-> Walk(path, i, follow)]
           S == {x}
<1>1. r[0] \in S BY WalkIs
<1>2. Pass(x, "/", follow) = x BY DEF Pass, Enter
<1>3. ASSUME NEW i \in 1..n, r[i - 1] \in S PROVE r[i] \in S
  <2>1. i - 1 \in 0..n /\ i \in 1..Len(path) OBVIOUS
  <2>2. Walk(path, i, follow) = Pass(Walk(path, i - 1, follow), "/", follow) BY <2>1, WalkIs
  <2> QED BY <1>2, <1>3, <2>1, <2>2
<1> HIDE DEF r, x, S
<1>4. \A i \in 0..n : r[i] \in S
  <2>1. \A i \in 1..n : r[i - 1] \in S => r[i] \in S BY <1>3
  <2>2. n \in Nat OBVIOUS
  <2> QED BY <1>1, <2>1, <2>2, Kept
<1>5. r[n] = x BY <1>4 DEF S
<1> QED BY <1>5 DEF r, x

(* The loop of parse_path(). *)
ScanState == [state : 0..2, full : Nat, d_len : Int, f : Nat, refused : BOOLEAN]

LEMMA ScanType ==
    ASSUME NEW q \in ScanState, NEW c, NEW s \in Nat
    PROVE  Scan(q, c, s) \in ScanState
<1>1. CASE q.refused \/ c \in {CTL, TOP} \/ Hidden(c, q.state)
  <2>1. \A b \in BOOLEAN : [q EXCEPT !.refused = b] \in ScanState BY DEF ScanState
  <2>2. Scan(q, c, s) = [q EXCEPT !.refused = TRUE] BY <1>1 DEF Scan
  <2> QED BY <2>1, <2>2, Zenon
<1>2. CASE ~(q.refused \/ c \in {CTL, TOP} \/ Hidden(c, q.state))
  <2>1. q.full \in Nat /\ q.d_len \in Int /\ s + 1 \in Nat /\ s - q.full \in Int BY DEF ScanState
  <2>2. CASE c # "/" BY <1>2, <2>1, <2>2 DEF Scan, ScanState
  <2>3. CASE c = "/" /\ q.state = 0
    <3>1. Scan(q, c, s) = [q EXCEPT !.full = s + 1, !.d_len = 0, !.f = s + 1] BY <1>2, <2>3 DEF Scan
    <3>2. PICK m \in Nat : m = s + 1 OBVIOUS
    <3> DEFINE o == [q EXCEPT !.full = m]
               p == [o EXCEPT !.d_len = 0]
    <3>3. Scan(q, c, s) = [p EXCEPT !.f = m] BY <3>1, <3>2
    <3>4. o \in ScanState BY <3>2 DEF ScanState
    <3> HIDE DEF o
    <3>5. p \in ScanState BY <3>4 DEF ScanState
    <3> HIDE DEF p
    <3> QED BY <3>2, <3>3, <3>5 DEF ScanState
  <2>4. CASE c = "/" /\ q.state = 1
    <3>1. Scan(q, c, s) = [q EXCEPT !.state = 2, !.d_len = s - q.full, !.f = s + 1] BY <1>2, <2>4 DEF Scan
    <3>2. PICK m \in Nat : m = s + 1 OBVIOUS
    <3>3. PICK d \in Int : d = s - q.full BY <2>1
    <3> DEFINE o == [q EXCEPT !.state = 2]
               p == [o EXCEPT !.d_len = d]
    <3>4. Scan(q, c, s) = [p EXCEPT !.f = m] BY <3>1, <3>2, <3>3
    <3>5. o \in ScanState BY DEF ScanState
    <3> HIDE DEF o
    <3>6. p \in ScanState BY <3>3, <3>5 DEF ScanState
    <3> HIDE DEF p
    <3> QED BY <3>2, <3>4, <3>6 DEF ScanState
  <2>5. CASE c = "/" /\ q.state \notin {0, 1}
    <3>1. Scan(q, c, s) = [q EXCEPT !.f = s + 1] BY <1>2, <2>5 DEF Scan
    <3> QED BY <2>1, <3>1 DEF ScanState
  <2> QED BY <2>2, <2>3, <2>4, <2>5
<1> QED BY <1>1, <1>2

LEMMA ScannedIs ==
    ASSUME NEW C, NEW text \in Seq(C)
    PROVE  /\ Scanned(text, 0) = [state |-> 0, full |-> 1, d_len |-> 0, f |-> 1, refused |-> FALSE]
           /\ \A s \in 0..Len(text) : Scanned(text, s) \in ScanState
           /\ \A s \in 1..Len(text) : Scanned(text, s) = Scan(Scanned(text, s - 1), text[s], s)
<1> DEFINE N == Len(text)
           S == ScanState
           x == [state |-> 0, full |-> 1, d_len |-> 0, f |-> 1, refused |-> FALSE]
           Is(r) == r = [n \in 0..N |-> IF n = 0 THEN x ELSE Scan(r[n - 1], text[n], n)]
           T == [n \in 1..N |-> [q \in S |-> Scan(q, text[n], n)]]
           scan == CHOOSE r : Is(r)
<1>1. \A n : Scanned(text, n) = scan[n] BY DEF Scanned
<1>2. N \in Nat OBVIOUS
<1>3. x \in S
  <2>1. \A b \in BOOLEAN : [state |-> 0, full |-> 1, d_len |-> 0, f |-> 1, refused |-> b] \in S
    BY DEF ScanState
  <2> QED BY <2>1, Zenon
<1>4. \A q \in S : \A n \in 1..N : Scan(q, text[n], n) \in S BY <1>2, ScanType
<1> HIDE DEF S, x, N
<1>5. T \in [1..N -> [S -> S]] BY <1>4
<1>6. PICK r : Iterates(r, N, S, x, T)
  <2> HIDE DEF T
  <2> QED BY <1>2, <1>3, <1>5, Iterated
<1>7. ASSUME NEW n \in 1..N PROVE r[n - 1] \in S /\ r[n] = Scan(r[n - 1], text[n], n)
  <2>1. n - 1 \in 0..N BY <1>2
  <2>2. r[n - 1] \in S /\ r[n] = T[n][r[n - 1]] BY <1>6, <2>1 DEF Iterates
  <2> QED BY <2>2
<1>8. Is(r)
  <2>1. \A n \in 0..N : r[n] = IF n = 0 THEN x ELSE Scan(r[n - 1], text[n], n)
    BY <1>2, <1>6, <1>7 DEF Iterates
  <2> QED BY <1>6, <2>1 DEF Iterates
<1>9. Is(scan) BY <1>8, Zenon
<1> HIDE DEF scan
<1>10. scan[0] = x /\ \A n \in 1..N : scan[n] = Scan(scan[n - 1], text[n], n) BY <1>2, <1>9
<1>11. \A n \in 0..N : scan[n] \in S
  <2>1. scan[0] \in S /\ \A n \in 1..N : scan[n - 1] \in S => scan[n] \in S BY <1>3, <1>4, <1>10
  <2> QED BY <1>2, <2>1, Kept
<1> QED BY <1>1, <1>2, <1>10, <1>11 DEF S, x, N

(* What the loop has seen after s characters, and the walk so far. *)
Split(text, q) ==
    \/ q.d_len = 0 /\ q.f = q.full
    \/ /\ q.d_len >= 1 /\ q.full + q.d_len < q.f
       /\ \A i \in q.full + q.d_len..q.f - 1 : text[i] = "/"
Seen(text, s, q, w) ==
    /\ ~HasHidden(w.dirs) /\ w.name = SubSeq(text, q.f, s)
    /\ q.f \in 1..s + 1
    /\ q.state = 0 => /\ q.full = s + 1 /\ q.d_len = 0 /\ q.f = s + 1
                      /\ \A i \in 1..s : text[i] = "/"
    /\ q.state # 0 => /\ q.full \in 1..s /\ text[q.full] # "/" /\ Split(text, q)
                      /\ \A i \in 1..q.full - 1 : text[i] = "/"
    /\ q.state = 1 => q.f <= s /\ text[q.f] \notin {".", "\\"}
    /\ q.state = 2 => q.f = s + 1

LEMMA SubSeqGrows ==
    ASSUME NEW C, NEW path \in Seq(C), NEW n \in 1..Len(path), NEW f \in 1..n
    PROVE  SubSeq(path, f, n) = Append(SubSeq(path, f, n - 1), path[n])
<1> DEFINE a == SubSeq(path, f, n)
           b == SubSeq(path, f, n - 1)
<1>1. a \in Seq(C) /\ Len(a) = n - f + 1 /\ \A i \in 1..n - f + 1 : a[i] = path[f + i - 1] OBVIOUS
<1>2. b \in Seq(C) /\ Len(b) = n - f /\ \A i \in 1..n - f : b[i] = path[f + i - 1] OBVIOUS
<1>3. path[n] \in C /\ n - f + 1 \in Nat /\ f + (n - f + 1) - 1 = n OBVIOUS
<1> HIDE DEF a, b
<1>4. Append(b, path[n]) \in Seq(C) /\ Len(Append(b, path[n])) = n - f + 1
  <2>1. PICK c \in C : c = path[n] BY <1>3
  <2>2. Append(b, c) \in Seq(C) /\ Len(Append(b, c)) = Len(b) + 1 BY <1>2
  <2> QED BY <1>2, <2>1, <2>2
<1>5. \A i \in 1..n - f + 1 : Append(b, path[n])[i] = a[i] BY <1>1, <1>2, <1>3
<1>6. a = Append(b, path[n]) BY <1>1, <1>4, <1>5
<1> QED BY <1>6 DEF a, b

LEMMA HiddenAppended ==
    ASSUME NEW S, NEW dirs \in Seq(S), NEW name, name[1] \notin {".", "\\"}, ~HasHidden(dirs)
    PROVE  ~HasHidden(Append(dirs, name))
<1>1. \A i \in 1..Len(dirs) : dirs[i][1] \notin {".", "\\"} BY DEF HasHidden
<1>2. DOMAIN Append(dirs, name) = 1..Len(dirs) + 1 OBVIOUS
<1>3. \A i \in 1..Len(dirs) + 1 : Append(dirs, name)[i] = IF i \in 1..Len(dirs) THEN dirs[i] ELSE name
  OBVIOUS
<1> QED BY <1>1, <1>2, <1>3 DEF HasHidden

LEMMA SeenOn ==
    ASSUME NEW C, NEW text \in Seq(C), NEW s \in 1..Len(text), NEW q \in ScanState, NEW w \in Walked(C),
           Seen(text, s - 1, q, w), ~Scan(q, text[s], s).refused
    PROVE  ~q.refused /\ Seen(text, s, Scan(q, text[s], s), Pass(w, text[s], {}))
<1> DEFINE c == text[s]
           r == Scan(q, c, s)
           v == Pass(w, c, {})
<1>1. ~(q.refused \/ c \in {CTL, TOP} \/ Hidden(c, q.state))
  <2> SUFFICES ASSUME q.refused \/ c \in {CTL, TOP} \/ Hidden(c, q.state) PROVE FALSE
    OBVIOUS
  <2>1. r = [q EXCEPT !.refused = TRUE] BY DEF Scan
  <2>2. r.refused BY <2>1 DEF ScanState
  <2> QED BY <2>2
<1>2. /\ q.state \in 0..2 /\ q.full \in Nat /\ q.d_len \in Int /\ q.f \in Nat
      /\ w.dirs \in Seq(Seq(C)) /\ w.name \in Seq(C)
  BY DEF ScanState, Walked
<1>3. CASE c # "/"
  <2>1. r = [q EXCEPT !.state = 1] BY <1>1, <1>3 DEF Scan
  <2>2. r.state = 1 /\ r.full = q.full /\ r.d_len = q.d_len /\ r.f = q.f BY <2>1 DEF ScanState
  <2>3. v.dirs = w.dirs /\ v.name = Append(w.name, c) BY <1>3 DEF Pass, Walked
  <2>4. v.name = SubSeq(text, q.f, s)
    <3>1. w.name = SubSeq(text, q.f, s - 1) /\ q.f \in 1..s BY DEF Seen
    <3>2. SubSeq(text, q.f, s) = Append(SubSeq(text, q.f, s - 1), c)
      <4>1. \A f \in 1..s : SubSeq(text, f, s) = Append(SubSeq(text, f, s - 1), text[s]) BY SubSeqGrows
      <4> QED BY <3>1, <4>1
    <3> QED BY <2>3, <3>1, <3>2
  <2>5. q.f <= s /\ text[q.f] \notin {".", "\\"}
    <3>1. CASE q.state = 1 BY <1>2, <3>1 DEF Seen
    <3>2. CASE q.state \in {0, 2} BY <1>1, <1>2, <3>2 DEF Seen, Hidden
    <3> QED BY <1>2, <3>1, <3>2
  <2>6. q.full \in 1..s /\ text[q.full] # "/" /\ \A i \in 1..q.full - 1 : text[i] = "/"
    <3>1. CASE q.state = 0 BY <1>2, <1>3, <3>1 DEF Seen
    <3>2. CASE q.state # 0 BY <1>2, <3>2 DEF Seen
    <3> QED BY <3>1, <3>2
  <2>7. Split(text, q)
    <3>1. CASE q.state = 0 BY <1>2, <3>1 DEF Seen, Split
    <3>2. CASE q.state # 0 BY <1>2, <3>2 DEF Seen
    <3> QED BY <3>1, <3>2
  <2>8. ~HasHidden(v.dirs) BY <2>3 DEF Seen
  <2>9. Split(text, r) BY <2>2, <2>7 DEF Split
  <2>10. r.f \in 1..s + 1 BY <1>2, <2>2 DEF Seen
  <2> HIDE DEF r, v
  <2>11. Seen(text, s, r, v) BY <2>2, <2>4, <2>5, <2>6, <2>8, <2>9, <2>10 DEF Seen
  <2> QED BY <1>1, <2>11 DEF r, v
<1>4. CASE c = "/"
  <2>1. v.dirs = Enter(w.dirs, w.name, {}) /\ v.name = <<>> BY <1>4 DEF Pass, Walked
  <2>2. w.name = <<>> \/ (w.name # <<>> /\ w.name[1] \notin {".", "\\"})
    <3>1. w.name = SubSeq(text, q.f, s - 1) BY DEF Seen
    <3>2. CASE q.state = 1
      <4>1. q.f \in 1..s - 1 /\ text[q.f] \notin {".", "\\"} BY <1>2, <3>2 DEF Seen
      <4> QED BY <3>1, <4>1
    <3>3. CASE q.state \in {0, 2}
      <4>1. q.f = s BY <1>2, <3>3 DEF Seen
      <4> QED BY <3>1, <4>1
    <3> QED BY <1>2, <3>2, <3>3
  <2>3. ~HasHidden(v.dirs)
    <3>1. v.dirs = w.dirs \/ (v.dirs = Append(w.dirs, w.name) /\ w.name[1] \notin {".", "\\"})
      BY <2>1, <2>2 DEF Enter
    <3>2. ~HasHidden(w.dirs) BY DEF Seen
    <3> HIDE DEF v
    <3> QED BY <1>2, <3>1, <3>2, HiddenAppended
  <2>4. r.f = s + 1 /\ SubSeq(text, s + 1, s) = <<>>
    BY <1>1, <1>2, <1>4 DEF Scan, ScanState
  <2>5. ASSUME q.state = 0 PROVE Seen(text, s, r, v)
    <3>1. r = [q EXCEPT !.full = s + 1, !.d_len = 0, !.f = s + 1] BY <1>1, <1>4, <2>5 DEF Scan
    <3>2. r.state = 0 /\ r.full = s + 1 /\ r.d_len = 0 BY <2>5, <3>1 DEF ScanState
    <3>3. \A i \in 1..s : text[i] = "/" BY <1>4, <2>5 DEF Seen
    <3> HIDE DEF r, v, c
    <3>5. r.f \in 1..s + 1 /\ v.name = SubSeq(text, r.f, s) BY <2>1, <2>4
    <3> QED BY <2>3, <2>4, <3>2, <3>3, <3>5 DEF Seen
  <2>6. ASSUME q.state = 1 PROVE Seen(text, s, r, v)
    <3>1. r = [q EXCEPT !.state = 2, !.d_len = s - q.full, !.f = s + 1] BY <1>1, <1>4, <2>6 DEF Scan
    <3>2. r.state = 2 /\ r.full = q.full /\ r.d_len = s - q.full BY <3>1 DEF ScanState
    <3>3. q.full \in 1..s - 1 /\ text[q.full] # "/" /\ \A i \in 1..q.full - 1 : text[i] = "/"
      BY <1>2, <2>6 DEF Seen
    <3>4. Split(text, r)
      <4>1. q.full + (s - q.full) = s /\ s - q.full >= 1 BY <1>2, <3>3
      <4>2. r.full + r.d_len = s /\ r.d_len >= 1 /\ r.f - 1 = s /\ s < r.f BY <2>4, <3>2, <4>1
      <4>3. \A i \in s..s : text[i] = "/" BY <1>4
      <4> HIDE DEF r
      <4> QED BY <4>2, <4>3 DEF Split
    <3> HIDE DEF r, v, c
    <3>5. r.f \in 1..s + 1 /\ v.name = SubSeq(text, r.f, s) BY <2>1, <2>4
    <3> QED BY <2>3, <2>4, <3>2, <3>3, <3>4, <3>5 DEF Seen
  <2>7. ASSUME q.state = 2 PROVE Seen(text, s, r, v)
    <3>1. r = [q EXCEPT !.f = s + 1] BY <1>1, <1>4, <2>7 DEF Scan
    <3>2. r.state = 2 /\ r.full = q.full /\ r.d_len = q.d_len BY <2>7, <3>1 DEF ScanState
    <3>3. q.full \in 1..s - 1 /\ text[q.full] # "/" /\ Split(text, q) /\ q.f = s
          /\ \A i \in 1..q.full - 1 : text[i] = "/"
      BY <1>2, <2>7 DEF Seen
    <3>4. Split(text, r)
      <4> HIDE DEF r
      <4>1. CASE q.d_len = 0 /\ q.f = q.full BY <4>1, <1>2, <3>3
      <4>2. CASE /\ q.d_len >= 1 /\ q.full + q.d_len < q.f
                 /\ \A i \in q.full + q.d_len..q.f - 1 : text[i] = "/"
        <5>1. \A i \in q.full + q.d_len..s : text[i] = "/" BY <4>2, <1>2, <1>4, <3>3
        <5>2. r.f - 1 = s /\ q.full + q.d_len < r.f BY <4>2, <1>2, <2>4, <3>3
        <5> QED BY <4>2, <2>4, <3>2, <5>1, <5>2 DEF Split
      <4> QED BY <3>3, <4>1, <4>2 DEF Split
    <3> HIDE DEF r, v, c
    <3>5. r.f \in 1..s + 1 /\ v.name = SubSeq(text, r.f, s) BY <2>1, <2>4
    <3> QED BY <2>3, <2>4, <3>2, <3>3, <3>4, <3>5 DEF Seen
  <2> HIDE DEF r, v
  <2>8. Seen(text, s, r, v) BY <1>2, <2>5, <2>6, <2>7
  <2> QED BY <1>1, <2>8 DEF r, v
<1> QED BY <1>3, <1>4

LEMMA ScannedSeen ==
    ASSUME NEW C, NEW text \in Seq(C), ~Scanned(text, Len(text)).refused
    PROVE  Seen(text, Len(text), Scanned(text, Len(text)), Walk(text, Len(text), {}))
<1> DEFINE N == Len(text)
           Is(s) == Seen(text, s, Scanned(text, s), Walk(text, s, {}))
           Q == {s \in 0..N : Scanned(text, s).refused \/ Is(s)}
<1>1. 0 \in Q
  <2>1. Scanned(text, 0) = [state |-> 0, full |-> 1, d_len |-> 0, f |-> 1, refused |-> FALSE]
        /\ Walk(text, 0, {}) = [dirs |-> <<>>, name |-> <<>>]
    BY ScannedIs, WalkIs
  <2>2. SubSeq(text, 1, 0) = <<>> OBVIOUS
  <2>3. ~HasHidden(<<>>) BY DEF HasHidden
  <2>4. PICK q, w, b : /\ q = Scanned(text, 0) /\ w = Walk(text, 0, {})
                       /\ q = [state |-> 0, full |-> 1, d_len |-> 0, f |-> 1, refused |-> b]
                       /\ w = [dirs |-> <<>>, name |-> <<>>]
    BY <2>1, Zenon
  <2>5. q.state = 0 /\ q.full = 1 /\ q.d_len = 0 /\ q.f = 1 /\ w.dirs = <<>> /\ w.name = <<>>
    <3>1. \A p : p = [state |-> 0, full |-> 1, d_len |-> 0, f |-> 1, refused |-> b] =>
                     p.state = 0 /\ p.full = 1 /\ p.d_len = 0 /\ p.f = 1
      OBVIOUS
    <3>2. \A p : p = [dirs |-> <<>>, name |-> <<>>] => p.dirs = <<>> /\ p.name = <<>> OBVIOUS
    <3> QED BY <2>4, <3>1, <3>2, Zenon
  <2>6. Seen(text, 0, q, w)
    <3>1. \A i \in 1..0 : text[i] = "/" OBVIOUS
    <3> QED BY <2>2, <2>3, <2>5, <3>1 DEF Seen
  <2>7. Is(0) BY <2>4, <2>6, Zenon
  <2> HIDE DEF Is
  <2> QED BY <2>7
<1>2. \A s \in 0..N - 1 : s \in Q => s + 1 \in Q
  <2> SUFFICES ASSUME NEW s \in 0..N - 1, s \in Q PROVE s + 1 \in Q
    OBVIOUS
  <2>1. PICK n : n = s + 1 /\ n \in 1..N /\ n - 1 = s /\ n - 1 \in 0..N OBVIOUS
  <2>2. /\ Scanned(text, s) \in ScanState /\ Walk(text, s, {}) \in Walked(C)
        /\ Scanned(text, n) = Scan(Scanned(text, s), text[n], n)
        /\ Walk(text, n, {}) = Pass(Walk(text, s, {}), text[n], {})
    BY <2>1, ScannedIs, WalkIs
  <2>3. ASSUME ~Scanned(text, n).refused PROVE Is(n)
    <3>1. ~Scanned(text, s).refused
      <4> SUFFICES ASSUME Scanned(text, s).refused PROVE FALSE
        OBVIOUS
      <4>1. Scanned(text, n) = [Scanned(text, s) EXCEPT !.refused = TRUE] BY <2>2 DEF Scan
      <4> QED BY <2>2, <2>3, <4>1 DEF ScanState
    <3>2. Is(s) BY <3>1
    <3>3. Seen(text, n - 1, Scanned(text, s), Walk(text, s, {})) BY <2>1, <3>2
    <3> QED BY <2>1, <2>2, <2>3, <3>3, SeenOn
  <2> HIDE DEF Is
  <2> QED BY <2>1, <2>3
<1>3. 0..N \subseteq Q
  <2>1. N \in Nat OBVIOUS
  <2> HIDE DEF Q, N
  <2> QED BY <1>1, <1>2, <2>1, Induction
<1>4. N \in 0..N OBVIOUS
<1>5. N \in Q
  <2> HIDE DEF Q, N
  <2> QED BY <1>3, <1>4
<1> QED BY <1>5

(* Leading slashes do not count. *)
LEMMA SlashesSkipped ==
    ASSUME NEW C, NEW text \in Seq(C), NEW n \in 0..Len(text), \A i \in 1..n : text[i] = "/", NEW follow
    PROVE  Dirs(Tail0(text, n + 1), follow) = Dirs(text, follow)
<1> DEFINE tail == SubSeq(text, n + 1, Len(text))
           k == Len(text) - n
<1>1. tail \in Seq(C) /\ Len(tail) = k /\ \A i \in 1..k : text[n + i] = tail[i] OBVIOUS
<1>2. k \in Nat /\ n \in Nat /\ n + k = Len(text) /\ 0 + k = k OBVIOUS
<1>3. Tail0(text, n + 1) = tail BY DEF Tail0
<1> HIDE DEF tail, k
<1>4. Alike(text, n, tail, 0, k)
  <2>1. \A i \in 1..k : 0 + i = i BY <1>2
  <2> QED BY <1>1, <2>1 DEF Alike
<1>5. Walk(text, n, follow) = Walk(tail, 0, follow)
  <2>1. Walk(text, n, follow) = [dirs |-> <<>>, name |-> <<>>] BY WalkSlashes
  <2>2. Walk(tail, 0, follow) = [dirs |-> <<>>, name |-> <<>>] BY <1>1, WalkIs
  <2> QED BY <2>1, <2>2
<1>6. Walk(text, n + k, follow) = Walk(tail, 0 + k, follow)
  <2>1. n + k <= Len(text) /\ 0 + k <= Len(tail) BY <1>1, <1>2
  <2> QED BY <1>1, <1>2, <1>4, <1>5, <2>1, WalksAgree
<1>7. Walk(text, Len(text), follow) = Walk(tail, Len(tail), follow) BY <1>1, <1>2, <1>6
<1> QED BY <1>3, <1>7 DEF Dirs

(* What the server must see in a path. *)
Guarded(text, pp) ==
    /\ ~HasHidden(Components(text))
    /\ Components(pp.fullp) = Components(text) \/ pp.fullp = <<".">>
    /\ \/ Components(Work(pp)) = Components(pp.fullp)
       \/ \E i \in 1..Len(pp.fullp) - 1 : pp.fullp[i] = "/" /\ pp.fullp[i + 1] = "/"

LEMMA ParsedGuarded ==
    ASSUME NEW C, NEW text \in Seq(C), ~Scanned(text, Len(text)).refused, NEW passwd,
           NEW q, q = Scanned(text, Len(text))
    PROVE  Guarded(text, Ppath(text, q.full, q.d_len, q.f, passwd))
<1> DEFINE N == Len(text)
           w == Walk(text, N, {})
           pp == Ppath(text, q.full, q.d_len, q.f, passwd)
           name == Tail0(text, q.full)
<1>0. N \in Nat /\ N \in 0..N OBVIOUS
<1>1. q \in ScanState /\ w \in Walked(C)
  <2>1. \A s \in 0..N : Scanned(text, s) \in ScanState /\ Walk(text, s, {}) \in Walked(C)
    BY ScannedIs, WalkIs
  <2> QED BY <1>0, <2>1
<1>2. q.state \in 0..2 /\ q.full \in Nat /\ q.d_len \in Int /\ q.f \in Nat BY <1>1 DEF ScanState
<1>3. w.dirs \in Seq(Seq(C)) /\ w.name \in Seq(C) BY <1>1 DEF Walked
<1>4. Seen(text, N, q, w) BY ScannedSeen
<1>5. Components(text) = Enter(w.dirs, w.name, {}) BY DEF Components, Dirs
<1> HIDE DEF w
<1>6. ~HasHidden(Components(text))
  <2>1. w.name = <<>> \/ w.name[1] \notin {".", "\\"}
    <3>1. CASE q.state = 1
      <4>1. w.name = SubSeq(text, q.f, N) /\ q.f \in 1..N /\ text[q.f] \notin {".", "\\"}
        BY <1>2, <1>4, <3>1 DEF Seen
      <4>2. w.name[1] = text[q.f] BY <4>1
      <4> QED BY <4>1, <4>2
    <3>2. CASE q.state \in {0, 2}
      <4>1. w.name = SubSeq(text, q.f, N) /\ q.f = N + 1 BY <1>4, <3>2 DEF Seen
      <4> QED BY <4>1
    <3> QED BY <1>2, <3>1, <3>2
  <2>2. ~HasHidden(w.dirs) BY <1>4 DEF Seen
  <2>3. Components(text) = w.dirs
        \/ (Components(text) = Append(w.dirs, w.name) /\ w.name[1] \notin {".", "\\"})
    BY <1>5, <2>1 DEF Enter
  <2> QED BY <1>3, <2>2, <2>3, HiddenAppended
<1>7. /\ pp.fullp = IF name = <<>> THEN <<".">> ELSE name
      /\ pp.d_len = IF q.d_len = 0 THEN 1 ELSE q.d_len
      /\ pp.f_len = IF q.f > N THEN 1 ELSE N - q.f + 1
  BY DEF Ppath
<1> HIDE DEF pp
<1>8. CASE q.state = 0
  <2>1. q.full = N + 1 /\ q.d_len = 0 /\ q.f = N + 1 BY <1>4, <1>8 DEF Seen
  <2>2. name = <<>> BY <2>1 DEF Tail0
  <2>3. pp.fullp = <<".">> /\ pp.d_len = 1 /\ pp.f_len = 1 BY <1>7, <2>1, <2>2
  <2>4. Work(pp) = pp.fullp
    <3>1. Len(<<".">>) = 1 /\ SubSeq(<<".">>, 1, 1) = <<".">>
      <4>1. <<".">> \in Seq({"."}) /\ Len(<<".">>) = 1 OBVIOUS
      <4>2. SubSeq(<<".">>, 1, Len(<<".">>)) = <<".">> BY <4>1, SubSeqFull
      <4> QED BY <4>1, <4>2
    <3>2. pp.d_len + pp.f_len + 1 = 3 BY <2>3
    <3> QED BY <2>3, <3>1, <3>2 DEF Work, Head0
  <2>5. Guarded(text, pp) BY <1>6, <2>3, <2>4 DEF Guarded
  <2> QED BY <2>5 DEF pp
<1>9. CASE q.state # 0
  <2>1. q.full \in 1..N /\ Split(text, q) /\ \A i \in 1..q.full - 1 : text[i] = "/"
    BY <1>4, <1>9 DEF Seen
  <2>2. name \in Seq(C) /\ Len(name) = N - q.full + 1 /\ name # <<>>
        /\ \A i \in 1..Len(name) : name[i] = text[q.full + i - 1]
    <3>1. PICK n \in 1..Len(text) : n = q.full BY <2>1
    <3>2. name = SubSeq(text, n, Len(text)) BY <3>1 DEF Tail0
    <3> HIDE DEF name
    <3>3. name \in Seq(C) /\ Len(name) = Len(text) - n + 1
          /\ \A i \in 1..Len(text) - n + 1 : name[i] = text[n + i - 1]
      BY <3>2
    <3>4. name # <<>> BY <3>3
    <3> QED BY <3>1, <3>3, <3>4
  <2>3. q.f \in 1..N + 1 BY <1>4 DEF Seen
  <2> HIDE DEF name
  <2>4. pp.fullp = name BY <1>7, <2>2
  <2>5. Components(name) = Components(text)
    <3>1. PICK n : n = q.full - 1 /\ n + 1 = q.full /\ n \in 0..N BY <2>1
    <3>2. Dirs(Tail0(text, n + 1), {}) = Dirs(text, {}) BY <2>1, <3>1, SlashesSkipped
    <3> QED BY <3>1, <3>2 DEF Components, name
  <2>6. ASSUME ~ \E i \in 1..Len(name) - 1 : name[i] = "/" /\ name[i + 1] = "/"
        PROVE  Work(pp) = name
    <3>1. pp.d_len + pp.f_len + 1 >= Len(name)
      <4>1. CASE q.d_len = 0 /\ q.f = q.full BY <1>7, <2>1, <2>2, <4>1
      <4>2. CASE /\ q.d_len >= 1 /\ q.full + q.d_len < q.f
                 /\ \A i \in q.full + q.d_len..q.f - 1 : text[i] = "/"
        <5> HIDE DEF N
        <5>1. q.f = q.full + q.d_len + 1
          <6> SUFFICES ASSUME q.full + q.d_len + 1 < q.f PROVE FALSE
            BY <1>2, <4>2, SMTT(60)
          <6>1. PICK i : i = q.d_len + 1 /\ i \in 1..Len(name) - 1
            <7>1. q.d_len >= 1 /\ q.full + q.d_len + 1 <= N /\ Len(name) = N - q.full + 1
              BY <1>0, <1>2, <2>2, <2>3, <4>2
            <7> QED BY <1>0, <1>2, <7>1, SMTT(60)
          <6>2. name[i] = text[q.full + i - 1] /\ name[i + 1] = text[q.full + (i + 1) - 1]
            <7>1. Len(name) \in Int BY <1>0, <1>2, <2>2
            <7>2. i \in 1..Len(name) /\ i + 1 \in 1..Len(name) BY <6>1, <7>1
            <7> QED BY <2>2, <7>2
          <6>3. text[q.full + q.d_len] = "/" /\ text[q.full + q.d_len + 1] = "/" BY <1>2, <4>2
          <6>4. q.full + i - 1 = q.full + q.d_len /\ q.full + (i + 1) - 1 = q.full + q.d_len + 1
            BY <1>2, <6>1
          <6> QED BY <2>6, <6>1, <6>2, <6>3, <6>4
        <5>2. pp.d_len = q.d_len /\ pp.f_len >= N - q.f + 1 /\ pp.f_len \in Int
          BY <1>0, <1>2, <1>7, <4>2
        <5>3. Len(name) = N - q.full + 1 BY <2>2
        <5> QED BY <1>0, <1>2, <5>1, <5>2, <5>3, SMTT(60)
      <4> QED BY <2>1, <4>1, <4>2 DEF Split
    <3>2. Work(pp) = SubSeq(name, 1, Len(name)) 
      <4> DEFINE n == pp.d_len + pp.f_len + 1
      <4>1. Work(pp) = SubSeq(name, 1, IF n < Len(name) THEN n ELSE Len(name)) BY <2>4 DEF Work, Head0
      <4>2. n \in Int BY <1>2, <1>7
      <4>3. ~(n < Len(name)) BY <2>2, <3>1, <4>2
      <4> QED BY <4>1, <4>3
    <3> QED BY <2>2, <3>2
  <2>7. Guarded(text, pp) BY <1>6, <2>4, <2>5, <2>6 DEF Guarded
  <2> QED BY <2>7 DEF pp
<1> QED BY <1>8, <1>9

LEMMA StringsAre == ASSUME NEW chars, NEW n \in Nat PROVE Strings(chars, n) \subseteq Seq(chars)
BY DEF Strings

LEMMA ParsePathGuarded ==
    ASSUME NEW C, NEW str \in Seq(C), ~ParsePath(str).refused
    PROVE  Guarded(Junked(str), ParsePath(str))
<1> DEFINE text == Junked(str)
           q == Scanned(text, Len(text))
<1>1. text \in Seq(C) BY JunkedIs
<1>2. ParsePath(str) = IF q.refused THEN Refused ELSE Ppath(text, q.full, q.d_len, q.f, Password(str))
  BY DEF ParsePath
<1> HIDE DEF text, q
<1>3. ~q.refused BY <1>2 DEF Refused
<1>4. Guarded(text, Ppath(text, q.full, q.d_len, q.f, Password(str))) BY <1>1, <1>3, ParsedGuarded DEF q
<1> QED BY <1>2, <1>3, <1>4 DEF text

(* The server takes no path with a hidden component and looks at the       *)
(* rights of the directory it names: parse_path() and validate_path().     *)
THEOREM PathsAreGuarded == Spec => []PathGuarded
<1>1. Init => PathGuarded BY DEF Init, PathGuarded
<1>2. PathGuarded /\ [Next]_call => PathGuarded'
  <2> SUFFICES ASSUME PathGuarded, [Next]_call PROVE PathGuarded'
    OBVIOUS
  <2>1. CASE UNCHANGED call BY <2>1 DEF PathGuarded
  <2>2. CASE Next /\ call'.op # "parse_path" BY <2>2 DEF PathGuarded
  <2>3. CASE Next /\ call'.op = "parse_path"
    <3>1. GetsPath BY <2>3, OneCall
    <3>2. PICK str \in Strings({"/", ".", "\\", "a", NL}, MaxText) \cup {<<"a", CTL>>, <<TOP>>} :
              call' = [op |-> "parse_path", str |-> str, pp |-> ParsePath(str)]
      BY <3>1, Zenon DEF GetsPath
    <3>3. call'.str = str /\ call'.pp = ParsePath(str) BY <3>2
    <3>4. str \in Seq({"/", ".", "\\", "a", NL, CTL, TOP})
      <4> DEFINE chars == {"/", ".", "\\", "a", NL}
                 all == {"/", ".", "\\", "a", NL, CTL, TOP}
      <4>1. chars \subseteq all OBVIOUS
      <4>2. <<"a", CTL>> \in Seq(all) /\ <<TOP>> \in Seq(all) OBVIOUS
      <4> HIDE DEF chars, all
      <4>3. Strings(chars, MaxText) \subseteq Seq(all) BY <4>1, PureAssumption, StringsAre, SeqMonotonic
      <4>4. str \in Seq(all) BY <3>2, <4>2, <4>3 DEF chars
      <4> QED BY <4>4 DEF all
    <3>5. ~ParsePath(str).refused => Guarded(Junked(str), ParsePath(str)) BY <3>4, ParsePathGuarded
    <3> QED BY <3>3, <3>5 DEF PathGuarded, Guarded
  <2> QED BY <2>1, <2>2, <2>3
<1> QED BY <1>1, <1>2, PTL DEF Spec
-----------------------------------------------------------------------------
(* Paths of clients *)

Plain(C) == NUL \notin C /\ NL \notin C /\ CTL \notin C /\ TOP \notin C

LEMMA AtIs ==
    ASSUME NEW C, Plain(C), NEW path \in Seq(C), NEW t \in Int
    PROVE  /\ t \in 1..Len(path) => At(path, t) = path[t] /\ At(path, t) \in C
           /\ t \notin 1..Len(path) => At(path, t) = NUL
           /\ At(path, t) = NUL <=> t \notin 1..Len(path)
BY DEF At, Plain

LEMMA WalkOfPrefix ==
    ASSUME NEW C, NEW a \in Seq(C), NEW b \in Seq(C), NEW follow, NEW n \in Nat,
           n <= Len(a), n <= Len(b), Alike(a, 0, b, 0, n)
    PROVE  Walk(a, n, follow) = Walk(b, n, follow)
<1>1. Walk(a, 0, follow) = Walk(b, 0, follow)
  <2>1. Walk(a, 0, follow) = [dirs |-> <<>>, name |-> <<>>] BY WalkIs
  <2>2. Walk(b, 0, follow) = [dirs |-> <<>>, name |-> <<>>] BY WalkIs
  <2> QED BY <2>1, <2>2
<1>2. 0 \in Nat /\ 0 + n <= Len(a) /\ 0 + n <= Len(b) OBVIOUS
<1>3. Walk(a, 0 + n, follow) = Walk(b, 0 + n, follow)
  BY <1>1, <1>2, WalksAgree
<1> QED BY <1>3

LEMMA StepIs ==
    ASSUME NEW C, NEW path \in Seq(C), NEW n \in 1..Len(path), NEW follow
    PROVE  /\ path[n] = "/" =>
                  Walk(path, n, follow) =
                      [dirs |-> Enter(Walk(path, n - 1, follow).dirs, Walk(path, n - 1, follow).name, follow),
                       name |-> <<>>]
           /\ path[n] # "/" =>
                  Walk(path, n, follow) =
                      [dirs |-> Walk(path, n - 1, follow).dirs,
                       name |-> Append(Walk(path, n - 1, follow).name, path[n])]
<1> DEFINE w == Walk(path, n - 1, follow)
<1>1. w \in Walked(C)
  <2>1. n - 1 \in 0..Len(path) OBVIOUS
  <2> QED BY <2>1, WalkIs
<1>2. Walk(path, n, follow) = Pass(w, path[n], follow) BY WalkIs
<1> HIDE DEF w
<1>3. path[n] # "/" => Pass(w, path[n], follow) = [dirs |-> w.dirs, name |-> Append(w.name, path[n])]
  BY <1>1 DEF Pass, Walked
<1>4. path[n] = "/" => Pass(w, path[n], follow) = [dirs |-> Enter(w.dirs, w.name, follow), name |-> <<>>]
  BY DEF Pass
<1> QED BY <1>2, <1>3, <1>4 DEF w

(* Along a name. *)
NoSlash(path, a, n) == \A i \in a + 1..n : path[i] # "/"
LEMMA WalkAlongName ==
    ASSUME NEW C, NEW path \in Seq(C), NEW follow, NEW a \in 0..Len(path), NEW n \in a..Len(path),
           NoSlash(path, a, n), Walk(path, a, follow).name = <<>>
    PROVE  Walk(path, n, follow) = [dirs |-> Walk(path, a, follow).dirs, name |-> SubSeq(path, a + 1, n)]
<1> DEFINE D == Walk(path, a, follow).dirs
           Is(k) == Walk(path, a + k, follow) = [dirs |-> D, name |-> SubSeq(path, a + 1, a + k)]
           Q == {k \in 0..n - a : Is(k)}
<1>1. Walk(path, a, follow) \in Walked(C) BY WalkIs
<1>2. 0 \in Q
  <2>1. a + 0 = a /\ SubSeq(path, a + 1, a) = <<>> OBVIOUS
  <2>2. Walk(path, a, follow) = [dirs |-> D, name |-> <<>>] BY <1>1 DEF Walked
  <2>3. Is(0) BY <2>1, <2>2
  <2> HIDE DEF Is
  <2> QED BY <2>3
<1>3. ASSUME NEW k \in 0..n - a - 1, k \in Q PROVE k + 1 \in Q
  <2>1. PICK m \in 1..Len(path) : m = a + (k + 1) /\ m - 1 = a + k /\ m \in a + 1..n OBVIOUS
  <2>2. Is(k) BY <1>3
  <2>3. path[m] # "/" BY <2>1 DEF NoSlash
  <2>4. Walk(path, m, follow) = [dirs |-> D, name |-> Append(SubSeq(path, a + 1, m - 1), path[m])]
    <3>1. Walk(path, m, follow) = [dirs |-> Walk(path, m - 1, follow).dirs,
                                   name |-> Append(Walk(path, m - 1, follow).name, path[m])]
      BY <2>3, StepIs
    <3>2. Walk(path, m - 1, follow) = [dirs |-> D, name |-> SubSeq(path, a + 1, m - 1)] BY <2>1, <2>2
    <3> HIDE DEF D
    <3>3. Walk(path, m - 1, follow).dirs = D /\ Walk(path, m - 1, follow).name = SubSeq(path, a + 1, m - 1)
      BY <3>2
    <3> QED BY <3>1, <3>3
  <2>5. SubSeq(path, a + 1, m) = Append(SubSeq(path, a + 1, m - 1), path[m])
    <3>1. a + 1 \in 1..m BY <2>1
    <3> QED BY <3>1, SubSeqGrows
  <2>6. Is(k + 1) BY <2>1, <2>4, <2>5
  <2> HIDE DEF Is
  <2> QED BY <2>6
<1>4. 0..n - a \subseteq Q
  <2>1. n - a \in Nat OBVIOUS
  <2>2. \A k \in 0..(n - a) - 1 : k \in Q => k + 1 \in Q BY <1>3
  <2> HIDE DEF Q
  <2> QED BY <1>2, <2>1, <2>2, Induction
<1>5. Is(n - a)
  <2>1. n - a \in 0..n - a OBVIOUS
  <2> HIDE DEF Is
  <2> QED BY <1>4, <2>1
<1>6. a + (n - a) = n OBVIOUS
<1> QED BY <1>5, <1>6

(* Nothing is lost with a detour. *)
Cut(path, m, n) == Head0(path, m) \o Tail0(path, n + 1)

LEMMA Spliced ==
    ASSUME NEW C, NEW path \in Seq(C), NEW m \in 0..Len(path), NEW n \in m..Len(path)
    PROVE  /\ Cut(path, m, n) \in Seq(C)
           /\ Len(Cut(path, m, n)) = m + (Len(path) - n)
           /\ \A i \in 1..m : Cut(path, m, n)[i] = path[i]
           /\ \A i \in 1..Len(path) - n : Cut(path, m, n)[m + i] = path[n + i]
<1> DEFINE h == Head0(path, m)
           e == Tail0(path, n + 1)
<1>1. h \in Seq(C) /\ Len(h) = m /\ \A i \in 1..m : h[i] = path[i] BY DEF Head0
<1>2. e \in Seq(C) /\ Len(e) = Len(path) - n /\ \A i \in 1..Len(path) - n : e[i] = path[n + i] BY DEF Tail0
<1> HIDE DEF h, e
<1>3. /\ h \o e \in Seq(C) /\ Len(h \o e) = m + (Len(path) - n)
      /\ \A i \in 1..m : (h \o e)[i] = h[i]
      /\ \A i \in 1..Len(path) - n : (h \o e)[m + i] = e[i]
  <2>1. h \o e \in Seq(C) /\ Len(h \o e) = Len(h) + Len(e) BY <1>1, <1>2, ConcatProperties
  <2>2. \A i \in 1..Len(h) + Len(e) : (h \o e)[i] = IF i <= Len(h) THEN h[i] ELSE e[i - Len(h)]
    BY <1>1, <1>2, ConcatProperties
  <2>3. \A i \in 1..m : i \in 1..Len(h) + Len(e) /\ i <= Len(h) BY <1>1, <1>2
  <2>4. \A i \in 1..Len(path) - n :
            m + i \in 1..Len(h) + Len(e) /\ ~(m + i <= Len(h)) /\ (m + i) - Len(h) = i
    BY <1>1, <1>2
  <2> QED BY <1>1, <1>2, <2>1, <2>2, <2>3, <2>4, SMTT(60)
<1>4. /\ h \o e \in Seq(C) /\ Len(h \o e) = m + (Len(path) - n)
      /\ \A i \in 1..m : (h \o e)[i] = path[i]
      /\ \A i \in 1..Len(path) - n : (h \o e)[m + i] = path[n + i]
  BY <1>1, <1>2, <1>3
<1> QED BY <1>4 DEF h, e, Cut

LEMMA DetourCut ==
    ASSUME NEW C, NEW path \in Seq(C), NEW m \in 0..Len(path), NEW n \in m..Len(path), NEW follow,
           Walk(path, m, follow) = Walk(path, n, follow)
    PROVE  Dirs(Cut(path, m, n), follow) = Dirs(path, follow)
<1> DEFINE cut == Cut(path, m, n)
           k == Len(path) - n
<1>1. /\ cut \in Seq(C) /\ Len(cut) = m + k
      /\ \A i \in 1..m : cut[i] = path[i]
      /\ \A i \in 1..k : cut[m + i] = path[n + i]
  BY Spliced
<1>2. m \in Nat /\ n \in Nat /\ k \in Nat /\ n + k = Len(path) OBVIOUS
<1> HIDE DEF cut, k
<1>3. Walk(cut, m, follow) = Walk(path, m, follow)
  <2>1. Alike(cut, 0, path, 0, m)
    <3>1. \A i \in 1..m : 0 + i = i BY <1>2
    <3> QED BY <1>1, <3>1 DEF Alike
  <2>2. m <= Len(cut) /\ m <= Len(path) BY <1>1, <1>2
  <2> QED BY <1>1, <1>2, <2>1, <2>2, WalkOfPrefix
<1>4. Walk(cut, m + k, follow) = Walk(path, n + k, follow)
  <2>1. Alike(cut, m, path, n, k) BY <1>1 DEF Alike
  <2>2. m + k <= Len(cut) /\ n + k <= Len(path) BY <1>1, <1>2
  <2>3. Walk(cut, m, follow) = Walk(path, n, follow) BY <1>3
  <2> QED BY <1>1, <1>2, <2>1, <2>2, <2>3, WalksAgree
<1> QED BY <1>1, <1>2, <1>4 DEF Dirs, cut

Name(path, n) == Walk(path, n, {}).name
Ending == {"/", NUL}

(* Where no name is "." or "..", it does not matter if they are followed.  *)
Undotted(path, n) == \A i \in 1..n : path[i] = "/" => Name(path, i - 1) \notin Dots

LEMMA CleanWalk ==
    ASSUME NEW C, NEW path \in Seq(C), NEW n \in 0..Len(path), Undotted(path, n)
    PROVE  Walk(path, n, Dots) = Walk(path, n, {})
<1> DEFINE Q == {i \in 0..n : Walk(path, i, Dots) = Walk(path, i, {})}
<1>1. 0 \in Q
  <2>1. Walk(path, 0, Dots) = [dirs |-> <<>>, name |-> <<>>] BY WalkIs
  <2>2. Walk(path, 0, {}) = [dirs |-> <<>>, name |-> <<>>] BY WalkIs
  <2> QED BY <2>1, <2>2
<1>2. ASSUME NEW k \in 0..n - 1, k \in Q PROVE k + 1 \in Q
  <2>1. PICK i \in 1..n : i = k + 1 /\ i - 1 = k /\ i \in 1..Len(path) OBVIOUS
  <2>2. Walk(path, i - 1, Dots) = Walk(path, i - 1, {}) BY <1>2, <2>1
  <2> DEFINE w == Walk(path, i - 1, {})
  <2>3. Walk(path, i, Dots) = Pass(w, path[i], Dots) BY <2>1, <2>2, WalkIs
  <2>4. Walk(path, i, {}) = Pass(w, path[i], {}) BY <2>1, WalkIs
  <2>5. path[i] = "/" => w.name # <<".">> /\ w.name # <<".", ".">> BY DEF Undotted, Name, Dots
  <2> HIDE DEF w
  <2>6. Enter(w.dirs, w.name, Dots) = Enter(w.dirs, w.name, {}) \/ path[i] # "/"
    BY <2>5, Zenon DEF Enter
  <2>7. Pass(w, path[i], Dots) = Pass(w, path[i], {}) BY <2>6 DEF Pass
  <2> QED BY <2>1, <2>3, <2>4, <2>7
<1>3. 0..n \subseteq Q
  <2>1. n \in Nat /\ \A k \in 0..n - 1 : k \in Q => k + 1 \in Q BY <1>2
  <2> HIDE DEF Q
  <2> QED BY <1>1, <2>1, Induction
<1> QED BY <1>3

LEMMA UndottedPrefix ==
    ASSUME NEW C, NEW a \in Seq(C), NEW b \in Seq(C), NEW n \in Nat, n <= Len(a), n <= Len(b),
           Alike(a, 0, b, 0, n), Undotted(a, n)
    PROVE  Undotted(b, n) /\ Name(a, n) = Name(b, n)
<1>1. ASSUME NEW i \in 0..n PROVE Name(a, i) = Name(b, i)
  <2>1. Alike(a, 0, b, 0, i)
    <3>1. \A j \in 1..i : j \in 1..n OBVIOUS
    <3> QED BY <3>1 DEF Alike
  <2>2. i \in Nat /\ i <= Len(a) /\ i <= Len(b) OBVIOUS
  <2>3. Walk(a, i, {}) = Walk(b, i, {}) BY <2>1, <2>2, WalkOfPrefix
  <2> QED BY <2>3 DEF Name
<1>2. ASSUME NEW i \in 1..n, b[i] = "/" PROVE Name(b, i - 1) \notin Dots
  <2>1. i - 1 \in 0..n /\ 0 + i = i OBVIOUS
  <2>2. a[i] = "/" BY <1>2, <2>1 DEF Alike
  <2> QED BY <1>1, <2>1, <2>2 DEF Undotted
<1>3. n \in 0..n OBVIOUS
<1> QED BY <1>1, <1>2, <1>3 DEF Undotted

LEMMA NameEmpty ==
    ASSUME NEW C, NEW path \in Seq(C), NEW n \in 0..Len(path)
    PROVE  /\ Name(path, n) = <<>> <=> n = 0 \/ path[n] = "/"
           /\ n > 0 /\ path[n] # "/" => Name(path, n) = Append(Name(path, n - 1), path[n])
           /\ Name(path, n) \in Seq(C)
<1>1. Walk(path, n, {}) \in Walked(C) BY WalkIs
<1>2. Name(path, n) \in Seq(C) BY <1>1 DEF Name, Walked
<1>3. CASE n = 0
  <2>1. Name(path, 0) = <<>> BY WalkIs DEF Name
  <2> QED BY <1>2, <1>3, <2>1
<1>4. CASE n > 0
  <2>1. PICK m \in 1..Len(path) : m = n BY <1>4
  <2>2. path[m] = "/" => Name(path, m) = <<>>
    <3>1. path[m] = "/" => Walk(path, m, {}) =
              [dirs |-> Enter(Walk(path, m - 1, {}).dirs, Walk(path, m - 1, {}).name, {}), name |-> <<>>]
      BY StepIs
    <3>2. \A d : [dirs |-> d, name |-> <<>>].name = <<>> OBVIOUS
    <3> QED BY <3>1, <3>2 DEF Name
  <2>3. path[m] # "/" => Name(path, m) = Append(Name(path, m - 1), path[m])
    <3>1. path[m] # "/" => Walk(path, m, {}) =
              [dirs |-> Walk(path, m - 1, {}).dirs, name |-> Append(Walk(path, m - 1, {}).name, path[m])]
      BY StepIs
    <3>2. \A d, e : [dirs |-> d, name |-> e].name = e OBVIOUS
    <3> QED BY <3>1, <3>2 DEF Name
  <2>4. Walk(path, m - 1, {}) \in Walked(C) /\ path[m] \in C
    <3>1. m - 1 \in 0..Len(path) OBVIOUS
    <3>2. \A i \in 0..Len(path) : Walk(path, i, {}) \in Walked(C) BY WalkIs
    <3> QED BY <3>1, <3>2
  <2>5. Name(path, m - 1) \in Seq(C) BY <2>4 DEF Name, Walked
  <2>6. Append(Name(path, m - 1), path[m]) # <<>>
    <3> DEFINE s == Name(path, m - 1)
    <3>1. s \in Seq(C) /\ path[m] \in C BY <2>4, <2>5
    <3> HIDE DEF s
    <3>2. Append(s, path[m]) # <<>> BY <3>1, AppendProperties
    <3> QED BY <3>2 DEF s
  <2> QED BY <1>2, <1>4, <2>1, <2>2, <2>3, <2>6
<1> QED BY <1>3, <1>4

(* What holds before every round, at t, of the path made of merged, and    *)
(* of the path that is left by the last.                                   *)
Alone(path, n) == \A i \in 2..n - 1 : ~(path[i] = "/" /\ path[i + 1] = "/")
Going(merged, path, t) ==
    /\ t \in 1..Len(path) + 1 /\ Len(path) >= 1 /\ path[1] = "/"
    /\ Alone(path, t - 1) /\ Undotted(path, t - 1)
    /\ t >= 3 /\ path[t - 1] = "/" => At(path, t) \notin Ending
    /\ Name(path, t - 1) = <<".">> => /\ At(path, t) \notin Ending
                                      /\ At(path, t) = "." => At(path, t + 1) \notin Ending
    /\ Name(path, t - 1) = <<".", ".">> => At(path, t) \notin Ending
    /\ Resolved(path) = Resolved(merged)
    /\ At(path, t) = NUL \/ path[Len(path)] = merged[Len(merged)]
Made(merged, path, appends) ==
    /\ Len(path) >= 1 /\ path[1] = "/"
    /\ Components(path) = Resolved(merged)
    /\ Alone(path, Len(path))
    /\ path[Len(path)] = "/" => Components(path) = <<>>
    /\ ~appends => merged[Len(merged)] = "/"

(* Going back. *)
Goes(C, merged, path, t, left) == path \in Seq(C) /\ Going(merged, path, t) /\ Len(path) - t = left

LEMMA GoesBack ==
    ASSUME NEW C, Plain(C), NEW merged, NEW path \in Seq(C), NEW t \in 1..Len(path), Going(merged, path, t),
           NEW k \in 0..t - 1, NEW n \in k..Len(path),
           NEW cut, cut = Cut(path, k, n), NEW to, to = k + 1,
           Len(cut) >= 1, cut[1] = "/", Resolved(cut) = Resolved(path), Name(path, k) \notin Dots,
           ~(k >= 2 /\ path[k] = "/")
    PROVE  Goes(C, merged, cut, to, Len(path) - n - 1)
<1> DEFINE e == Len(path) - n
<1>1. k \in Nat /\ k <= Len(path) /\ e \in Nat /\ n + e = Len(path) OBVIOUS
<1>2. /\ cut \in Seq(C) /\ Len(cut) = k + e
      /\ \A i \in 1..k : cut[i] = path[i]
      /\ \A i \in 1..e : cut[k + i] = path[n + i]
  <2>1. k \in 0..Len(path) OBVIOUS
  <2> QED BY <2>1, Spliced
<1> HIDE DEF e
<1>3. Undotted(cut, k) /\ Name(cut, k) = Name(path, k)
  <2>1. Undotted(path, k) BY <1>1 DEF Going, Undotted
  <2>2. k \in 0..k /\ k <= Len(cut) BY <1>1, <1>2
  <2>3. Alike(path, 0, cut, 0, k)
    <3>1. \A i \in 1..k : 0 + i = i OBVIOUS
    <3> QED BY <1>2, <3>1 DEF Alike
  <2>4. cut \in Seq(C) BY <1>2
  <2> QED BY <1>1, <2>1, <2>2, <2>3, <2>4, UndottedPrefix
<1>4. Alone(cut, k)
  <2>1. \A i \in 2..k - 1 : i \in 2..(t - 1) - 1 /\ i \in 1..k /\ i + 1 \in 1..k OBVIOUS
  <2> QED BY <1>2, <2>1 DEF Going, Alone
<1>5. At(cut, k + 1) = NUL \/ cut[Len(cut)] = merged[Len(merged)]
  <2>1. CASE e = 0
    <3>1. k + 1 \notin 1..Len(cut) BY <1>1, <1>2, <2>1
    <3> QED BY <3>1 DEF At
  <2>2. CASE e # 0
    <3>1. e \in 1..e /\ n + e = Len(path) BY <1>1, <2>2
    <3>2. cut[k + e] = path[n + e] BY <1>2, <3>1
    <3>3. At(path, t) # NUL BY AtIs
    <3> QED BY <1>2, <3>1, <3>2, <3>3 DEF Going
  <2> QED BY <2>1, <2>2
<1>6. k + 1 - 1 = k /\ k + 1 \in 1..Len(cut) + 1 BY <1>1, <1>2
<1>7. ~(k + 1 >= 3 /\ cut[k] = "/")
  <2> SUFFICES ASSUME k + 1 >= 3, cut[k] = "/" PROVE FALSE
    OBVIOUS
  <2>1. k >= 2 /\ k \in 1..k OBVIOUS
  <2> QED BY <1>2, <2>1
<1>8. Name(cut, k) # <<".">> /\ Name(cut, k) # <<".", ".">> BY <1>3 DEF Dots
<1>9. Resolved(cut) = Resolved(merged) BY DEF Going
<1>10. Going(merged, cut, k + 1)
  BY <1>3, <1>4, <1>5, <1>6, <1>7, <1>8, <1>9 DEF Going
<1>11. Len(cut) - (k + 1) = Len(path) - n - 1
  <2>1. Len(cut) = k + e BY <1>2
  <2>2. Len(path) \in Nat /\ n \in Int OBVIOUS
  <2> QED BY <1>1, <2>1, <2>2
<1>12. to = k + 1 /\ cut \in Seq(C) BY <1>2
<1> QED BY <1>10, <1>11, <1>12 DEF Goes

(* A character that comes twice is cut either time. *)
LEMMA CutSame ==
    ASSUME NEW C, NEW path \in Seq(C), NEW m \in 1..Len(path), NEW n \in m..Len(path), path[m] = path[n]
    PROVE  Cut(path, m, n) = Cut(path, m - 1, n - 1)
<1> DEFINE e == Len(path) - n
           a == Cut(path, m, n)
           b == Cut(path, m - 1, n - 1)
<1>1. /\ a \in Seq(C) /\ Len(a) = m + e
      /\ \A i \in 1..m : a[i] = path[i]
      /\ \A i \in 1..e : a[m + i] = path[n + i]
  <2>1. m \in 0..Len(path) OBVIOUS
  <2> QED BY <2>1, Spliced
<1>2. PICK k : k = m - 1 /\ k + 1 = m /\ k \in 0..Len(path) OBVIOUS
<1>3. PICK l : l = n - 1 /\ l + 1 = n /\ l \in k..Len(path) BY <1>2
<1>4. /\ b \in Seq(C) /\ Len(b) = k + (e + 1)
      /\ \A i \in 1..k : b[i] = path[i]
      /\ \A i \in 1..e + 1 : b[k + i] = path[l + i]
  <2>1. /\ Cut(path, k, l) \in Seq(C) /\ Len(Cut(path, k, l)) = k + (Len(path) - l)
        /\ \A i \in 1..k : Cut(path, k, l)[i] = path[i]
        /\ \A i \in 1..Len(path) - l : Cut(path, k, l)[k + i] = path[l + i]
    <3>1. k \in 0..Len(path) /\ l \in k..Len(path) BY <1>2, <1>3
    <3> HIDE DEF e, a, b
    <3> QED BY <3>1, Spliced, ZenonT(60)
  <2>2. Len(path) - l = e + 1 BY <1>3
  <2> QED BY <1>2, <1>3, <2>1, <2>2
<1>5. e \in Nat /\ m \in Nat /\ n \in Nat /\ k \in Nat /\ l \in Nat BY <1>2, <1>3
<1> HIDE DEF e, a, b
<1>6. Len(a) = Len(b) BY <1>1, <1>2, <1>4, <1>5
<1>7. ASSUME NEW i \in 1..Len(a) PROVE a[i] = b[i]
  <2>1. CASE i \in 1..k BY <1>1, <1>2, <1>4, <1>5, <2>1
  <2>2. CASE i = m
    <3>1. 1 \in 1..e + 1 BY <1>5
    <3>2. b[k + 1] = path[l + 1] BY <1>4, <3>1
    <3>3. m \in 1..m BY <1>5
    <3> QED BY <1>1, <1>2, <1>3, <2>2, <3>2, <3>3
  <2>3. CASE i \in m + 1..m + e
    <3>1. PICK j \in 1..e : i = m + j
      <4>1. i - m \in 1..e /\ i = m + (i - m) BY <1>5, <2>3
      <4> QED BY <4>1
    <3>2. a[m + j] = path[n + j] BY <1>1
    <3>3. j + 1 \in 1..e + 1 /\ k + (j + 1) = m + j /\ l + (j + 1) = n + j BY <1>2, <1>3, <1>5, <3>1
    <3>4. b[k + (j + 1)] = path[l + (j + 1)] BY <1>4, <3>3
    <3> QED BY <3>1, <3>2, <3>3, <3>4
  <2>4. i \in 1..k \/ i = m \/ i \in m + 1..m + e BY <1>1, <1>2, <1>5
  <2> QED BY <2>1, <2>2, <2>3, <2>4
<1>8. a = b BY <1>1, <1>4, <1>6, <1>7
<1> QED BY <1>2, <1>3, <1>8 DEF a, b

LEMMA HeadIs ==
    ASSUME NEW C, NEW path \in Seq(C), NEW n \in 0..Len(path)
    PROVE  /\ Head0(path, n) \in Seq(C) /\ Len(Head0(path, n)) = n
           /\ \A i \in 1..n : Head0(path, n)[i] = path[i]
           /\ Alike(Head0(path, n), 0, path, 0, n)
           /\ Alike(path, 0, Head0(path, n), 0, n)
<1> DEFINE h == SubSeq(path, 1, n)
<1>1. h \in Seq(C) /\ Len(h) = n /\ \A i \in 1..n : h[i] = path[i] OBVIOUS
<1> HIDE DEF h
<1>2. \A i \in 1..n : 0 + i = i OBVIOUS
<1>3. Alike(h, 0, path, 0, n) /\ Alike(path, 0, h, 0, n) BY <1>1, <1>2 DEF Alike
<1> QED BY <1>1, <1>3 DEF Head0, h

(* What is left when the loop ends: the first n characters. *)
LEMMA HeadWalks ==
    ASSUME NEW C, NEW path \in Seq(C), NEW n \in 0..Len(path), NEW follow
    PROVE  Dirs(Head0(path, n), follow) = Enter(Walk(path, n, follow).dirs, Walk(path, n, follow).name, follow)
<1> DEFINE h == Head0(path, n)
<1>1. h \in Seq(C) /\ Len(h) = n /\ Alike(h, 0, path, 0, n) BY HeadIs
<1> HIDE DEF h
<1>2. n \in Nat /\ n <= Len(h) /\ n <= Len(path) BY <1>1
<1>3. Walk(h, n, follow) = Walk(path, n, follow) BY <1>1, <1>2, WalkOfPrefix
<1> QED BY <1>1, <1>3 DEF Dirs, h

LEMMA Finished ==
    ASSUME NEW C, NEW merged, NEW path \in Seq(C), NEW n \in 1..Len(path), NEW appends,
           path[1] = "/", Undotted(path, n), Name(path, n) \notin Dots, Alone(path, n),
           ~(n >= 2 /\ path[n] = "/"),
           Resolved(Head0(path, n)) = Resolved(merged),
           appends \/ merged[Len(merged)] = "/"
    PROVE  Head0(path, n) \in Seq(C) /\ Made(merged, Head0(path, n), appends)
<1> DEFINE h == Head0(path, n)
<1>1. /\ h \in Seq(C) /\ Len(h) = n /\ \A i \in 1..n : h[i] = path[i]
      /\ Alike(path, 0, h, 0, n)
  <2>1. n \in 0..Len(path) OBVIOUS
  <2> QED BY <2>1, HeadIs
<1>2. Resolved(h) = Resolved(merged) OBVIOUS
<1> HIDE DEF h
<1>3. n \in Nat /\ n <= Len(h) /\ n <= Len(path) BY <1>1
<1>4. Undotted(h, n) /\ Name(h, n) = Name(path, n) BY <1>1, <1>3, UndottedPrefix
<1>5. Components(h) = Resolved(h)
  <2>1. n \in 0..Len(h) BY <1>1
  <2>2. Walk(h, n, Dots) = Walk(h, n, {}) BY <1>1, <1>4, <2>1, CleanWalk
  <2>3. Walk(h, n, {}).name \notin Dots BY <1>4 DEF Name
  <2> DEFINE w == Walk(h, n, {})
  <2> HIDE DEF w
  <2>4. Enter(w.dirs, w.name, Dots) = Enter(w.dirs, w.name, {})
    <3>1. w.name \notin Dots /\ w.name # <<".">> /\ w.name # <<".", ".">> BY <2>3 DEF w, Dots
    <3> QED BY <3>1, Zenon DEF Enter
  <2> QED BY <1>1, <2>2, <2>4 DEF Components, Resolved, Dirs, w
<1>6. Alone(h, n)
  <2>1. \A i \in 2..n - 1 : i \in 1..n /\ i + 1 \in 1..n OBVIOUS
  <2> QED BY <1>1, <2>1 DEF Alone
<1>7. 1 \in 1..n /\ n \in 1..n OBVIOUS
<1>8. h[1] = "/" BY <1>1, <1>7
<1>9. h[n] = "/" => Components(h) = <<>>
  <2> SUFFICES ASSUME h[n] = "/" PROVE Components(h) = <<>>
    OBVIOUS
  <2>1. n = 1 BY <1>1, <1>7
  <2>2. Walk(h, 1, {}) = [dirs |-> <<>>, name |-> <<>>]
    <3>1. 1 \in 0..Len(h) /\ \A i \in 1..1 : h[i] = "/" BY <1>1, <1>8, <2>1
    <3> QED BY <1>1, <3>1, WalkSlashes
  <2>3. Enter(<<>>, <<>>, {}) = <<>> BY DEF Enter
  <2>4. \A w : w = [dirs |-> <<>>, name |-> <<>>] => w.dirs = <<>> /\ w.name = <<>> OBVIOUS
  <2>5. Walk(h, 1, {}).dirs = <<>> /\ Walk(h, 1, {}).name = <<>> BY <2>2, <2>4
  <2> QED BY <1>1, <2>1, <2>3, <2>5 DEF Components, Dirs
<1>10. Made(merged, h, appends) BY <1>1, <1>2, <1>5, <1>6, <1>8, <1>9 DEF Made
<1> QED BY <1>1, <1>10 DEF h

(* One slash at t. *)
LEMMA SlashesAlong ==
    ASSUME NEW C, NEW path \in Seq(C), NEW t \in 1..Len(path), NEW n \in t..Len(path), NEW follow,
           Alike(path, t - 1, [i \in 1..n - t + 1 |-> "/"], 0, n - t + 1)
    PROVE  Walk(path, n, follow) = Walk(path, t, follow)
<1> DEFINE Q == {k \in 0..n - t : Walk(path, t + k, follow) = Walk(path, t, follow)}
<1>1. ASSUME NEW i \in t..n PROVE path[i] = "/"
  <2>1. PICK j \in 1..n - t + 1 : (t - 1) + j = i /\ 0 + j = j
    <3>1. i - t + 1 \in 1..n - t + 1 /\ (t - 1) + (i - t + 1) = i OBVIOUS
    <3> QED BY <3>1
  <2>2. path[(t - 1) + j] = [l \in 1..n - t + 1 |-> "/"][0 + j] BY DEF Alike
  <2> QED BY <2>1, <2>2
<1>2. 0 \in Q BY t + 0 = t
<1>3. ASSUME NEW k \in 0..(n - t) - 1, k \in Q PROVE k + 1 \in Q
  <2>1. PICK m \in 1..Len(path) : m = t + (k + 1) /\ m - 1 = t + k /\ m \in t..n OBVIOUS
  <2>2. Walk(path, m - 1, follow) = Walk(path, t, follow) BY <1>3, <2>1
  <2>3. path[m] = "/" /\ path[t] = "/" BY <1>1, <2>1
  <2>4. Walk(path, m, follow) =
            [dirs |-> Enter(Walk(path, m - 1, follow).dirs, Walk(path, m - 1, follow).name, follow), name |-> <<>>]
    BY <2>3, StepIs
  <2> DEFINE D == Enter(Walk(path, t - 1, follow).dirs, Walk(path, t - 1, follow).name, follow)
  <2>5. Walk(path, t, follow) = [dirs |-> D, name |-> <<>>] BY <2>3, StepIs
  <2> HIDE DEF D
  <2>6. Walk(path, t, follow).dirs = D /\ Walk(path, t, follow).name = <<>> BY <2>5
  <2>7. Enter(D, <<>>, follow) = D BY DEF Enter
  <2>8. Walk(path, m, follow) = [dirs |-> D, name |-> <<>>] BY <2>2, <2>4, <2>6, <2>7
  <2>9. Walk(path, t + (k + 1), follow) = Walk(path, t, follow) BY <2>1, <2>5, <2>8
  <2> QED BY <2>9
<1>4. 0..n - t \subseteq Q
  <2>1. n - t \in Nat /\ \A k \in 0..(n - t) - 1 : k \in Q => k + 1 \in Q BY <1>3
  <2> HIDE DEF Q
  <2> QED BY <1>2, <2>1, Induction
<1>5. n - t \in 0..n - t /\ t + (n - t) = n OBVIOUS
<1> QED BY <1>4, <1>5

(* The place behind the slashes. *)
LEMMA NextIs ==
    ASSUME NEW C, Plain(C), NEW path \in Seq(C), NEW t \in 1..Len(path)
    PROVE  \E n \in t + 1..Len(path) + 1 :
               /\ At(path, n) # "/" /\ \A i \in t + 1..n - 1 : path[i] = "/"
               /\ Squeezed(path, t) = Cut(path, t, n - 1)
<1> DEFINE D == t + 1..Len(path) + 1
           Is(n) == At(path, n) # "/" /\ \A i \in t + 1..n - 1 : path[i] = "/"
           T == {n \in D : At(path, n) # "/"}
           next == CHOOSE n \in D : Is(n)
<1>1. Len(path) + 1 \in T /\ T \subseteq Nat
  <2>1. Len(path) + 1 \notin 1..Len(path) OBVIOUS
  <2>2. At(path, Len(path) + 1) = NUL BY <2>1 DEF At
  <2> QED BY <2>2 DEF NUL
<1>2. PICK n \in T : \A m \in T : n <= m
  <2> HIDE DEF T
  <2> QED BY <1>1, LeastOf
<1>3. n \in D /\ Is(n)
  <2>1. \A i \in t + 1..n - 1 : i \in 1..Len(path) /\ i \in D /\ ~(n <= i) OBVIOUS
  <2>2. \A i \in t + 1..n - 1 : path[i] = "/" BY <1>2, <2>1 DEF At
  <2> QED BY <2>2
<1>4. next \in D /\ Is(next)
  <2> HIDE DEF D, Is
  <2> QED BY <1>3, Zenon
<1>5. Squeezed(path, t) = Head0(path, t) \o Tail0(path, next) BY DEF Squeezed
<1> HIDE DEF next
<1>6. PICK m : m = next - 1 /\ m + 1 = next BY <1>4
<1>7. Squeezed(path, t) = Cut(path, t, m) BY <1>5, <1>6 DEF Cut
<1> QED BY <1>4, <1>6, <1>7

LEMMA SqueezedGoes ==
    ASSUME NEW C, Plain(C), NEW merged, NEW path \in Seq(C), NEW t \in 1..Len(path), Going(merged, path, t),
           path[t] = "/", NEW q, q = Squeezed(path, t)
    PROVE  /\ q \in Seq(C) /\ Going(merged, q, t) /\ Len(q) <= Len(path)
           /\ t \in 1..Len(q) /\ q[t] = "/" /\ At(q, t + 1) # "/"
<1>1. PICK n \in t + 1..Len(path) + 1 : /\ At(path, n) # "/" /\ \A i \in t + 1..n - 1 : path[i] = "/"
                                        /\ q = Cut(path, t, n - 1)
  BY NextIs
<1>2. PICK l \in t..Len(path) : l = n - 1 /\ n = l + 1 OBVIOUS
<1> DEFINE e == Len(path) - l
<1>3. e \in Nat /\ l + e = Len(path) /\ t \in 0..Len(path) /\ t \in Nat OBVIOUS
<1>4. /\ q \in Seq(C) /\ Len(q) = t + e
      /\ \A i \in 1..t : q[i] = path[i]
      /\ \A i \in 1..e : q[t + i] = path[l + i]
  <2>1. q = Cut(path, t, l) BY <1>1, <1>2
  <2>2. /\ Cut(path, t, l) \in Seq(C) /\ Len(Cut(path, t, l)) = t + (Len(path) - l)
        /\ \A i \in 1..t : Cut(path, t, l)[i] = path[i]
        /\ \A i \in 1..Len(path) - l : Cut(path, t, l)[t + i] = path[l + i]
    BY <1>3, Spliced
  <2> QED BY <2>1, <2>2
<1>5. Resolved(q) = Resolved(path)
  <2>1. Alike(path, t - 1, [i \in 1..l - t + 1 |-> "/"], 0, l - t + 1)
    <3> SUFFICES ASSUME NEW i \in 1..l - t + 1 PROVE path[(t - 1) + i] = [j \in 1..l - t + 1 |-> "/"][0 + i]
      BY DEF Alike
    <3>1. (t - 1) + i = t \/ (t - 1) + i \in t + 1..n - 1 BY <1>2
    <3>2. path[(t - 1) + i] = "/" BY <1>1, <3>1
    <3>3. 0 + i = i OBVIOUS
    <3> QED BY <3>2, <3>3
  <2>2. Walk(path, t, Dots) = Walk(path, l, Dots) BY <2>1, SlashesAlong
  <2>3. Dirs(Cut(path, t, l), Dots) = Dirs(path, Dots) BY <1>3, <2>2, DetourCut
  <2> QED BY <1>1, <1>2, <2>3 DEF Resolved
<1> HIDE DEF e
<1>6. t \in 1..Len(q) /\ q[t] = "/" BY <1>3, <1>4
<1>7. At(q, t + 1) # "/"
  <2>1. CASE e = 0
    <3>1. t + 1 \notin 1..Len(q) BY <1>3, <1>4, <2>1
    <3> QED BY <3>1 DEF At, NUL
  <2>2. CASE e # 0
    <3>1. 1 \in 1..e /\ t + 1 \in 1..Len(q) /\ n \in 1..Len(path) BY <1>2, <1>3, <1>4, <2>2
    <3>2. q[t + 1] = path[l + 1] BY <1>4, <3>1
    <3> QED BY <1>1, <1>2, <3>1, <3>2 DEF At
  <2> QED BY <2>1, <2>2
<1>8. At(path, t) = "/" /\ At(q, t) = "/" BY <1>6 DEF At
<1>9. PICK k \in 0..Len(path) : k = t - 1 /\ k + 1 = t OBVIOUS
<1>10. Undotted(q, k) /\ Name(q, k) = Name(path, k)
  <2>1. Undotted(path, k) BY <1>9 DEF Going
  <2>2. Alike(path, 0, q, 0, k)
    <3>1. \A i \in 1..k : 0 + i = i /\ i \in 1..t BY <1>9
    <3> QED BY <1>4, <3>1 DEF Alike
  <2>3. k \in Nat /\ k <= Len(path) /\ k <= Len(q) BY <1>3, <1>4, <1>9
  <2>4. q \in Seq(C) BY <1>4
  <2> QED BY <2>1, <2>2, <2>3, <2>4, UndottedPrefix
<1>11. Alone(q, k)
  <2>1. \A i \in 2..k - 1 : i \in 1..t /\ i + 1 \in 1..t BY <1>9
  <2>2. Alone(path, k) BY <1>9 DEF Going
  <2> QED BY <1>4, <2>1, <2>2 DEF Alone
<1>12. q[Len(q)] = merged[Len(merged)]
  <2>1. path[Len(path)] = merged[Len(merged)] BY <1>8 DEF Going, NUL
  <2>2. CASE e = 0
    <3>1. Len(q) = t /\ l = Len(path) BY <1>3, <1>4, <2>2
    <3>2. path[l] = "/"
      <4>1. l = t \/ l \in t + 1..n - 1 BY <1>2
      <4> QED BY <1>1, <4>1
    <3> QED BY <1>6, <2>1, <3>1, <3>2
  <2>3. CASE e # 0
    <3>1. e \in 1..e BY <1>3, <2>3
    <3>2. q[t + e] = path[l + e] BY <1>4, <3>1
    <3> QED BY <1>3, <1>4, <2>1, <3>2
  <2> QED BY <2>2, <2>3
<1>13. ~(t >= 3 /\ path[t - 1] = "/") /\ (t >= 3 => q[t - 1] = path[t - 1])
  <2>1. t >= 3 => t - 1 \in 1..t OBVIOUS
  <2> QED BY <1>4, <1>8, <2>1 DEF Going, Ending
<1>14. Name(path, t - 1) # <<".">> /\ Name(path, t - 1) # <<".", ".">> BY <1>8 DEF Going, Ending
<1>15. q[1] = "/" /\ Len(q) >= 1 /\ t \in 1..Len(q) + 1
  <2>1. 1 \in 1..t /\ path[1] = "/" BY DEF Going
  <2> QED BY <1>3, <1>4, <2>1
<1>16. Resolved(q) = Resolved(merged) BY <1>5 DEF Going
<1>17. k = t - 1 BY <1>9
<1>18. Going(merged, q, t)
  BY <1>10, <1>11, <1>12, <1>13, <1>14, <1>15, <1>16, <1>17 DEF Going
<1>19. Len(q) <= Len(path) BY <1>3, <1>4
<1> QED BY <1>4, <1>6, <1>7, <1>18, <1>19

LEMMA RootIs ==
    ASSUME NEW C, NEW path \in Seq(C), 1 \in 1..Len(path), path[1] = "/", NEW follow
    PROVE  /\ Walk(path, 1, follow) = [dirs |-> <<>>, name |-> <<>>]
           /\ Walk(path, 1, follow).dirs = <<>> /\ Walk(path, 1, follow).name = <<>>
           /\ Dirs(Head0(path, 1), follow) = <<>>
<1>1. Walk(path, 1, follow) = [dirs |-> <<>>, name |-> <<>>]
  <2>1. \A i \in 1..1 : path[i] = "/" OBVIOUS
  <2>2. 1 \in 0..Len(path) OBVIOUS
  <2> QED BY <2>1, <2>2, WalkSlashes
<1>2. Walk(path, 1, follow).dirs = <<>> /\ Walk(path, 1, follow).name = <<>>
  <2>1. \A w : w = [dirs |-> <<>>, name |-> <<>>] => w.dirs = <<>> /\ w.name = <<>> OBVIOUS
  <2> QED BY <1>1, <2>1, Zenon
<1>3. Dirs(Head0(path, 1), follow) = Enter(<<>>, <<>>, follow)
  <2>1. 1 \in 0..Len(path) OBVIOUS
  <2> QED BY <1>2, <2>1, HeadWalks
<1>4. Enter(<<>>, <<>>, follow) = <<>> BY DEF Enter
<1> QED BY <1>1, <1>2, <1>3, <1>4

LEMMA BackIs ==
    ASSUME NEW C, NEW path \in Seq(C), NEW t \in 1..Len(path), path[1] = "/"
    PROVE  Back(path, t) \in 1..t /\ path[Back(path, t)] = "/" /\ NoSlash(path, Back(path, t), t)
<1> DEFINE D == 0..t
           Is(n) == (n = 0 \/ path[n] \in {"/"}) /\ \A i \in n + 1..t : path[i] \notin {"/"}
           T == {k \in 0..t : t - k = 0 \/ path[t - k] = "/"}
           last == CHOOSE n \in D : Is(n)
<1>1. t - 1 \in T /\ T \subseteq Nat
  <2>1. t - (t - 1) = 1 /\ t - 1 \in 0..t OBVIOUS
  <2> QED BY <2>1
<1>2. PICK k \in T : \A m \in T : k <= m
  <2> HIDE DEF T
  <2> QED BY <1>1, LeastOf
<1>3. PICK n \in 0..t : n = t - k /\ k = t - n OBVIOUS
<1>4. \A i \in n + 1..t : path[i] # "/"
  <2> SUFFICES ASSUME NEW i \in n + 1..t, path[i] = "/" PROVE FALSE
    OBVIOUS
  <2>1. t - i \in 0..t /\ t - (t - i) = i /\ ~(k <= t - i) BY <1>3
  <2>2. t - i \in T BY <2>1
  <2> QED BY <1>2, <2>1, <2>2
<1>5. n # 0
  <2>1. k <= t - 1 BY <1>1, <1>2
  <2> QED BY <1>3, <2>1
<1>6. path[n] = "/" BY <1>3, <1>5
<1>7. n \in D /\ Is(n) BY <1>4, <1>6
<1>8. last \in D /\ Is(last)
  <2> HIDE DEF D, Is
  <2> QED BY <1>7, Zenon
<1>9. LastOf(path, t, {"/"}) = last BY DEF LastOf
<1> HIDE DEF last
<1>10. last # 0
  <2> SUFFICES ASSUME last = 0 PROVE FALSE
    OBVIOUS
  <2>1. 1 \in last + 1..t OBVIOUS
  <2> QED BY <1>8, <2>1
<1>11. Back(path, t) = last BY <1>9, <1>10 DEF Back
<1>12. last \in 1..t /\ path[last] = "/" BY <1>8, <1>10
<1> QED BY <1>8, <1>11, <1>12 DEF NoSlash

(* A round of the loop keeps what holds of its path. *)
LEMMA RunsOut ==
    ASSUME NEW C, Plain(C), NEW merged, NEW path \in Seq(C), NEW t, Going(merged, path, t), At(path, t) = NUL
    PROVE  Made(merged, path, TRUE)
<1>1. t = Len(path) + 1 /\ t - 1 = Len(path) /\ Len(path) \in 1..Len(path) /\ t \in Int
  <2>1. t \in 1..Len(path) + 1 /\ Len(path) >= 1 /\ Len(path) \in Nat BY DEF Going
  <2>2. t \notin 1..Len(path) BY <2>1, AtIs
  <2> QED BY <2>1, <2>2
<1>2. PICK n \in 1..Len(path) : n = Len(path) BY <1>1
<1>3. Head0(path, n) = path BY <1>2, SubSeqFull DEF Head0
<1>4. Undotted(path, n) /\ Alone(path, n) /\ path[1] = "/" BY <1>1, <1>2 DEF Going
<1>5. Name(path, n) \notin Dots BY <1>1, <1>2 DEF Going, Dots, Ending
<1>6. ~(n >= 2 /\ path[n] = "/")
  <2>1. t >= 3 /\ path[t - 1] = "/" => At(path, t) \notin Ending BY DEF Going
  <2>2. n >= 2 => t >= 3 BY <1>1, <1>2
  <2> QED BY <1>1, <1>2, <2>1, <2>2 DEF Ending
<1>7. Resolved(Head0(path, n)) = Resolved(merged) BY <1>3 DEF Going
<1>8. \A b \in BOOLEAN : b => Made(merged, Head0(path, n), b)
  <2> SUFFICES ASSUME NEW b \in BOOLEAN, b PROVE Made(merged, Head0(path, n), b)
    OBVIOUS
  <2> QED BY <1>4, <1>5, <1>6, <1>7, Finished
<1> QED BY <1>3, <1>8, Zenon

LEMMA SlashLeft ==
    ASSUME NEW C, Plain(C), NEW merged, NEW path \in Seq(C), NEW t, Going(merged, path, t), At(path, t) = "/",
           t # 1, At(path, t + 1) = NUL
    PROVE  Head0(path, t - 1) \in Seq(C) /\ Made(merged, Head0(path, t - 1), FALSE)
<1>1. t \in 2..Len(path) /\ path[t] = "/" /\ path[1] = "/"
  <2>1. t \in 1..Len(path) + 1 /\ path[1] = "/" BY DEF Going
  <2>2. t \in 1..Len(path) /\ path[t] = "/" BY <2>1 DEF At, NUL
  <2> QED BY <2>1, <2>2
<1>2. t = Len(path)
  <2>1. t + 1 \in Int BY <1>1
  <2>2. t + 1 \notin 1..Len(path) BY <2>1, AtIs
  <2> QED BY <1>1, <2>2
<1>3. PICK n \in 1..Len(path) : n = t - 1 /\ n + 1 = t BY <1>1
<1>4. Undotted(path, n) /\ Alone(path, n) BY <1>3 DEF Going
<1>5. Name(path, n) \notin Dots BY <1>3 DEF Going, Dots, Ending
<1>6. ~(n >= 2 /\ path[n] = "/")
  <2>1. t >= 3 /\ path[t - 1] = "/" => At(path, t) \notin Ending BY DEF Going
  <2>2. n >= 2 => t >= 3 BY <1>3
  <2> QED BY <1>3, <2>1, <2>2 DEF Ending
<1>7. Resolved(Head0(path, n)) = Resolved(merged)
  <2> DEFINE w == Walk(path, n, Dots)
             d == Enter(w.dirs, w.name, Dots)
  <2>1. n \in 0..Len(path) OBVIOUS
  <2>2. Resolved(Head0(path, n)) = d BY <2>1, HeadWalks DEF Resolved
  <2>3. Walk(path, t, Dots) = [dirs |-> d, name |-> <<>>]
    <3>1. t \in 1..Len(path) BY <1>1
    <3> QED BY <1>1, <1>3, <3>1, StepIs
  <2> HIDE DEF d
  <2>4. Walk(path, t, Dots).dirs = d /\ Walk(path, t, Dots).name = <<>> BY <2>3
  <2>5. Resolved(path) = Enter(d, <<>>, Dots) BY <1>2, <2>4 DEF Resolved, Dirs
  <2>6. Enter(d, <<>>, Dots) = d BY DEF Enter
  <2> QED BY <2>2, <2>5, <2>6 DEF Going
<1>8. merged[Len(merged)] = "/" BY <1>1, <1>2 DEF Going, NUL
<1>9. \A b : Head0(path, n) \in Seq(C) /\ Made(merged, Head0(path, n), b)
  <2> SUFFICES ASSUME NEW b PROVE Head0(path, n) \in Seq(C) /\ Made(merged, Head0(path, n), b)
    OBVIOUS
  <2> QED BY <1>1, <1>4, <1>5, <1>6, <1>7, <1>8, Finished
<1> QED BY <1>3, <1>9, Zenon

(* A name that is dots. *)
LEMMA DotsAre ==
    ASSUME NEW C, NEW path \in Seq(C), NEW a \in 1..Len(path)
    PROVE  /\ path[a] = "." => SubSeq(path, a, a) = <<".">>
           /\ a + 1 <= Len(path) /\ path[a] = "." /\ path[a + 1] = "." => SubSeq(path, a, a + 1) = <<".", ".">>
<1>1. ASSUME path[a] = "." PROVE SubSeq(path, a, a) = <<".">>
  <2> DEFINE s == SubSeq(path, a, a)
             d == <<".">>
  <2>1. s \in Seq(C) /\ Len(s) = 1 /\ s[1] = path[a] OBVIOUS
  <2>2. d \in Seq({"."}) /\ Len(d) = 1 /\ d[1] = "." OBVIOUS
  <2> HIDE DEF s, d
  <2>3. s = d BY <1>1, <2>1, <2>2
  <2> QED BY <2>3 DEF s, d
<1>2. ASSUME a + 1 <= Len(path), path[a] = ".", path[a + 1] = "." PROVE SubSeq(path, a, a + 1) = <<".", ".">>
  <2> DEFINE s == SubSeq(path, a, a + 1)
             d == <<".", ".">>
  <2>1. s \in Seq(C) /\ Len(s) = 2 /\ s[1] = path[a] /\ s[2] = path[a + 1]
    <3>1. a + 1 \in a..Len(path) /\ (a + 1) - a + 1 = 2 /\ a + 1 - 1 = a /\ a + 2 - 1 = a + 1 BY <1>2
    <3>2. s \in Seq(C) /\ Len(s) = 2 /\ \A i \in 1..2 : s[i] = path[a + i - 1] BY <3>1
    <3> QED BY <3>1, <3>2
  <2>2. d \in Seq({"."}) /\ Len(d) = 2 /\ d[1] = "." /\ d[2] = "." OBVIOUS
  <2> HIDE DEF s, d
  <2>3. \A i \in 1..2 : s[i] = d[i] BY <1>2, <2>1, <2>2
  <2>4. s = d BY <2>1, <2>2, <2>3
  <2> QED BY <2>4 DEF s, d
<1> QED BY <1>1, <1>2

(* Dots behind the first slash. *)
LEMMA RootDotted ==
    ASSUME NEW C, Plain(C), NEW merged, NEW path \in Seq(C), Going(merged, path, 2), NEW n \in 2..3,
           n <= Len(path), \A i \in 2..n : path[i] = "."
    PROVE  /\ Walk(path, n, Dots).dirs = <<>>
           /\ Enter(Walk(path, n, Dots).dirs, Walk(path, n, Dots).name, Dots) = <<>>
<1>1. 1 \in 1..Len(path) /\ path[1] = "/" BY DEF Going
<1>2. Walk(path, 1, Dots).dirs = <<>> /\ Walk(path, 1, Dots).name = <<>> BY <1>1, RootIs
<1>3. Walk(path, n, Dots) = [dirs |-> Walk(path, 1, Dots).dirs, name |-> SubSeq(path, 1 + 1, n)]
  <2>1. NoSlash(path, 1, n) BY DEF NoSlash
  <2>2. 1 \in 0..Len(path) /\ n \in 1..Len(path) BY <1>1
  <2> QED BY <1>2, <2>1, <2>2, WalkAlongName
<1>4. SubSeq(path, 1 + 1, n) = <<".">> \/ SubSeq(path, 1 + 1, n) = <<".", ".">>
  <2>1. CASE n = 2
    <3>1. 2 \in 1..Len(path) /\ path[2] = "." /\ 1 + 1 = 2 BY <2>1
    <3>2. SubSeq(path, 2, 2) = <<".">> BY <3>1, DotsAre
    <3> QED BY <2>1, <3>1, <3>2
  <2>2. CASE n = 3
    <3>1. 2 \in 1..Len(path) /\ 2 + 1 <= Len(path) /\ path[2] = "." /\ path[3] = "." /\ 1 + 1 = 2 /\ 2 + 1 = 3
      BY <2>2
    <3>2. SubSeq(path, 2, 2 + 1) = <<".", ".">> BY <3>1, DotsAre
    <3> QED BY <2>2, <3>1, <3>2
  <2> QED BY <2>1, <2>2
<1> DEFINE name == SubSeq(path, 1 + 1, n)
<1> HIDE DEF name
<1>5. name \in Dots /\ (name = <<".">> \/ name = <<".", ".">>) BY <1>4 DEF name, Dots
<1>6. Enter(<<>>, name, Dots) = <<>> BY <1>5 DEF Enter
<1>7. Walk(path, n, Dots).dirs = <<>> /\ Walk(path, n, Dots).name = name BY <1>2, <1>3 DEF name
<1> QED BY <1>6, <1>7

LEMMA RootDone ==
    ASSUME NEW C, Plain(C), NEW merged, NEW path \in Seq(C), Going(merged, path, 2), NEW n \in 2..3,
           n = Len(path), \A i \in 2..n : path[i] = "."
    PROVE  Head0(path, 1) \in Seq(C) /\ Made(merged, Head0(path, 1), TRUE)
<1>1. 1 \in 1..Len(path) /\ path[1] = "/" BY DEF Going
<1>2. Resolved(path) = <<>> BY RootDotted, SMTT(60) DEF Resolved, Dirs
<1>3. Resolved(Head0(path, 1)) = <<>> BY <1>1, RootIs DEF Resolved
<1>4. Name(path, 1) \notin Dots BY <1>1, RootIs DEF Name, Dots
<1>5. Undotted(path, 1) /\ Alone(path, 1) BY 2 - 1 = 1 DEF Going
<1>6. Resolved(Head0(path, 1)) = Resolved(merged) BY <1>2, <1>3 DEF Going
<1>7. \A b \in BOOLEAN : b => Head0(path, 1) \in Seq(C) /\ Made(merged, Head0(path, 1), b)
  <2> SUFFICES ASSUME NEW b \in BOOLEAN, b
               PROVE  Head0(path, 1) \in Seq(C) /\ Made(merged, Head0(path, 1), b)
    OBVIOUS
  <2>1. ~(1 >= 2 /\ path[1] = "/") OBVIOUS
  <2> QED BY <1>1, <1>4, <1>5, <1>6, <2>1, Finished
<1> QED BY <1>7, Zenon

LEMMA RootGoes ==
    ASSUME NEW C, Plain(C), NEW merged, NEW path \in Seq(C), Going(merged, path, 2), NEW n \in 3..4,
           n <= Len(path), \A i \in 2..n - 1 : path[i] = ".", path[n] = "/",
           NEW cut, cut = Cut(path, 1, n)
    PROVE  Goes(C, merged, cut, 2, Len(path) - n - 1)
<1>1. 1 \in 1..Len(path) /\ 1 \in 0..Len(path) /\ path[1] = "/" /\ n \in 1..Len(path) BY DEF Going
<1>2. PICK m \in 2..3 : m = n - 1 OBVIOUS
<1>3. Walk(path, 1, Dots) = Walk(path, n, Dots)
  <2> DEFINE d == Enter(Walk(path, m, Dots).dirs, Walk(path, m, Dots).name, Dots)
  <2>1. d = <<>>
    <3>1. m <= Len(path) /\ \A i \in 2..m : path[i] = "." BY <1>2
    <3> QED BY <3>1, RootDotted
  <2>2. Walk(path, n, Dots) = [dirs |-> d, name |-> <<>>] BY <1>1, <1>2, StepIs
  <2> QED BY <1>1, <2>1, <2>2, RootIs
<1>4. Resolved(cut) = Resolved(path) BY <1>1, <1>3, DetourCut DEF Resolved
<1>5. Len(cut) >= 1 /\ cut[1] = "/"
  <2>1. /\ Len(cut) = 1 + (Len(path) - n)
        /\ \A i \in 1..1 : cut[i] = path[i]
    BY <1>1, Spliced
  <2> QED BY <1>1, <2>1
<1>6. Name(path, 1) \notin Dots BY <1>1, RootIs, SMTT(60) DEF Name, Dots
<1>7. 2 \in 1..Len(path) /\ 1 \in 0..2 - 1 /\ n \in 1..Len(path) /\ ~(1 >= 2 /\ path[1] = "/") BY <1>1
<1>8. n \in 1..Len(path) /\ 2 = 1 + 1 BY <1>1
<1> QED BY <1>1, <1>4, <1>5, <1>6, <1>7, <1>8, GoesBack

(* "." behind a slash. *)
LEMMA HereGoes ==
    ASSUME NEW C, Plain(C), NEW merged, NEW path \in Seq(C), NEW t \in 3..Len(path), Going(merged, path, t),
           path[t] = ".", path[t - 1] = "/", At(path, t + 1) \in Ending,
           NEW cut, cut = Cut(path, t - 2, t)
    PROVE  Goes(C, merged, cut, t - 1, Len(path) - t - 1)
<1>1. PICK m \in 2..Len(path) : m = t - 1 /\ m + 1 = t OBVIOUS
<1>2. PICK k \in 1..Len(path) : k = t - 2 /\ k + 1 = m BY <1>1
<1>3. t \in 1..Len(path) /\ m \in 0..Len(path) /\ k \in 0..Len(path) /\ m - 1 = k /\ t - 1 = m BY <1>1, <1>2
<1> DEFINE d == Enter(Walk(path, k, Dots).dirs, Walk(path, k, Dots).name, Dots)
<1>4. Walk(path, m, Dots) = [dirs |-> d, name |-> <<>>]
  <2>1. m \in 1..Len(path) /\ path[m] = "/" BY <1>1
  <2> QED BY <1>3, <2>1, StepIs
<1> HIDE DEF d
<1>5. Walk(path, m, Dots).dirs = d /\ Walk(path, m, Dots).name = <<>> BY <1>4
<1>6. Walk(path, t, Dots) = [dirs |-> d, name |-> <<".">>]
  <2>1. Walk(path, t, Dots) = [dirs |-> Walk(path, m, Dots).dirs, name |-> SubSeq(path, m + 1, t)]
    <3>1. NoSlash(path, m, t) BY <1>1 DEF NoSlash
    <3>2. t \in m..Len(path) BY <1>1
    <3> QED BY <1>3, <1>5, <3>1, <3>2, WalkAlongName
  <2>2. SubSeq(path, t, t) = <<".">> BY <1>3, DotsAre
  <2> QED BY <1>1, <1>5, <2>1, <2>2
<1>7. Walk(path, t, Dots).dirs = d /\ Walk(path, t, Dots).name = <<".">>
  <2>1. \A w, n : w = [dirs |-> d, name |-> n] => w.dirs = d /\ w.name = n OBVIOUS
  <2> QED BY <1>6, <2>1
<1>8. Enter(d, <<".">>, Dots) = d BY DEF Enter, Dots
<1>9. Resolved(cut) = Resolved(path)
  <2>1. CASE At(path, t + 1) = NUL
    <3>1. t = Len(path)
      <4>1. t + 1 \in Int /\ t + 1 \notin 1..Len(path) BY <2>1, AtIs
      <4> QED BY <1>3, <4>1
    <3>2. Resolved(path) = d BY <1>7, <1>8, <3>1 DEF Resolved, Dirs
    <3>3. cut = Head0(path, k)
      <4>1. Len(path) + 1 = t + 1 /\ k = t - 2 BY <1>2, <3>1
      <4>2. Tail0(path, t + 1) = <<>> BY <4>1 DEF Tail0
      <4>3. Head0(path, k) \in Seq(C) BY <1>3, HeadIs
      <4>4. cut = Head0(path, k) \o Tail0(path, t + 1) BY <1>2 DEF Cut
      <4> DEFINE h == Head0(path, k)
      <4> HIDE DEF h
      <4>5. h \o <<>> = h BY <4>3, ConcatEmptySeq DEF h
      <4> QED BY <4>2, <4>4, <4>5 DEF h
    <3>4. Resolved(cut) = d BY <1>3, <3>3, HeadWalks DEF Resolved, d
    <3> QED BY <3>2, <3>4
  <2>2. CASE At(path, t + 1) = "/"
    <3>1. PICK n \in 1..Len(path) : n = t + 1 /\ n - 1 = t /\ path[n] = "/"
      <4>1. t + 1 \in 1..Len(path) BY <2>2 DEF At, NUL
      <4>2. path[t + 1] = "/" /\ (t + 1) - 1 = t BY <2>2, <4>1 DEF At
      <4> QED BY <4>1, <4>2
    <3>2. Walk(path, n, Dots) = [dirs |-> d, name |-> <<>>]
      <4>1. Walk(path, n, Dots) =
                [dirs |-> Enter(Walk(path, n - 1, Dots).dirs, Walk(path, n - 1, Dots).name, Dots), name |-> <<>>]
        BY <3>1, StepIs
      <4> QED BY <1>7, <1>8, <3>1, <4>1
    <3>3. n \in m..Len(path) /\ m \in 1..Len(path) BY <1>1, <3>1
    <3>4. Walk(path, m, Dots) = Walk(path, n, Dots) BY <1>4, <3>2
    <3>5. Dirs(Cut(path, m, n), Dots) = Dirs(path, Dots) BY <1>3, <3>3, <3>4, DetourCut
    <3>6. Cut(path, m, n) = Cut(path, m - 1, n - 1) BY <1>1, <3>1, <3>3, CutSame
    <3>7. cut = Cut(path, m - 1, n - 1) BY <1>2, <1>3, <3>1
    <3> QED BY <3>5, <3>6, <3>7 DEF Resolved
  <2> QED BY <2>1, <2>2 DEF Ending
<1>10. Len(cut) >= 1 /\ cut[1] = "/"
  <2>1. k \in 0..Len(path) /\ t \in k..Len(path) BY <1>2
  <2>2. cut = Cut(path, k, t) BY <1>2
  <2>3. /\ Len(Cut(path, k, t)) = k + (Len(path) - t)
        /\ \A i \in 1..k : Cut(path, k, t)[i] = path[i]
    BY <2>1, Spliced
  <2>4. 1 \in 1..k /\ k + (Len(path) - t) >= 1 BY <1>2
  <2>5. path[1] = "/" BY DEF Going
  <2> QED BY <2>2, <2>3, <2>4, <2>5
<1>11. Name(path, k) \notin Dots
  <2>1. m \in 1..t - 1 /\ path[m] = "/" BY <1>1
  <2> QED BY <1>3, <2>1 DEF Going, Undotted
<1>12. ~(k >= 2 /\ path[k] = "/")
  <2> SUFFICES ASSUME k >= 2, path[k] = "/" PROVE FALSE
    OBVIOUS
  <2>1. k \in 2..(t - 1) - 1 /\ path[k + 1] = "/" BY <1>1, <1>2
  <2>2. Alone(path, t - 1) BY DEF Going
  <2> QED BY <2>1, <2>2 DEF Alone
<1>13. k \in 0..t - 1 /\ t \in k..Len(path) /\ cut = Cut(path, k, t) BY <1>2
<1>14. Goes(C, merged, cut, m, Len(path) - t - 1)
  BY <1>2, <1>3, <1>9, <1>10, <1>11, <1>12, <1>13, GoesBack
<1> QED BY <1>1, <1>14

LEMMA LastLeft ==
    ASSUME NEW S, NEW dirs \in Seq(S), NEW name \in S
    PROVE  SubSeq(Append(dirs, name), 1, Len(Append(dirs, name)) - 1) = dirs
<1> DEFINE a == Append(dirs, name)
           n == Len(dirs)
           b == SubSeq(a, 1, n)
<1>1. a \in Seq(S) /\ Len(a) = n + 1 /\ \A i \in 1..n : a[i] = dirs[i] OBVIOUS
<1>2. n \in Nat /\ n + 1 - 1 = n OBVIOUS
<1> HIDE DEF a
<1>3. b \in Seq(S) /\ Len(b) = n /\ \A i \in 1..n : b[i] = a[i] BY <1>1, <1>2
<1> HIDE DEF b
<1>4. b = dirs BY <1>1, <1>3
<1> QED BY <1>1, <1>2, <1>4 DEF a, b

(* ".." leads back to the slash before the last. *)
LEMMA Popped ==
    ASSUME NEW C, NEW path \in Seq(C), NEW t \in 3..Len(path), path[1] = "/", path[t - 1] = "/",
           Alone(path, t - 1), Undotted(path, t - 1), NEW b, b = Back(path, t - 2)
    PROVE  /\ b \in 1..t - 2 /\ path[b] = "/"
           /\ Walk(path, b, Dots) = [dirs |-> Enter(Walk(path, t - 1, Dots).dirs, <<".", ".">>, Dots), name |-> <<>>]
<1>1. PICK m \in 2..Len(path) : m = t - 1 OBVIOUS
<1>2. PICK k \in 1..Len(path) : k = t - 2 /\ k + 1 = m /\ m - 1 = k BY <1>1
<1>3. b \in 1..k /\ path[b] = "/" /\ NoSlash(path, b, k) BY <1>2, BackIs
<1> DEFINE W == Walk(path, m, Dots).dirs
           D == Walk(path, b, Dots).dirs
<1>4. Walk(path, b, Dots) = [dirs |-> D, name |-> <<>>] /\ Walk(path, b, Dots).name = <<>> /\ D \in Seq(Seq(C))
  <2> DEFINE d == Enter(Walk(path, b - 1, Dots).dirs, Walk(path, b - 1, Dots).name, Dots)
  <2>1. b \in 1..Len(path) BY <1>3
  <2>2. Walk(path, b, Dots) = [dirs |-> d, name |-> <<>>] BY <1>3, <2>1, StepIs
  <2> HIDE DEF d
  <2>3. \A w : w = [dirs |-> d, name |-> <<>>] => w.dirs = d /\ w.name = <<>> OBVIOUS
  <2>4. D = d /\ Walk(path, b, Dots).name = <<>> BY <2>2, <2>3
  <2>5. Walk(path, b, Dots) \in Walked(C)
    <3>1. b \in 0..Len(path) BY <2>1
    <3>2. \A i \in 0..Len(path) : Walk(path, i, Dots) \in Walked(C) BY WalkIs
    <3> QED BY <3>1, <3>2
  <2>6. D \in Seq(Seq(C)) BY <2>5 DEF Walked
  <2> QED BY <2>2, <2>4, <2>6
<1>5. Walk(path, m, Dots) =
          [dirs |-> Enter(Walk(path, k, Dots).dirs, Walk(path, k, Dots).name, Dots), name |-> <<>>]
  <2>1. m \in 1..Len(path) /\ path[m] = "/" BY <1>1
  <2> QED BY <1>2, <2>1, StepIs
<1>6. W = Enter(Walk(path, k, Dots).dirs, Walk(path, k, Dots).name, Dots)
  <2> DEFINE d == Enter(Walk(path, k, Dots).dirs, Walk(path, k, Dots).name, Dots)
  <2> HIDE DEF d
  <2>1. \A w : w = [dirs |-> d, name |-> <<>>] => w.dirs = d OBVIOUS
  <2>2. W = d BY <1>5, <2>1 DEF d
  <2> QED BY <2>2 DEF d
<1>7. Enter(W, <<".", ".">>, Dots) = SubSeq(W, 1, Len(W) - 1) BY DEF Enter, Dots
<1>8. SubSeq(W, 1, Len(W) - 1) = D
  <2>1. CASE b = k
    <3>1. k = 1
      <4> SUFFICES ASSUME k # 1 PROVE FALSE
        OBVIOUS
      <4>1. k \in 2..(t - 1) - 1 /\ path[k] = "/" /\ path[k + 1] = "/" BY <1>1, <1>2, <1>3, <2>1
      <4> QED BY <4>1 DEF Alone
    <3>2. D = <<>> /\ Walk(path, k, Dots).dirs = <<>> /\ Walk(path, k, Dots).name = <<>>
      <4>1. 1 \in 1..Len(path) OBVIOUS
      <4>2. Walk(path, 1, Dots).dirs = <<>> /\ Walk(path, 1, Dots).name = <<>> BY <4>1, RootIs
      <4> QED BY <2>1, <3>1, <4>2
    <3>3. W = <<>> BY <1>6, <3>2 DEF Enter
    <3>4. Len(<<>>) = 0 /\ SubSeq(<<>>, 1, 0 - 1) = <<>> OBVIOUS
    <3> HIDE DEF W, D
    <3> QED BY <3>2, <3>3, <3>4
  <2>2. CASE b # k
    <3> DEFINE name == SubSeq(path, b + 1, k)
    <3>1. Walk(path, k, Dots) = [dirs |-> D, name |-> name]
      <4>1. b \in 0..Len(path) /\ k \in b..Len(path) BY <1>2, <1>3
      <4> QED BY <1>3, <1>4, <4>1, WalkAlongName
    <3>2. name \in Seq(C) /\ name # <<>>
      <4>1. PICK i, j : i = b + 1 /\ j = k /\ i \in 1..Len(path) /\ j \in i..Len(path) BY <1>2, <1>3, <2>2
      <4>2. SubSeq(path, i, j) \in Seq(C) /\ Len(SubSeq(path, i, j)) = j - i + 1 BY <4>1
      <4>3. Len(SubSeq(path, i, j)) # 0 BY <4>1, <4>2
      <4>4. Len(name) # 0 /\ name \in Seq(C) BY <4>1, <4>2, <4>3
      <4> QED BY <4>4
    <3>3. name \notin Dots
      <4>1. NoSlash(path, b, k) /\ Name(path, b) = <<>>
        <5>1. b \in 1..Len(path) BY <1>2, <1>3
        <5>2. \A d : [dirs |-> d, name |-> <<>>].name = <<>> OBVIOUS
        <5>3. Walk(path, b, {}) =
                 [dirs |-> Enter(Walk(path, b - 1, {}).dirs, Walk(path, b - 1, {}).name, {}), name |-> <<>>]
          BY <1>3, <5>1, StepIs
        <5> QED BY <1>3, <5>2, <5>3 DEF Name
      <4>2. Walk(path, k, {}) = [dirs |-> Walk(path, b, {}).dirs, name |-> name]
        <5>1. b \in 0..Len(path) /\ k \in b..Len(path) BY <1>2, <1>3
        <5> QED BY <4>1, <5>1, WalkAlongName DEF Name
      <4> HIDE DEF name
      <4>3. \A d : [dirs |-> d, name |-> name].name = name OBVIOUS
      <4>4. Name(path, k) = name BY <4>2, <4>3 DEF Name
      <4>5. m \in 1..t - 1 /\ path[m] = "/" BY <1>1
      <4>6. Name(path, m - 1) \notin Dots BY <4>5 DEF Undotted
      <4> QED BY <1>2, <4>4, <4>6
    <3> HIDE DEF name
    <3>4. Walk(path, k, Dots).dirs = D /\ Walk(path, k, Dots).name = name
      <4> HIDE DEF D
      <4>1. \A w : w = [dirs |-> D, name |-> name] => w.dirs = D /\ w.name = name OBVIOUS
      <4> QED BY <3>1, <4>1
    <3> HIDE DEF D, W
    <3>5. W = Append(D, name)
      <4>1. name # <<>> /\ ~(name = <<".">> /\ name \in Dots) /\ ~(name = <<".", ".">> /\ name \in Dots)
        BY <3>2, <3>3
      <4>2. Enter(D, name, Dots) = Append(D, name) BY <4>1, Zenon DEF Enter
      <4> QED BY <1>6, <3>4, <4>2 DEF W
    <3> DEFINE S == Seq(C)
    <3>6. name \in S /\ D \in Seq(S) BY <1>4, <3>2 DEF D
    <3> HIDE DEF S
    <3> QED BY <3>5, <3>6, LastLeft
  <2> QED BY <2>1, <2>2
<1>9. Walk(path, t - 1, Dots).dirs = W BY <1>1
<1> HIDE DEF W, D
<1>10. b \in 1..t - 2 BY <1>2, <1>3
<1> QED BY <1>3, <1>4, <1>7, <1>8, <1>9, <1>10

(* ".." behind a slash. *)
UpAt(path, t) == /\ t \in 3..Len(path) - 1 /\ path[t - 1] = "/" /\ path[t] = "." /\ path[t + 1] = "."
                 /\ At(path, t + 2) \in Ending
UpTo(path, t) == [dirs |-> Enter(Walk(path, t - 1, Dots).dirs, <<".", ".">>, Dots), name |-> <<>>]

LEMMA UpWalked ==
    ASSUME NEW C, Plain(C), NEW path \in Seq(C), NEW t, UpAt(path, t)
    PROVE  /\ Walk(path, t + 1, Dots).dirs = Walk(path, t - 1, Dots).dirs
           /\ Walk(path, t + 1, Dots).name = <<".", ".">>
<1>1. PICK m \in 2..Len(path) : m = t - 1 /\ m + 1 = t BY DEF UpAt
<1>2. PICK n \in 3..Len(path) : n = t + 1 BY DEF UpAt
<1>3. Walk(path, m, Dots).name = <<>>
  <2>1. m \in 1..Len(path) /\ path[m] = "/" BY <1>1 DEF UpAt
  <2> DEFINE d == Enter(Walk(path, m - 1, Dots).dirs, Walk(path, m - 1, Dots).name, Dots)
  <2>2. Walk(path, m, Dots) = [dirs |-> d, name |-> <<>>] BY <2>1, StepIs
  <2> HIDE DEF d
  <2> QED BY <2>2
<1> DEFINE W == Walk(path, m, Dots).dirs
           name == SubSeq(path, t, n)
<1>4. Walk(path, n, Dots) = [dirs |-> W, name |-> SubSeq(path, m + 1, n)]
  <2>1. NoSlash(path, m, n)
    <3> SUFFICES ASSUME NEW i \in m + 1..n PROVE path[i] # "/"
      BY DEF NoSlash
    <3>1. i = t \/ i = t + 1 BY <1>1, <1>2
    <3> QED BY <3>1 DEF UpAt
  <2>2. m \in 0..Len(path) /\ n \in m..Len(path) BY <1>1, <1>2
  <2> QED BY <1>3, <2>1, <2>2, WalkAlongName
<1>5. name = <<".", ".">>
  <2>1. t \in 1..Len(path) /\ t + 1 <= Len(path) BY DEF UpAt
  <2>2. SubSeq(path, t, t + 1) = <<".", ".">> BY <2>1, DotsAre DEF UpAt
  <2> QED BY <1>2, <2>2
<1>6. Walk(path, n, Dots) = [dirs |-> W, name |-> name] BY <1>1, <1>4
<1> HIDE DEF W, name
<1>7. Walk(path, n, Dots).dirs = W /\ Walk(path, n, Dots).name = name
  <2>1. \A w : w = [dirs |-> W, name |-> name] => w.dirs = W /\ w.name = name OBVIOUS
  <2> QED BY <1>6, <2>1
<1> QED BY <1>1, <1>2, <1>5, <1>7 DEF W

LEMMA UpIs ==
    ASSUME NEW C, Plain(C), NEW merged, NEW path \in Seq(C), NEW t, Going(merged, path, t), UpAt(path, t),
           NEW b, b = Back(path, t - 2)
    PROVE  b \in 1..t - 2 /\ path[b] = "/" /\ Walk(path, b, Dots) = UpTo(path, t)
<1>1. t \in 3..Len(path) /\ path[1] = "/" /\ path[t - 1] = "/" /\ Alone(path, t - 1) /\ Undotted(path, t - 1)
  BY DEF Going, UpAt
<1> QED BY <1>1, Popped DEF UpTo

LEMMA UpEnds ==
    ASSUME NEW C, Plain(C), NEW path \in Seq(C), NEW t, UpAt(path, t), At(path, t + 2) = NUL
    PROVE  t + 1 = Len(path) /\ Resolved(path) = UpTo(path, t).dirs
<1>1. t + 1 = Len(path)
  <2>1. t + 2 \in Int /\ t + 2 \notin 1..Len(path) BY AtIs DEF UpAt
  <2> QED BY <2>1 DEF UpAt
<1> DEFINE d == Enter(Walk(path, t - 1, Dots).dirs, <<".", ".">>, Dots)
<1>2. Resolved(path) = d BY <1>1, UpWalked DEF Resolved, Dirs
<1> HIDE DEF d
<1>3. [dirs |-> d, name |-> <<>>].dirs = d OBVIOUS
<1> QED BY <1>1, <1>2, <1>3 DEF UpTo, d

LEMMA UpGoes ==
    ASSUME NEW C, Plain(C), NEW merged, NEW path \in Seq(C), NEW t, Going(merged, path, t), UpAt(path, t),
           NEW b, b = Back(path, t - 2), b # 1 \/ At(path, t + 2) = "/",
           NEW cut, cut = Cut(path, b - 1, t + 1)
    PROVE  Goes(C, merged, cut, b, Len(path) - (t + 1) - 1)
<1>1. b \in 1..t - 2 /\ path[b] = "/" /\ Walk(path, b, Dots) = UpTo(path, t) BY UpIs
<1>2. t \in 3..Len(path) - 1 /\ path[1] = "/" BY DEF UpAt, Going
<1>3. PICK k \in 0..Len(path) : k = b - 1 /\ k + 1 = b /\ k \in 0..t - 1 BY <1>1, <1>2
<1>4. PICK n \in k..Len(path) : n = t + 1 /\ n \in 1..Len(path) BY <1>2, <1>3
<1> DEFINE d == Enter(Walk(path, t - 1, Dots).dirs, <<".", ".">>, Dots)
<1>5. cut = Cut(path, k, n) BY <1>3, <1>4
<1>6. Walk(path, b, Dots) = [dirs |-> d, name |-> <<>>] BY <1>1 DEF UpTo
<1>7. Resolved(cut) = Resolved(path)
  <2>1. CASE At(path, t + 2) = NUL
    <3>1. n = Len(path) /\ Resolved(path) = UpTo(path, t).dirs BY <1>4, <2>1, UpEnds
    <3> DEFINE D == Enter(Walk(path, k, Dots).dirs, Walk(path, k, Dots).name, Dots)
    <3>2. Walk(path, b, Dots) = [dirs |-> D, name |-> <<>>]
      <4>1. b \in 1..Len(path) /\ b - 1 = k BY <1>1, <1>2, <1>3
      <4> QED BY <1>1, <4>1, StepIs
    <3>3. cut = Head0(path, k)
      <4>1. Tail0(path, n + 1) = <<>> BY <1>4, <3>1 DEF Tail0
      <4>2. Head0(path, k) \in Seq(C) BY <1>3, HeadIs
      <4>3. cut = Head0(path, k) \o Tail0(path, n + 1) BY <1>5 DEF Cut
      <4> DEFINE h == Head0(path, k)
      <4> HIDE DEF h
      <4>4. h \o <<>> = h BY <4>2, ConcatEmptySeq DEF h
      <4> QED BY <4>1, <4>3, <4>4 DEF h
    <3>4. Resolved(cut) = D BY <1>3, <3>3, HeadWalks DEF Resolved
    <3> HIDE DEF D
    <3>5. Walk(path, b, Dots).dirs = D BY <3>2
    <3> QED BY <1>1, <3>1, <3>4, <3>5
  <2>2. CASE At(path, t + 2) = "/"
    <3>1. PICK l \in 1..Len(path) : l = t + 2 /\ l - 1 = n /\ path[l] = "/" /\ l - 1 = t + 1
      <4>1. t + 2 \in 1..Len(path) BY <2>2 DEF At, NUL
      <4>2. path[t + 2] = "/" /\ (t + 2) - 1 = n BY <1>2, <1>4, <2>2, <4>1 DEF At
      <4> QED BY <1>4, <4>1, <4>2
    <3>2. Walk(path, l, Dots) = [dirs |-> d, name |-> <<>>]
      <4>1. Walk(path, l, Dots) =
                [dirs |-> Enter(Walk(path, l - 1, Dots).dirs, Walk(path, l - 1, Dots).name, Dots), name |-> <<>>]
        BY <3>1, StepIs
      <4>2. Walk(path, t + 1, Dots).dirs = Walk(path, t - 1, Dots).dirs
            /\ Walk(path, t + 1, Dots).name = <<".", ".">>
        BY UpWalked
      <4> QED BY <3>1, <4>1, <4>2
    <3>3. b \in 1..Len(path) /\ l \in b..Len(path) /\ b \in 0..Len(path) BY <1>1, <1>2, <3>1
    <3>4. Walk(path, b, Dots) = Walk(path, l, Dots) BY <1>6, <3>2
    <3>5. Dirs(Cut(path, b, l), Dots) = Dirs(path, Dots) BY <3>3, <3>4, DetourCut
    <3>6. Cut(path, b, l) = Cut(path, b - 1, l - 1) BY <1>1, <3>1, <3>3, CutSame
    <3>7. cut = Cut(path, b - 1, l - 1) BY <3>1
    <3> QED BY <3>5, <3>6, <3>7 DEF Resolved
  <2> QED BY <2>1, <2>2 DEF Ending, UpAt
<1>8. Len(cut) >= 1 /\ cut[1] = "/"
  <2>1. /\ Len(Cut(path, k, n)) = k + (Len(path) - n)
        /\ \A i \in 1..k : Cut(path, k, n)[i] = path[i]
        /\ \A i \in 1..Len(path) - n : Cut(path, k, n)[k + i] = path[n + i]
    <3>1. k \in 0..Len(path) /\ n \in k..Len(path) BY <1>3, <1>4
    <3> QED BY <3>1, Spliced
  <2>2. CASE k = 0
    <3>1. At(path, t + 2) = "/" BY <1>3, <2>2
    <3>2. t + 2 \in 1..Len(path) BY <3>1 DEF At, NUL
    <3>3. path[n + 1] = "/" /\ 1 \in 1..Len(path) - n /\ 0 + 1 = 1
      BY <1>2, <1>4, <3>1, <3>2 DEF At
    <3>4. Cut(path, k, n)[k + 1] = path[n + 1] BY <2>1, <3>3
    <3> QED BY <1>3, <1>4, <1>5, <2>1, <2>2, <3>3, <3>4
  <2>3. CASE k # 0
    <3>1. 1 \in 1..k /\ k + (Len(path) - n) >= 1 BY <1>3, <1>4, <2>3
    <3> QED BY <1>2, <1>5, <2>1, <3>1
  <2> QED BY <2>2, <2>3
<1>9. Name(path, k) \notin Dots
  <2>1. b \in 1..t - 1 /\ b - 1 = k BY <1>1, <1>2, <1>3
  <2>2. Undotted(path, t - 1) BY DEF Going
  <2> QED BY <1>1, <2>1, <2>2 DEF Undotted
<1>10. ~(k >= 2 /\ path[k] = "/")
  <2> SUFFICES ASSUME k >= 2, path[k] = "/" PROVE FALSE
    OBVIOUS
  <2>1. k \in 2..(t - 1) - 1 /\ path[k + 1] = "/" BY <1>1, <1>2, <1>3
  <2>2. Alone(path, t - 1) BY DEF Going
  <2> QED BY <2>1, <2>2 DEF Alone
<1>11. t \in 1..Len(path) /\ b = k + 1 BY <1>2, <1>3
<1>12. Goes(C, merged, cut, b, Len(path) - n - 1)
  BY <1>3, <1>4, <1>5, <1>7, <1>8, <1>9, <1>10, <1>11, GoesBack
<1> QED BY <1>4, <1>12

LEMMA UpDone ==
    ASSUME NEW C, Plain(C), NEW merged, NEW path \in Seq(C), NEW t, Going(merged, path, t), UpAt(path, t),
           Back(path, t - 2) = 1, At(path, t + 2) = NUL
    PROVE  Head0(path, 1) \in Seq(C) /\ Made(merged, Head0(path, 1), TRUE)
<1>1. 1 \in 1..Len(path) /\ path[1] = "/" BY DEF Going
<1>2. Walk(path, 1, Dots) = UpTo(path, t) BY UpIs
<1>3. Resolved(path) = <<>> BY <1>1, <1>2, UpEnds, RootIs
<1>4. Resolved(Head0(path, 1)) = <<>> BY <1>1, RootIs DEF Resolved
<1>5. Name(path, 1) \notin Dots
  <2>1. Walk(path, 1, {}).name = <<>> BY <1>1, RootIs
  <2> QED BY <2>1 DEF Name, Dots
<1>6. t \in 3..Len(path) BY DEF UpAt
<1>7. Undotted(path, 1) BY <1>6 DEF Going, Undotted
<1>8. Alone(path, 1) BY DEF Alone
<1>9. Resolved(Head0(path, 1)) = Resolved(merged) BY <1>3, <1>4 DEF Going
<1>10. \A a \in BOOLEAN : a => Head0(path, 1) \in Seq(C) /\ Made(merged, Head0(path, 1), a)
  <2> SUFFICES ASSUME NEW a \in BOOLEAN, a
               PROVE  Head0(path, 1) \in Seq(C) /\ Made(merged, Head0(path, 1), a)
    OBVIOUS
  <2>1. ~(1 >= 2 /\ path[1] = "/") OBVIOUS
  <2> QED BY <1>1, <1>5, <1>7, <1>8, <1>9, <2>1, Finished
<1> QED BY <1>10, Zenon

(* Past a character. *)
LEMMA GoesOn ==
    ASSUME NEW C, Plain(C), NEW merged, NEW path \in Seq(C), NEW t, Going(merged, path, t), At(path, t) # NUL,
           At(path, t) = "/" => At(path, t + 1) # "/" /\ (t = 1 \/ At(path, t + 1) # NUL),
           At(path, t) = "." /\ At(path, t - 1) = "/" =>
               At(path, t + 1) \notin Ending /\ (At(path, t + 1) = "." => At(path, t + 2) \notin Ending)
    PROVE  Goes(C, merged, path, t + 1, Len(path) - t - 1)
<1>1. t \in 1..Len(path) /\ At(path, t) = path[t] /\ path[1] = "/" /\ Len(path) >= 1
  <2>1. t \in Int /\ path[1] = "/" /\ Len(path) >= 1 BY DEF Going
  <2> QED BY <2>1, AtIs
<1>2. PICK n \in 2..Len(path) + 1 : n = t + 1 /\ n - 1 = t /\ n + 1 = t + 2 BY <1>1
<1>3. Alone(path, t)
  <2> SUFFICES ASSUME NEW i \in 2..t - 1, path[i] = "/", path[i + 1] = "/" PROVE FALSE
    BY DEF Alone
  <2>1. CASE i + 1 = t
    <3>1. t >= 3 /\ t - 1 = i BY <2>1
    <3>2. At(path, t) \notin Ending BY <3>1 DEF Going
    <3> QED BY <1>1, <2>1, <3>2 DEF Ending
  <2>2. CASE i + 1 # t
    <3>1. i \in 2..(t - 1) - 1 BY <1>1, <2>2
    <3> QED BY <3>1 DEF Going, Alone
  <2> QED BY <2>1, <2>2
<1>4. Undotted(path, t)
  <2> SUFFICES ASSUME NEW i \in 1..t, path[i] = "/" PROVE Name(path, i - 1) \notin Dots
    BY DEF Undotted
  <2>1. CASE i = t
    <3>1. At(path, t) \in Ending BY <1>1, <2>1 DEF Ending
    <3>2. Name(path, t - 1) # <<".">> /\ Name(path, t - 1) # <<".", ".">> BY <3>1 DEF Going
    <3> QED BY <2>1, <3>2 DEF Dots
  <2>2. CASE i # t
    <3>1. i \in 1..t - 1 BY <1>1, <2>2
    <3> QED BY <3>1 DEF Going, Undotted
  <2> QED BY <2>1, <2>2
<1>5. n >= 3 /\ path[n - 1] = "/" => At(path, n) \notin Ending
  <2> SUFFICES ASSUME n >= 3, path[t] = "/" PROVE At(path, n) \notin Ending
    BY <1>2
  <2>1. t # 1 BY <1>2
  <2> QED BY <1>1, <1>2, <2>1 DEF Ending
<1>6. Name(path, t) = <<".">> => /\ path[t] = "." /\ At(path, t - 1) = "/"
  <2> SUFFICES ASSUME Name(path, t) = <<".">> PROVE path[t] = "." /\ At(path, t - 1) = "/"
    OBVIOUS
  <2>1. t \in 0..Len(path) /\ t > 0 /\ t # 0 BY <1>1
  <2>2. path[t] # "/"
    <3>1. <<".">> # <<>> OBVIOUS
    <3> QED BY <2>1, <3>1, NameEmpty
  <2>3. t # 1 BY <1>1, <2>2
  <2>4. PICK m \in 1..Len(path) : m = t - 1 BY <1>1, <2>3
  <2> DEFINE s == Name(path, m)
  <2>5. Name(path, t) = Append(s, path[t]) BY <2>1, <2>2, <2>4, NameEmpty
  <2>6. s \in Seq(C) /\ path[t] \in C
    <3>1. m \in 0..Len(path) BY <2>4
    <3> QED BY <1>1, <3>1, NameEmpty
  <2> HIDE DEF s
  <2>7. Len(s) = 0 /\ path[t] = "."
    <3>1. Len(Append(s, path[t])) = Len(s) + 1 /\ Append(s, path[t])[Len(s) + 1] = path[t]
      BY <2>6, AppendProperties
    <3>2. Len(<<".">>) = 1 /\ <<".">>[1] = "." OBVIOUS
    <3> DEFINE d == <<".">>
    <3> HIDE DEF d
    <3>3. Len(s) + 1 = 1 /\ d[Len(s) + 1] = path[t] BY <2>5, <3>1, <3>2 DEF d
    <3>4. Len(s) \in Nat BY <2>6
    <3>5. Len(s) = 0 BY <3>3, <3>4
    <3> QED BY <3>2, <3>3, <3>5 DEF d
  <2>8. s = <<>> BY <2>6, <2>7
  <2>9. path[m] = "/"
    <3>1. m \in 0..Len(path) /\ m # 0 BY <2>4
    <3> QED BY <2>8, <3>1, NameEmpty DEF s
  <2> QED BY <2>4, <2>7, <2>9 DEF At
<1>7. Name(path, t) = <<".", ".">> => /\ path[t] = "." /\ Name(path, t - 1) = <<".">>
  <2> SUFFICES ASSUME Name(path, t) = <<".", ".">> PROVE path[t] = "." /\ Name(path, t - 1) = <<".">>
    OBVIOUS
  <2>1. t \in 0..Len(path) /\ t > 0 BY <1>1
  <2>2. path[t] # "/"
    <3>1. <<".", ".">> # <<>> OBVIOUS
    <3> QED BY <2>1, <3>1, NameEmpty
  <2>3. PICK m \in 0..Len(path) : m = t - 1 BY <1>1
  <2> DEFINE s == Name(path, m)
             d == <<".", ".">>
  <2>4. Append(s, path[t]) = d BY <2>1, <2>2, <2>3, NameEmpty
  <2>5. s \in Seq(C) /\ path[t] \in C BY <1>1, <2>3, NameEmpty, SMTT(60)
  <2>6. Len(d) = 2 /\ d[1] = "." /\ d[2] = "." OBVIOUS
  <2> HIDE DEF s, d
  <2>7. /\ Len(Append(s, path[t])) = Len(s) + 1 /\ Append(s, path[t])[Len(s) + 1] = path[t]
        /\ \A i \in 1..Len(s) : Append(s, path[t])[i] = s[i]
    BY <2>5, AppendProperties
  <2>8. Len(s) = 1
    <3>1. Len(s) + 1 = 2 BY <2>4, <2>6, <2>7
    <3>2. Len(s) \in Nat BY <2>5
    <3>3. \A l \in Nat : l + 1 = 2 => l = 1 OBVIOUS
    <3> QED BY <3>1, <3>2, <3>3
  <2>9. path[t] = "." /\ s[1] = "." BY <2>4, <2>6, <2>7, <2>8
  <2>10. s = <<".">>
    <3> DEFINE e == <<".">>
    <3>1. e \in Seq({"."}) /\ Len(e) = 1 /\ e[1] = "." OBVIOUS
    <3> HIDE DEF e
    <3>2. s = e BY <2>5, <2>8, <2>9, <3>1
    <3> QED BY <3>2 DEF e
  <2> QED BY <2>3, <2>9, <2>10 DEF s
<1>8. Name(path, n - 1) = <<".">> => /\ At(path, n) \notin Ending
                                     /\ At(path, n) = "." => At(path, n + 1) \notin Ending
  BY <1>1, <1>2, <1>6
<1>9. Name(path, n - 1) = <<".", ".">> => At(path, n) \notin Ending
  <2> SUFFICES ASSUME Name(path, t) = <<".", ".">> PROVE At(path, n) \notin Ending
    BY <1>2
  <2>1. Name(path, t - 1) = <<".">> /\ At(path, t) = "." BY <1>1, <1>7
  <2>2. At(path, t + 1) \notin Ending BY <2>1 DEF Going
  <2> QED BY <1>2, <2>2
<1>10. Resolved(path) = Resolved(merged) /\ path[Len(path)] = merged[Len(merged)] BY DEF Going
<1>11. Going(merged, path, n)
  BY <1>1, <1>2, <1>3, <1>4, <1>5, <1>8, <1>9, <1>10 DEF Going
<1>12. Len(path) - n = Len(path) - t - 1 BY <1>1, <1>2
<1> QED BY <1>2, <1>11, <1>12 DEF Goes

(* Where a round leads: on, with left or less of the path before it, or to *)
(* the end.                                                                *)
Led(C, merged, r, left) ==
    \/ \E path : \E t \in Nat : r = Running(path, t) /\ \E n \in Int : Goes(C, merged, path, t, n) /\ n <= left
    \/ \E path \in Seq(C), t \in Nat, appends \in BOOLEAN : r = Over(path, t, appends) /\ Made(merged, path, appends)

LEMMA TurnLeads ==
    ASSUME NEW C, Plain(C), NEW merged, NEW path \in Seq(C), NEW t, Going(merged, path, t),
           At(path, t) = "/" => At(path, t + 1) # "/"
    PROVE  Led(C, merged, Turn(path, t), Len(path) - t - 1)
<1> DEFINE b == Back(path, t - 2)
           end == At(path, t) = NUL
           slash == At(path, t) = "/" /\ t # 1 /\ At(path, t + 1) = NUL
           up == At(path, t) = "." /\ At(path, t + 1) = "."
           here == At(path, t) = "."
<1>1. t \in 1..Len(path) + 1 /\ t \in Nat /\ t + 0 = t /\ Len(path) \in Nat /\ Len(path) >= 1 /\ path[1] = "/"
  BY DEF Going
<1>2. ASSUME NEW cut, NEW to \in Nat, NEW n \in Int, Goes(C, merged, cut, to, n), n <= Len(path) - t - 1,
             Turn(path, t) = Running(cut, to)
      PROVE  Led(C, merged, Turn(path, t), Len(path) - t - 1)
  BY <1>2 DEF Led, Goes
<1>3. ASSUME NEW p, NEW a \in BOOLEAN, p \in Seq(C), Made(merged, p, a), Turn(path, t) = Over(p, t, a)
      PROVE  Led(C, merged, Turn(path, t), Len(path) - t - 1)
  BY <1>1, <1>3 DEF Led
<1>4. CASE end
  <2>1. Turn(path, t) = Over(path, t, TRUE) BY <1>4 DEF Turn
  <2>2. Made(merged, path, TRUE) BY <1>4, RunsOut
  <2> QED BY <1>3, <2>1, <2>2, Zenon
<1>5. CASE ~end /\ slash
  <2>1. Turn(path, t) = Over(Head0(path, t - 1), t, FALSE) BY <1>5 DEF Turn
  <2>2. Head0(path, t - 1) \in Seq(C) /\ Made(merged, Head0(path, t - 1), FALSE) BY <1>5, SlashLeft
  <2> QED BY <1>3, <2>1, <2>2, Zenon
<1>6. CASE ~end /\ ~slash /\ up /\ t = 2 /\ At(path, t + 2) = NUL
  <2>1. Turn(path, t) = Over(Head0(path, t - 1), t, TRUE) BY <1>1, <1>6 DEF Turn
  <2>2. 3 = Len(path) /\ path[2] = "." /\ path[3] = "."
    <3>1. 4 \notin 1..Len(path) /\ 3 \in 1..Len(path) /\ 2 \in 1..Len(path)
      <4>1. At(path, 4) = NUL /\ At(path, 3) = "." /\ At(path, 2) = "." BY <1>6
      <4>2. 4 \in Int BY SMT
      <4> QED BY <4>1, <4>2, AtIs DEF At, NUL
    <3>2. At(path, 3) = "." /\ At(path, 2) = "." BY <1>6
    <3>3. path[2] = "." /\ path[3] = "." BY <3>1, <3>2 DEF At
    <3>4. \A n \in Nat : 4 \notin 1..n /\ 3 \in 1..n => 3 = n OBVIOUS
    <3> QED BY <1>1, <3>1, <3>3, <3>4
  <2>3. \A i \in 2..3 : path[i] = "."
    <3>1. \A i \in 2..3 : i = 2 \/ i = 3 OBVIOUS
    <3> QED BY <2>2, <3>1
  <2>4. 3 \in 2..3 /\ Going(merged, path, 2) BY <1>6
  <2>5. Head0(path, 1) \in Seq(C) /\ Made(merged, Head0(path, 1), TRUE) BY <2>2, <2>3, <2>4, RootDone
  <2>6. t - 1 = 1 BY <1>6
  <2> QED BY <1>3, <2>1, <2>5, <2>6, Zenon
<1>7. CASE ~end /\ ~slash /\ up /\ t = 2 /\ At(path, t + 2) = "/"
  <2>1. Turn(path, t) = Running(Head0(path, t - 1) \o Tail0(path, t + 3), t) BY <1>1, <1>7 DEF Turn, NUL
  <2>2. 4 \in 1..Len(path) /\ path[2] = "." /\ path[3] = "." /\ path[4] = "/"
    <3>1. At(path, 4) = "/" /\ At(path, 3) = "." /\ At(path, 2) = "." BY <1>7
    <3>2. 4 \in 1..Len(path) /\ 3 \in 1..Len(path) /\ 2 \in 1..Len(path) BY <3>1 DEF At, NUL
    <3> QED BY <3>1, <3>2 DEF At
  <2>3. \A i \in 2..4 - 1 : path[i] = "."
    <3>1. \A i \in 2..4 - 1 : i = 2 \/ i = 3 OBVIOUS
    <3> QED BY <2>2, <3>1
  <2>4. 4 \in 3..4 /\ 4 <= Len(path) /\ Going(merged, path, 2) BY <1>7, <2>2
  <2>5. Goes(C, merged, Cut(path, 1, 4), 2, Len(path) - 4 - 1) BY <2>2, <2>3, <2>4, RootGoes
  <2>6. Turn(path, t) = Running(Cut(path, 1, 4), 2)
    <3>1. t - 1 = 1 /\ t + 3 = 4 + 1 BY <1>7
    <3> QED BY <1>7, <2>1, <3>1 DEF Cut
  <2>7. Len(path) - 4 - 1 \in Int /\ Len(path) - 4 - 1 <= Len(path) - t - 1 /\ 2 \in Nat BY <1>1, <1>7
  <2> QED BY <1>2, <2>5, <2>6, <2>7
<1>8. CASE /\ ~end /\ ~slash /\ up /\ ~(t = 2 /\ At(path, t + 2) \in Ending)
           /\ At(path, t - 1) = "/" /\ At(path, t + 2) \in Ending
  <2>1. Turn(path, t) = IF b # 1 \/ At(path, t + 2) = "/" THEN Running(Head0(path, b - 1) \o Tail0(path, t + 2), b)
                        ELSE Over(Head0(path, b), t, TRUE)
    BY <1>1, <1>8 DEF Turn, Ending
  <2>2. UpAt(path, t)
    <3>1. t + 1 \in 1..Len(path) /\ t \in 1..Len(path) /\ t - 1 \in 1..Len(path) BY <1>8 DEF At, NUL
    <3>2. t # 1 /\ t # 2 BY <1>1, <1>8, <3>1 DEF At
    <3>3. t \in 3..Len(path) - 1 BY <1>1, <3>1, <3>2
    <3> QED BY <1>8, <3>1, <3>3 DEF At, UpAt
  <2>3. b \in 1..t - 2 BY <2>2, UpIs
  <2>4. CASE b # 1 \/ At(path, t + 2) = "/"
    <3>1. Goes(C, merged, Cut(path, b - 1, t + 1), b, Len(path) - (t + 1) - 1) BY <2>2, <2>4, UpGoes
    <3>2. Turn(path, t) = Running(Cut(path, b - 1, t + 1), b)
      <4>1. (t + 1) + 1 = t + 2 BY <1>1
      <4> QED BY <2>1, <2>4, <4>1 DEF Cut
    <3>3. Len(path) - (t + 1) - 1 \in Int /\ Len(path) - (t + 1) - 1 <= Len(path) - t - 1 /\ b \in Nat BY <1>1, <2>3
    <3> HIDE DEF b
    <3> QED BY <1>2, <3>1, <3>2, <3>3
  <2>5. CASE ~(b # 1 \/ At(path, t + 2) = "/")
    <3>1. b = 1 /\ At(path, t + 2) = NUL BY <1>8, <2>5 DEF Ending
    <3>2. Head0(path, 1) \in Seq(C) /\ Made(merged, Head0(path, 1), TRUE) BY <2>2, <3>1, UpDone
    <3>3. Turn(path, t) = Over(Head0(path, 1), t, TRUE) BY <2>1, <2>5
    <3> QED BY <1>3, <3>2, <3>3, Zenon
  <2> QED BY <2>4, <2>5
<1>9. CASE ~end /\ ~slash /\ here /\ t = 2 /\ At(path, t + 1) = NUL
  <2>1. Turn(path, t) = Over(Head0(path, t - 1), t, TRUE)
    <3>1. ~up BY <1>9 DEF NUL
    <3> QED BY <1>1, <1>9, <3>1 DEF Turn
  <2>2. 2 = Len(path) /\ path[2] = "."
    <3>1. 3 \notin 1..Len(path) /\ 2 \in 1..Len(path)
      <4>1. At(path, 3) = NUL /\ At(path, 2) = "." BY <1>9
      <4>2. 3 \in Int BY SMT
      <4> QED BY <4>1, <4>2, AtIs DEF At, NUL
    <3>2. At(path, 2) = "." BY <1>9
    <3>3. path[2] = "." BY <3>1, <3>2 DEF At
    <3>4. \A n \in Nat : 3 \notin 1..n /\ 2 \in 1..n => 2 = n OBVIOUS
    <3> QED BY <1>1, <3>1, <3>3, <3>4
  <2>3. \A i \in 2..2 : path[i] = "." BY <2>2
  <2>4. 2 \in 2..3 /\ Going(merged, path, 2) BY <1>9
  <2>5. Head0(path, 1) \in Seq(C) /\ Made(merged, Head0(path, 1), TRUE) BY <2>2, <2>3, <2>4, RootDone
  <2>6. t - 1 = 1 BY <1>9
  <2> QED BY <1>3, <2>1, <2>5, <2>6, Zenon
<1>10. CASE ~end /\ ~slash /\ here /\ t = 2 /\ At(path, t + 1) = "/"
  <2>1. Turn(path, t) = Running(Head0(path, t - 1) \o Tail0(path, t + 2), t)
    <3>1. ~up BY <1>10
    <3> QED BY <1>1, <1>10, <3>1 DEF Turn, NUL
  <2>2. 3 \in 1..Len(path) /\ path[2] = "." /\ path[3] = "/"
    <3>1. At(path, 3) = "/" /\ At(path, 2) = "." BY <1>10
    <3>2. 3 \in 1..Len(path) /\ 2 \in 1..Len(path) BY <3>1 DEF At, NUL
    <3> QED BY <3>1, <3>2 DEF At
  <2>3. \A i \in 2..3 - 1 : path[i] = "."
    <3>1. \A i \in 2..3 - 1 : i = 2 OBVIOUS
    <3> QED BY <2>2, <3>1
  <2>4. 3 \in 3..4 /\ 3 <= Len(path) /\ Going(merged, path, 2) BY <1>10, <2>2
  <2>5. Goes(C, merged, Cut(path, 1, 3), 2, Len(path) - 3 - 1) BY <2>2, <2>3, <2>4, RootGoes
  <2>6. Turn(path, t) = Running(Cut(path, 1, 3), 2)
    <3>1. t - 1 = 1 /\ t + 2 = 3 + 1 BY <1>10
    <3> QED BY <1>10, <2>1, <3>1 DEF Cut
  <2>7. Len(path) - 3 - 1 \in Int /\ Len(path) - 3 - 1 <= Len(path) - t - 1 /\ 2 \in Nat BY <1>1, <1>10
  <2> QED BY <1>2, <2>5, <2>6, <2>7
<1>11. CASE /\ ~end /\ ~slash /\ here /\ ~(t = 2 /\ At(path, t + 1) \in Ending)
            /\ At(path, t - 1) = "/" /\ At(path, t + 1) \in Ending
  <2>1. Turn(path, t) = Running(Head0(path, t - 2) \o Tail0(path, t + 1), t - 1)
    <3>1. ~up BY <1>11 DEF Ending, NUL
    <3> QED BY <1>1, <1>11, <3>1 DEF Turn, Ending
  <2>2. t \in 3..Len(path) /\ path[t] = "." /\ path[t - 1] = "/"
    <3>1. t \in 1..Len(path) /\ t - 1 \in 1..Len(path) BY <1>11 DEF At, NUL
    <3>2. t # 1 /\ t # 2 BY <1>1, <1>11, <3>1 DEF At
    <3> QED BY <1>11, <3>1, <3>2 DEF At
  <2>3. At(path, t + 1) \in Ending BY <1>11
  <2>4. Goes(C, merged, Cut(path, t - 2, t), t - 1, Len(path) - t - 1) BY <2>2, <2>3, HereGoes
  <2>5. Turn(path, t) = Running(Cut(path, t - 2, t), t - 1) BY <2>1 DEF Cut
  <2>6. Len(path) - t - 1 \in Int /\ Len(path) - t - 1 <= Len(path) - t - 1 /\ t - 1 \in Nat BY <1>1, <2>2
  <2> QED BY <1>2, <2>4, <2>5, <2>6
<1>12. CASE /\ ~end /\ ~slash
            /\ ~(up /\ (t = 2 \/ At(path, t - 1) = "/") /\ At(path, t + 2) \in Ending)
            /\ ~(here /\ (t = 2 \/ At(path, t - 1) = "/") /\ At(path, t + 1) \in Ending)
  <2>1. Turn(path, t) = Running(path, t + 1) BY <1>1, <1>12 DEF Turn, Ending
  <2>2. Goes(C, merged, path, t + 1, Len(path) - t - 1)
    <3>1. At(path, t) # NUL BY <1>12
    <3>2. At(path, t) = "/" => At(path, t + 1) # "/" /\ (t = 1 \/ At(path, t + 1) # NUL) BY <1>12
    <3>3. At(path, t) = "." /\ At(path, t - 1) = "/" =>
              At(path, t + 1) \notin Ending /\ (At(path, t + 1) = "." => At(path, t + 2) \notin Ending)
      BY <1>12
    <3> QED BY <3>1, <3>2, <3>3, GoesOn
  <2>3. Len(path) - t - 1 \in Int /\ Len(path) - t - 1 <= Len(path) - t - 1 /\ t + 1 \in Nat BY <1>1
  <2> QED BY <1>2, <2>1, <2>2, <2>3
<1>13. t = 2 => At(path, t - 1) = "/" BY <1>1 DEF At
<1> QED BY <1>4, <1>5, <1>6, <1>7, <1>8, <1>9, <1>10, <1>11, <1>12 DEF Ending

(* The states of the loop. *)
Loop(C, merged) ==
    {r \in [path : Seq(C), t : Nat, ended : BOOLEAN, appends : BOOLEAN] :
         /\ r.ended => Made(merged, r.path, r.appends)
         /\ ~r.ended => Going(merged, r.path, r.t)}

LEMMA RunningIn ==
    ASSUME NEW C, NEW merged, NEW path \in Seq(C), NEW t \in Nat, Going(merged, path, t)
    PROVE  /\ Running(path, t) \in Loop(C, merged) /\ ~Running(path, t).ended
           /\ Running(path, t).path = path /\ Running(path, t).t = t
<1>1. \A a, b \in BOOLEAN : [path |-> path, t |-> t, ended |-> a, appends |-> b]
                            \in [path : Seq(C), t : Nat, ended : BOOLEAN, appends : BOOLEAN]
  OBVIOUS
<1>2. \A a, b : [path |-> path, t |-> t, ended |-> a, appends |-> b].ended = a OBVIOUS
<1>3. \A a, b : /\ [path |-> path, t |-> t, ended |-> a, appends |-> b].path = path
                /\ [path |-> path, t |-> t, ended |-> a, appends |-> b].t = t
  OBVIOUS
<1>4. Running(path, t) \in [path : Seq(C), t : Nat, ended : BOOLEAN, appends : BOOLEAN]
  BY <1>1, Zenon DEF Running
<1>5. ~Running(path, t).ended BY <1>2, Zenon DEF Running
<1>6. Running(path, t).path = path /\ Running(path, t).t = t BY <1>3, Zenon DEF Running
<1>7. Running(path, t) \in Loop(C, merged) BY <1>4, <1>5, <1>6 DEF Loop
<1> QED BY <1>5, <1>6, <1>7

LEMMA OverIn ==
    ASSUME NEW C, NEW merged, NEW path \in Seq(C), NEW t \in Nat, NEW appends \in BOOLEAN,
           Made(merged, path, appends)
    PROVE  Over(path, t, appends) \in Loop(C, merged) /\ Over(path, t, appends).ended
<1>1. \A a, b \in BOOLEAN : [path |-> path, t |-> t, ended |-> a, appends |-> b]
                            \in [path : Seq(C), t : Nat, ended : BOOLEAN, appends : BOOLEAN]
  OBVIOUS
<1>2. \A a, b : [path |-> path, t |-> t, ended |-> a, appends |-> b].ended = a OBVIOUS
<1>3. \A a, b : /\ [path |-> path, t |-> t, ended |-> a, appends |-> b].path = path
                /\ [path |-> path, t |-> t, ended |-> a, appends |-> b].appends = b
  OBVIOUS
<1>4. Over(path, t, appends) \in [path : Seq(C), t : Nat, ended : BOOLEAN, appends : BOOLEAN]
  BY <1>1, Zenon DEF Over
<1>5. Over(path, t, appends).ended BY <1>2, Zenon DEF Over
<1>6. Over(path, t, appends).path = path /\ Over(path, t, appends).appends = appends BY <1>3, Zenon DEF Over
<1>7. Made(merged, Over(path, t, appends).path, Over(path, t, appends).appends) BY <1>6, Zenon
<1>8. Over(path, t, appends) \in Loop(C, merged) BY <1>4, <1>5, <1>7 DEF Loop
<1> QED BY <1>5, <1>8

Left(r) == Len(r.path) - r.t
LEMMA RoundLeads ==
    ASSUME NEW C, Plain(C), NEW merged, NEW r \in Loop(C, merged)
    PROVE  /\ Round(r) \in Loop(C, merged)
           /\ r.ended => Round(r).ended
           /\ Round(r).ended \/ Left(Round(r)) <= Left(r) - 1
<1>1. CASE r.ended
  <2>1. Round(r) = r BY <1>1 DEF Round
  <2> QED BY <1>1, <2>1
<1>2. CASE ~r.ended
  <2> DEFINE q == IF At(r.path, r.t) = "/" THEN Squeezed(r.path, r.t) ELSE r.path
  <2>1. r.path \in Seq(C) /\ r.t \in Nat /\ Going(merged, r.path, r.t) BY <1>2 DEF Loop
  <2>2. PICK path \in Seq(C), t \in Nat : path = r.path /\ t = r.t BY <2>1
  <2>3. /\ q \in Seq(C) /\ Going(merged, q, t) /\ Len(q) <= Len(path)
        /\ At(q, t) = "/" => At(q, t + 1) # "/"
    <3>1. CASE At(path, t) = "/"
      <4>1. t \in 1..Len(path) /\ path[t] = "/" BY <3>1 DEF At, NUL
      <4>2. PICK s : s = Squeezed(path, t) OBVIOUS
      <4>3. s \in Seq(C) /\ Going(merged, s, t) /\ Len(s) <= Len(path) /\ At(s, t + 1) # "/"
        <5>1. Going(merged, path, t) BY <2>1, <2>2
        <5> QED BY <4>1, <4>2, <5>1, SqueezedGoes
      <4> QED BY <2>2, <3>1, <4>2, <4>3
    <3>2. CASE At(path, t) # "/" BY <2>1, <2>2, <3>2
    <3> QED BY <3>1, <3>2
  <2>4. Round(r) = Turn(q, t) BY <1>2, <2>2 DEF Round
  <2> HIDE DEF q
  <2>5. PICK n \in Int : n = Len(q) - t - 1 /\ n <= Left(r) - 1 BY <2>2, <2>3 DEF Left
  <2>6. Led(C, merged, Round(r), n) BY <2>3, <2>4, <2>5, TurnLeads
  <2>7. CASE \E p : \E m \in Nat : Round(r) = Running(p, m) /\ \E l \in Int : Goes(C, merged, p, m, l) /\ l <= n
    <3>1. PICK p : \E m \in Nat : Round(r) = Running(p, m) /\ \E l \in Int : Goes(C, merged, p, m, l) /\ l <= n
      BY <2>7, Zenon
    <3>2. PICK m \in Nat : Round(r) = Running(p, m) /\ \E l \in Int : Goes(C, merged, p, m, l) /\ l <= n
      BY <3>1, Zenon
    <3>3. PICK l \in Int : Goes(C, merged, p, m, l) /\ l <= n BY <3>2, Zenon
    <3>4. p \in Seq(C) /\ Going(merged, p, m) /\ Len(p) - m = l BY <3>3 DEF Goes
    <3>5. Round(r) \in Loop(C, merged) /\ Round(r).path = p /\ Round(r).t = m BY <3>2, <3>4, RunningIn
    <3>6. Left(r) \in Int BY <2>2 DEF Left
    <3>7. Left(Round(r)) = l BY <3>4, <3>5 DEF Left
    <3>8. l <= Left(r) - 1 BY <2>5, <3>3, <3>6
    <3> QED BY <1>2, <3>5, <3>7, <3>8
  <2>8. CASE \E p \in Seq(C), m \in Nat, a \in BOOLEAN : Round(r) = Over(p, m, a) /\ Made(merged, p, a)
    <3>1. PICK p \in Seq(C), m \in Nat, a \in BOOLEAN : Round(r) = Over(p, m, a) /\ Made(merged, p, a)
      BY <2>8, Zenon
    <3>2. Over(p, m, a) \in Loop(C, merged) /\ Over(p, m, a).ended BY <3>1, OverIn
    <3> QED BY <1>2, <3>1, <3>2, Zenon
  <2>9. \/ \E p : \E m \in Nat : Round(r) = Running(p, m) /\ \E l \in Int : Goes(C, merged, p, m, l) /\ l <= n
        \/ \E p \in Seq(C), m \in Nat, a \in BOOLEAN : Round(r) = Over(p, m, a) /\ Made(merged, p, a)
    BY <2>6, Zenon DEF Led
  <2> QED BY <2>7, <2>8, <2>9
<1> QED BY <1>1, <1>2

(* The loop ends with the path that is meant. *)
LEMMA SimplifiedMade ==
    ASSUME NEW C, Plain(C), NEW merged \in Seq(C), Len(merged) >= 1, merged[1] = "/"
    PROVE  /\ Simplified(merged).path \in Seq(C)
           /\ Made(merged, Simplified(merged).path, Simplified(merged).appends)
<1> DEFINE N == Len(merged) + 1
           S == Loop(C, merged)
           x == Running(merged, 1)
           Is(r) == r = [n \in 0..N |-> IF n = 0 THEN x ELSE Round(r[n - 1])]
           T == [n \in 1..N |-> [r \in S |-> Round(r)]]
           rounds == CHOOSE r : Is(r)
<1>1. Simplified(merged) = rounds[N] BY DEF Simplified
<1>2. N \in Nat /\ Len(merged) \in Nat /\ Len(merged) = N - 1 OBVIOUS
<1>3. Going(merged, merged, 1)
  <2>1. Undotted(merged, 0) BY DEF Undotted
  <2>2. Alone(merged, 0) BY DEF Alone
  <2>3. Name(merged, 0) = <<>>
    <3>1. 0 \in 0..Len(merged) OBVIOUS
    <3> QED BY <3>1, NameEmpty
  <2>4. <<>> # <<".">> /\ <<>> # <<".", ".">> OBVIOUS
  <2>5. 1 - 1 = 0 /\ 1 \in 1..Len(merged) + 1 /\ ~(1 >= 3) OBVIOUS
  <2> QED BY <2>1, <2>2, <2>3, <2>4, <2>5 DEF Going
<1>4. x \in S /\ ~x.ended /\ Left(x) = N - 2 BY <1>3, RunningIn DEF Left
<1>5. \A r \in S : Round(r) \in S BY RoundLeads
<1> HIDE DEF S, x, N
<1>6. T \in [1..N -> [S -> S]] BY <1>5
<1>7. PICK r : Iterates(r, N, S, x, T)
  <2>1. x \in S BY <1>4
  <2> HIDE DEF T
  <2> QED BY <1>2, <1>6, <2>1, Iterated
<1>8. ASSUME NEW n \in 1..N PROVE r[n - 1] \in S /\ r[n] = Round(r[n - 1])
  <2>1. n - 1 \in 0..N BY <1>2
  <2>2. r[n - 1] \in S /\ r[n] = T[n][r[n - 1]] BY <1>7, <2>1 DEF Iterates
  <2> QED BY <2>2
<1>9. Is(r)
  <2>1. \A n \in 0..N : r[n] = IF n = 0 THEN x ELSE Round(r[n - 1])
    BY <1>2, <1>7, <1>8 DEF Iterates
  <2> QED BY <1>7, <2>1 DEF Iterates
<1>10. Is(rounds) BY <1>9, Zenon
<1> HIDE DEF rounds
<1>11. rounds[0] = x /\ \A n \in 1..N : rounds[n] = Round(rounds[n - 1]) BY <1>2, <1>10
<1>12. \A n \in 0..N : rounds[n] \in S
  <2>1. rounds[0] \in S /\ \A n \in 1..N : rounds[n - 1] \in S => rounds[n] \in S BY <1>4, <1>5, <1>11
  <2> QED BY <1>2, <2>1, Kept
<1> DEFINE Q == {n \in 0..N : rounds[n].ended \/ Left(rounds[n]) <= N - 2 - n}
<1>13. 0..N \subseteq Q
  <2>1. 0 \in Q BY <1>2, <1>4, <1>11
  <2>2. ASSUME NEW n \in 0..N - 1, n \in Q PROVE n + 1 \in Q
    <3>1. PICK m \in 1..N : m = n + 1 /\ m - 1 = n /\ n \in 0..N BY <1>2
    <3>2. rounds[m] = Round(rounds[n]) /\ rounds[n] \in S BY <1>11, <1>12, <3>1
    <3>3. (rounds[n].ended => rounds[m].ended) /\ (rounds[m].ended \/ Left(rounds[m]) <= Left(rounds[n]) - 1)
      BY <3>2, RoundLeads DEF S
    <3>4. rounds[n].ended \/ Left(rounds[n]) <= N - 2 - n BY <2>2
    <3>5. rounds[n].ended \/ rounds[m].ended \/ Left(rounds[m]) <= N - 2 - m
      <4>1. Left(rounds[n]) \in Int /\ Left(rounds[m]) \in Int
        <5>1. \A s \in S : Left(s) \in Int BY DEF S, Loop, Left
        <5>2. m \in 0..N BY <3>1
        <5> QED BY <1>12, <3>1, <5>1, <5>2
      <4> QED BY <1>2, <3>1, <3>3, <3>4, <4>1
    <3>6. rounds[m].ended \/ Left(rounds[m]) <= N - 2 - m BY <3>3, <3>5
    <3> QED BY <3>1, <3>6
  <2> HIDE DEF Q
  <2> QED BY <1>2, <2>1, <2>2, Induction
<1>14. rounds[N] \in S /\ (rounds[N].ended \/ Left(rounds[N]) <= N - 2 - N)
  <2>1. N \in 0..N BY <1>2
  <2> QED BY <1>12, <1>13, <2>1
<1>15. rounds[N].ended
  <2> SUFFICES ASSUME ~rounds[N].ended PROVE FALSE
    OBVIOUS
  <2>1. rounds[N].t \in 1..Len(rounds[N].path) + 1 /\ rounds[N].path \in Seq(C) BY <1>14 DEF S, Loop, Going
  <2>2. Left(rounds[N]) >= -1 BY <2>1 DEF Left
  <2>3. N - 2 - N = -2 BY <1>2
  <2>4. Left(rounds[N]) \in Int BY <2>1 DEF Left
  <2> QED BY <1>14, <2>2, <2>3, <2>4
<1>16. rounds[N].path \in Seq(C) /\ Made(merged, rounds[N].path, rounds[N].appends)
  BY <1>14, <1>15 DEF S, Loop
<1> QED BY <1>1, <1>16

(* The server's end of it. *)
LEMMA JunkedText ==
    ASSUME NEW C, NEW str \in Seq(C), NEW n \in 0..Len(str), \A i \in 1..n : str[i] # NL,
           n = Len(str) \/ str[n + 1] = NL
    PROVE  Junked(str) = Head0(str, n)
<1> DEFINE next == NextOf(str, 1, {NL})
<1>1. /\ next \in 1..Len(str) + 1
      /\ next = Len(str) + 1 \/ str[next] = NL
      /\ \A i \in 1..next - 1 : str[i] # NL
  <2>1. 1 \in 1..Len(str) + 1 OBVIOUS
  <2> QED BY <2>1, NextOfIs
<1> HIDE DEF next
<1>2. next = n + 1
  <2>1. ~(next <= n)
    <3> SUFFICES ASSUME next <= n PROVE FALSE
      OBVIOUS
    <3>1. next \in 1..n /\ next # Len(str) + 1 BY <1>1
    <3> QED BY <1>1, <3>1
  <2>2. ~(next > n + 1)
    <3> SUFFICES ASSUME next > n + 1 PROVE FALSE
      OBVIOUS
    <3>1. n + 1 \in 1..next - 1 /\ n # Len(str) BY <1>1
    <3> QED BY <1>1, <3>1
  <2> QED BY <1>1, <2>1, <2>2
<1>3. next - 1 = n BY <1>2
<1> QED BY <1>3 DEF Junked, next

LEMMA PasswordIs ==
    ASSUME NEW C, NEW str \in Seq(C), NEW n \in 0..Len(str), \A i \in n + 1..Len(str) : str[i] # NL,
           n = 0 \/ str[n] = NL
    PROVE  Password(str) = IF n = 0 THEN <<>> ELSE Tail0(str, n + 1)
<1> DEFINE D == 0..Len(str)
           Is(k) == (k = 0 \/ str[k] \in {NL}) /\ \A i \in k + 1..Len(str) : str[i] \notin {NL}
           last == CHOOSE k \in D : Is(k)
<1>1. n \in D /\ Is(n) OBVIOUS
<1>2. last \in D /\ Is(last)
  <2> HIDE DEF D, Is
  <2> QED BY <1>1, Zenon
<1>3. LastOf(str, Len(str), {NL}) = last BY DEF LastOf
<1> HIDE DEF last
<1>4. last = n
  <2>1. ~(last < n)
    <3> SUFFICES ASSUME last < n PROVE FALSE
      OBVIOUS
    <3>1. n \in last + 1..Len(str) /\ n # 0 BY <1>2
    <3> QED BY <1>2, <3>1
  <2>2. ~(n < last)
    <3> SUFFICES ASSUME n < last PROVE FALSE
      OBVIOUS
    <3>1. last \in n + 1..Len(str) /\ last # 0 BY <1>2
    <3> QED BY <1>2, <3>1
  <2> QED BY <1>2, <2>1, <2>2
<1> QED BY <1>3, <1>4 DEF Password

LEMMA TailIs ==
    ASSUME NEW C, NEW path \in Seq(C), Len(path) >= 1
    PROVE  /\ Tail(path) \in Seq(C) /\ Len(Tail(path)) = Len(path) - 1
           /\ \A i \in 1..Len(path) - 1 : Tail(path)[i] = path[i + 1]
           /\ Tail(path) = Tail0(path, 2)
<1>1. path # <<>> OBVIOUS
<1>2. /\ Tail(path) \in Seq(C) /\ Len(Tail(path)) = Len(path) - 1
      /\ \A i \in 1..Len(path) - 1 : Tail(path)[i] = path[i + 1]
  BY <1>1
<1>3. Tail(path) = Tail0(path, 2)
  <2> DEFINE a == Tail(path)
             b == SubSeq(path, 2, Len(path))
  <2>1. b \in Seq(C) /\ Len(b) = Len(path) - 1 /\ \A i \in 1..Len(path) - 1 : b[i] = path[i + 1]
    <3>1. b \in Seq(C) /\ Len(b) = Len(path) - 2 + 1 /\ \A i \in 1..Len(path) - 2 + 1 : b[i] = path[2 + i - 1]
      <4>1. PICK n \in Nat : n = Len(path) OBVIOUS
      <4>2. 2 \in Int /\ n \in Int /\ \A i \in 2..n : path[i] \in C BY <4>1
      <4>3. /\ SubSeq(path, 2, n) \in Seq(C)
            /\ Len(SubSeq(path, 2, n)) = IF 2 <= n THEN n - 2 + 1 ELSE 0
            /\ \A i \in 1..n - 2 + 1 : SubSeq(path, 2, n)[i] = path[2 + i - 1]
        BY <4>2, SubSeqProperties
      <4>4. 2 <= n \/ n - 2 + 1 = 0 BY <4>1
      <4> QED BY <4>1, <4>3, <4>4
    <3>2. Len(path) - 2 + 1 = Len(path) - 1 /\ \A i \in 1..Len(path) - 1 : 2 + i - 1 = i + 1 OBVIOUS
    <3> QED BY <3>1, <3>2
  <2>2. a \in Seq(C) /\ Len(a) = Len(path) - 1 /\ \A i \in 1..Len(path) - 1 : a[i] = path[i + 1] BY <1>2
  <2> HIDE DEF a, b
  <2>3. a = b BY <2>1, <2>2
  <2> QED BY <2>3 DEF a, b, Tail0
<1> QED BY <1>2, <1>3

(* The names of a walk have no slash. *)
LEMMA NamesPlain ==
    ASSUME NEW C, NEW path \in Seq(C), NEW n \in 0..Len(path)
    PROVE  \A i \in 1..Len(Name(path, n)) : Name(path, n)[i] # "/"
<1> DEFINE Is(k) == \A i \in 1..Len(Name(path, k)) : Name(path, k)[i] # "/"
           Q == {k \in 0..n : Is(k)}
<1>1. 0 \in Q
  <2>1. Name(path, 0) = <<>>
    <3>1. 0 \in 0..Len(path) OBVIOUS
    <3> QED BY <3>1, NameEmpty
  <2>2. Is(0) BY <2>1
  <2> HIDE DEF Is
  <2> QED BY <2>2
<1>2. ASSUME NEW k \in 0..n - 1, k \in Q PROVE k + 1 \in Q
  <2>1. PICK m \in 1..Len(path) : m = k + 1 /\ m - 1 = k /\ m \in 0..n /\ m \in 0..Len(path) /\ m > 0 /\ k \in 0..Len(path)
    OBVIOUS
  <2>2. CASE path[m] = "/"
    <3>1. Name(path, m) = <<>> BY <2>1, <2>2, NameEmpty
    <3>2. Is(m) BY <3>1
    <3> HIDE DEF Is
    <3> QED BY <2>1, <3>2
  <2>3. CASE path[m] # "/"
    <3> DEFINE s == Name(path, k)
    <3>1. Name(path, m) = Append(s, path[m]) BY <2>1, <2>3, NameEmpty
    <3>2. s \in Seq(C) /\ path[m] \in C BY <2>1, NameEmpty
    <3>3. \A i \in 1..Len(s) : s[i] # "/" BY <1>2
    <3> HIDE DEF s
    <3>4. \A i \in 1..Len(s) + 1 : Append(s, path[m])[i] # "/" BY <2>3, <3>2, <3>3
    <3>5. Len(Append(s, path[m])) = Len(s) + 1 BY <3>2, AppendProperties
    <3>6. Is(m) BY <3>1, <3>4, <3>5
    <3> HIDE DEF Is
    <3> QED BY <2>1, <3>6
  <2> QED BY <2>2, <2>3
<1>3. 0..n \subseteq Q
  <2>1. n \in Nat /\ \A k \in 0..n - 1 : k \in Q => k + 1 \in Q BY <1>2
  <2> HIDE DEF Q
  <2> QED BY <1>1, <2>1, Induction
<1>4. n \in Q
  <2>1. n \in 0..n OBVIOUS
  <2> HIDE DEF Q
  <2> QED BY <1>3, <2>1
<1> QED BY <1>4

(* What is refused has a hidden name. *)
HiddenName(name) == name # <<>> /\ name[1] \in {".", "\\"}
HiddenWalk(w) == HasHidden(w.dirs) \/ HiddenName(w.name)

LEMMA HiddenStays ==
    ASSUME NEW C, NEW w \in Walked(C), NEW c \in C, HiddenWalk(w)
    PROVE  HiddenWalk(Pass(w, c, {}))
<1> DEFINE v == Pass(w, c, {})
<1>1. w.dirs \in Seq(Seq(C)) /\ w.name \in Seq(C) BY DEF Walked
<1>2. CASE c # "/"
  <2>1. v.dirs = w.dirs /\ v.name = Append(w.name, c) BY <1>2 DEF Pass, Walked
  <2>2. HiddenName(w.name) => HiddenName(Append(w.name, c))
    <3> DEFINE s == w.name
    <3> SUFFICES ASSUME HiddenName(s) PROVE HiddenName(Append(s, c))
      OBVIOUS
    <3>1. s \in Seq(C) BY <1>1
    <3> HIDE DEF s
    <3>2. Len(s) >= 1 /\ s[1] \in {".", "\\"} BY <3>1 DEF HiddenName
    <3>3. Append(s, c)[1] = s[1] /\ Append(s, c) # <<>> BY <3>1, <3>2
    <3> QED BY <3>2, <3>3 DEF HiddenName
  <2> HIDE DEF v
  <2>3. HiddenWalk(v) BY <2>1, <2>2 DEF HiddenWalk
  <2> QED BY <2>3 DEF v
<1>3. CASE c = "/"
  <2>1. v.dirs = Enter(w.dirs, w.name, {}) BY <1>3 DEF Pass
  <2>2. (v.dirs = w.dirs /\ w.name = <<>>) \/ v.dirs = Append(w.dirs, w.name) BY <2>1 DEF Enter
  <2> HIDE DEF v
  <2>3. CASE v.dirs = w.dirs /\ w.name = <<>> BY <2>3 DEF HiddenWalk, HiddenName, v
  <2>4. CASE v.dirs = Append(w.dirs, w.name)
    <3> DEFINE d == w.dirs
               s == w.name
               S == Seq(C)
    <3>1. d \in Seq(S) /\ s \in S BY <1>1
    <3>2. HasHidden(d) \/ HiddenName(s) BY DEF HiddenWalk
    <3> HIDE DEF d, s, S
    <3>3. Len(d) \in Nat /\ Len(Append(d, s)) = Len(d) + 1 /\ Append(d, s)[Len(d) + 1] = s
          /\ \A i \in 1..Len(d) : Append(d, s)[i] = d[i]
      BY <3>1, AppendProperties
    <3>4. DOMAIN d = 1..Len(d) /\ DOMAIN Append(d, s) = 1..Len(d) + 1
      BY <3>1
    <3>5. CASE HasHidden(d)
      <4>1. PICK i \in 1..Len(d) : d[i][1] \in {".", "\\"} BY <3>4, <3>5 DEF HasHidden
      <4>2. i \in 1..Len(d) + 1 /\ Append(d, s)[i][1] \in {".", "\\"} BY <3>3, <4>1
      <4>3. HasHidden(Append(d, s)) BY <3>4, <4>2 DEF HasHidden
      <4> QED BY <2>4, <4>3 DEF HiddenWalk, v, d, s
    <3>6. CASE HiddenName(s)
      <4>1. Len(d) + 1 \in 1..Len(d) + 1 /\ Append(d, s)[Len(d) + 1][1] \in {".", "\\"}
        BY <3>3, <3>6 DEF HiddenName
      <4>2. HasHidden(Append(d, s)) BY <3>4, <4>1 DEF HasHidden
      <4> QED BY <2>4, <4>2 DEF HiddenWalk, v, d, s
    <3> QED BY <3>2, <3>5, <3>6
  <2> QED BY <2>2, <2>3, <2>4 DEF v
<1> QED BY <1>2, <1>3

LEMMA RefusedHidden ==
    ASSUME NEW C, Plain(C), NEW text \in Seq(C), Scanned(text, Len(text)).refused
    PROVE  HasHidden(Components(text))
<1> DEFINE N == Len(text)
           Is(s) == HiddenWalk(Walk(text, s, {}))
           Seeing(s) == Seen(text, s, Scanned(text, s), Walk(text, s, {}))
           Q == {s \in 0..N : IF Scanned(text, s).refused THEN Is(s) ELSE Seeing(s)}
<1>1. N \in Nat OBVIOUS
<1>2. 0 \in Q
  <2>1. Scanned(text, 0) = [state |-> 0, full |-> 1, d_len |-> 0, f |-> 1, refused |-> FALSE]
        /\ Walk(text, 0, {}) = [dirs |-> <<>>, name |-> <<>>]
    BY ScannedIs, WalkIs
  <2>2. PICK q, w, b : /\ q = Scanned(text, 0) /\ w = Walk(text, 0, {}) /\ ~b
                       /\ q = [state |-> 0, full |-> 1, d_len |-> 0, f |-> 1, refused |-> b]
                       /\ w = [dirs |-> <<>>, name |-> <<>>]
    BY <2>1, Zenon
  <2>3. q.state = 0 /\ q.full = 1 /\ q.d_len = 0 /\ q.f = 1 /\ ~q.refused /\ w.dirs = <<>> /\ w.name = <<>>
    <3>1. \A p : p = [state |-> 0, full |-> 1, d_len |-> 0, f |-> 1, refused |-> b] =>
                     p.state = 0 /\ p.full = 1 /\ p.d_len = 0 /\ p.f = 1 /\ p.refused = b
      OBVIOUS
    <3>2. \A p : p = [dirs |-> <<>>, name |-> <<>>] => p.dirs = <<>> /\ p.name = <<>> OBVIOUS
    <3> QED BY <2>2, <3>1, <3>2, Zenon
  <2>4. Seen(text, 0, q, w)
    <3>1. \A i \in 1..0 : text[i] = "/" OBVIOUS
    <3>2. SubSeq(text, 1, 0) = <<>> OBVIOUS
    <3>3. ~HasHidden(<<>>) BY DEF HasHidden
    <3> QED BY <2>3, <3>1, <3>2, <3>3 DEF Seen
  <2>5. ~Scanned(text, 0).refused /\ Seeing(0) BY <2>2, <2>3, <2>4, Zenon
  <2>6. 0 \in 0..N BY <1>1
  <2> HIDE DEF Is, Seeing
  <2> QED BY <2>5, <2>6
<1>3. ASSUME NEW s \in 0..N - 1, s \in Q PROVE s + 1 \in Q
  <2>1. PICK n : n = s + 1 /\ n \in 1..N /\ n - 1 = s /\ n - 1 \in 0..N OBVIOUS
  <2> DEFINE q == Scanned(text, s)
             w == Walk(text, s, {})
             c == text[n]
  <2>2. /\ q \in ScanState /\ w \in Walked(C) /\ c \in C
        /\ Scanned(text, n) = Scan(q, c, n) /\ Walk(text, n, {}) = Pass(w, c, {})
    <3>1. /\ \A i \in 0..N : Scanned(text, i) \in ScanState
          /\ \A i \in 0..N : Walk(text, i, {}) \in Walked(C)
          /\ \A i \in 1..N : Scanned(text, i) = Scan(Scanned(text, i - 1), text[i], i)
          /\ \A i \in 1..N : Walk(text, i, {}) = Pass(Walk(text, i - 1, {}), text[i], {})
      BY ScannedIs, WalkIs
    <3>2. s \in 0..N /\ text[n] \in C BY <2>1
    <3> QED BY <2>1, <3>1, <3>2
  <2>3. CASE q.refused
    <3>1. Scanned(text, n).refused
      <4> HIDE DEF q
      <4>1. Scan(q, c, n) = [q EXCEPT !.refused = TRUE] BY <2>3 DEF Scan
      <4> QED BY <2>2, <4>1 DEF ScanState
    <3>2. HiddenWalk(w) BY <1>3, <2>3
    <3>3. Is(n)
      <4> HIDE DEF w
      <4> QED BY <2>2, <3>2, HiddenStays
    <3> HIDE DEF Is, Seeing
    <3> QED BY <2>1, <3>1, <3>3
  <2>4. CASE ~q.refused
    <3>1. Seen(text, s, q, w) BY <1>3, <2>4
    <3>2. CASE ~Scanned(text, n).refused
      <4>1. Seen(text, n - 1, q, w) BY <2>1, <3>1
      <4>2. ~Scan(q, text[n], n).refused BY <2>2, <3>2
      <4>3. n \in 1..Len(text) /\ q \in ScanState /\ w \in Walked(C) BY <2>1, <2>2
      <4> HIDE DEF q, w
      <4>4. Seen(text, n, Scan(q, text[n], n), Pass(w, text[n], {})) BY <4>1, <4>2, <4>3, SeenOn
      <4>5. Seeing(n) BY <2>2, <4>4
      <4> HIDE DEF Is, Seeing
      <4> QED BY <2>1, <3>2, <4>5
    <3>3. CASE Scanned(text, n).refused
      <4> HIDE DEF q, w, c
      <4>1. Hidden(c, q.state)
        <5> SUFFICES ASSUME ~Hidden(c, q.state) PROVE FALSE
          OBVIOUS
        <5>1. c \notin {CTL, TOP} BY <2>2 DEF Plain
        <5>2. \/ Scan(q, c, n) = [q EXCEPT !.state = 1]
              \/ Scan(q, c, n) = [q EXCEPT !.full = n + 1, !.d_len = 0, !.f = n + 1]
              \/ Scan(q, c, n) = [q EXCEPT !.state = 2, !.d_len = n - q.full, !.f = n + 1]
              \/ Scan(q, c, n) = [q EXCEPT !.f = n + 1]
          BY <2>4, <5>1 DEF Scan
        <5>3. \A x : [q EXCEPT !.state = x].refused = q.refused BY <2>2 DEF ScanState
        <5>4. [q EXCEPT !.full = n + 1, !.d_len = 0, !.f = n + 1].refused = q.refused BY <2>2 DEF ScanState
        <5>5. [q EXCEPT !.state = 2, !.d_len = n - q.full, !.f = n + 1].refused = q.refused BY <2>2 DEF ScanState
        <5>6. [q EXCEPT !.f = n + 1].refused = q.refused BY <2>2 DEF ScanState
        <5>7. Scan(q, c, n).refused = q.refused BY <5>2, <5>3, <5>4, <5>5, <5>6, Zenon
        <5> QED BY <2>2, <2>4, <3>3, <5>7
      <4>2. c \in {".", "\\"} /\ q.state \in {0, 2} BY <4>1 DEF Hidden
      <4>3. w.name = <<>>
        <5>1. w.name = SubSeq(text, q.f, s) /\ q.f = s + 1 BY <3>1, <4>2 DEF Seen
        <5> QED BY <5>1
      <4>4. Pass(w, c, {}).name = Append(<<>>, c)
        <5>1. c # "/" BY <4>2
        <5> QED BY <2>2, <4>3, <5>1 DEF Pass, Walked
      <4>5. HiddenName(Append(<<>>, c))
        <5>1. <<>> \in Seq(C) /\ Len(<<>>) = 0 OBVIOUS
        <5>2. Append(<<>>, c) # <<>> /\ Append(<<>>, c)[1] = c BY <2>2, <5>1
        <5> QED BY <4>2, <5>2 DEF HiddenName
      <4>6. Is(n) BY <2>2, <4>4, <4>5 DEF HiddenWalk
      <4> HIDE DEF Is, Seeing
      <4> QED BY <2>1, <3>3, <4>6
    <3> QED BY <3>2, <3>3
  <2> QED BY <2>3, <2>4
<1>4. 0..N \subseteq Q
  <2> HIDE DEF Q, N
  <2> QED BY <1>1, <1>2, <1>3, Induction
<1>5. N \in Q
  <2>1. N \in 0..N BY <1>1
  <2> HIDE DEF Q, N
  <2> QED BY <1>4, <2>1
<1>6. HiddenWalk(Walk(text, N, {})) BY <1>5
<1> DEFINE w == Walk(text, N, {})
<1>7. w \in Walked(C)
  <2>1. N \in 0..N BY <1>1
  <2> QED BY <2>1, WalkIs
<1>8. Components(text) = Pass(w, "/", {}).dirs
  <2>1. Components(text) = Enter(w.dirs, w.name, {}) BY DEF Components, Dirs
  <2> HIDE DEF w
  <2>2. Pass(w, "/", {}) = [dirs |-> Enter(w.dirs, w.name, {}), name |-> <<>>] BY DEF Pass
  <2> DEFINE d == Enter(w.dirs, w.name, {})
  <2> HIDE DEF d
  <2>3. [dirs |-> d, name |-> <<>>].dirs = d OBVIOUS
  <2> QED BY <2>1, <2>2, <2>3 DEF d
<1>9. w \in Walked(C \cup {"/"})
  <2>1. w.dirs \in Seq(Seq(C)) /\ w.name \in Seq(C) BY <1>7 DEF Walked
  <2>2. w = [dirs |-> w.dirs, name |-> w.name] BY <1>7 DEF Walked
  <2> HIDE DEF w
  <2> DEFINE D == C \cup {"/"}
  <2>3. C \subseteq D OBVIOUS
  <2> HIDE DEF D
  <2>4. Seq(C) \subseteq Seq(D) BY <2>3, SeqMonotonic
  <2> DEFINE S == Seq(C)
             R == Seq(D)
  <2>5. w.dirs \in Seq(S) /\ S \subseteq R /\ w.name \in R BY <2>1, <2>4
  <2> HIDE DEF S, R
  <2>6. w.dirs \in Seq(R) BY <2>5, SeqMonotonic
  <2>7. [dirs |-> w.dirs, name |-> w.name] \in [dirs : Seq(R), name : R] BY <2>5, <2>6
  <2> QED BY <2>2, <2>7 DEF Walked, R, D
<1>10. HiddenWalk(Pass(w, "/", {}))
  <2> DEFINE D == C \cup {"/"}
  <2>1. "/" \in D OBVIOUS
  <2> HIDE DEF w, D
  <2> QED BY <1>6, <1>9, <2>1, HiddenStays DEF w, D
<1>11. ~HiddenName(Pass(w, "/", {}).name)
  <2> HIDE DEF w
  <2>1. \A d : [dirs |-> d, name |-> <<>>].name = <<>> OBVIOUS
  <2>2. Pass(w, "/", {}).name = <<>> BY <2>1 DEF Pass
  <2> QED BY <2>2 DEF HiddenName
<1> QED BY <1>8, <1>10, <1>11 DEF HiddenWalk

Apart(text) == \A i \in 1..Len(text) - 1 : ~(text[i] = "/" /\ text[i + 1] = "/")
Shows(pp, meant) == /\ Components(Work(pp)) = meant
                    /\ pp.file = Last(meant)
                    /\ Len(meant) > 1 => Components(pp.dir) = Front(meant)

LEMMA LastIs ==
    ASSUME NEW S, NEW dirs \in Seq(S), NEW name \in S
    PROVE  /\ Last(Append(dirs, name)) = name /\ Front(Append(dirs, name)) = dirs
           /\ Len(Append(dirs, name)) = Len(dirs) + 1
<1>1. Len(Append(dirs, name)) = Len(dirs) + 1 /\ Append(dirs, name)[Len(dirs) + 1] = name
  BY AppendProperties
<1>2. SubSeq(Append(dirs, name), 1, Len(Append(dirs, name)) - 1) = dirs BY LastLeft
<1> DEFINE a == Append(dirs, name)
<1> HIDE DEF a
<1>3. Last(a) = a[Len(a)] /\ Front(a) = SubSeq(a, 1, Len(a) - 1) BY DEF Last, Front
<1> QED BY <1>1, <1>2, <1>3 DEF a

LEMMA ParsedMeant ==
    ASSUME NEW C, NEW text \in Seq(C), ~Scanned(text, Len(text)).refused, NEW passwd,
           NEW q, q = Scanned(text, Len(text)),
           Apart(text), text[Len(text)] = "/" => Components(text) = <<>>, Components(text) # <<>>
    PROVE  Shows(Ppath(text, q.full, q.d_len, q.f, passwd), Components(text))
<1> DEFINE N == Len(text)
           w == Walk(text, N, {})
           pp == Ppath(text, q.full, q.d_len, q.f, passwd)
           name == Tail0(text, q.full)
           meant == Components(text)
<1>0. N \in Nat /\ N \in 0..N OBVIOUS
<1>1. q \in ScanState /\ w \in Walked(C)
  <2>1. \A s \in 0..N : Scanned(text, s) \in ScanState /\ Walk(text, s, {}) \in Walked(C)
    BY ScannedIs, WalkIs
  <2> QED BY <1>0, <2>1
<1>2. q.state \in 0..2 /\ q.full \in Nat /\ q.d_len \in Int /\ q.f \in Nat BY <1>1 DEF ScanState
<1>3. w.dirs \in Seq(Seq(C)) /\ w.name \in Seq(C) BY <1>1 DEF Walked
<1>4. Seen(text, N, q, w) BY ScannedSeen
<1>5. meant = Enter(w.dirs, w.name, {}) BY DEF Components, Dirs
<1>6. q.state = 1
  <2>1. q.state # 0
    <3> SUFFICES ASSUME q.state = 0 PROVE FALSE
      OBVIOUS
    <3>1. \A i \in 1..N : text[i] = "/" BY <1>4 DEF Seen
    <3>2. w = [dirs |-> <<>>, name |-> <<>>] BY <1>0, <3>1, WalkSlashes
    <3>3. \A v : v = [dirs |-> <<>>, name |-> <<>>] => v.dirs = <<>> /\ v.name = <<>> OBVIOUS
    <3>4. w.dirs = <<>> /\ w.name = <<>> BY <3>2, <3>3, Zenon
    <3>5. meant = <<>> BY <1>5, <3>4 DEF Enter
    <3> QED BY <3>5
  <2>2. q.state # 2
    <3> SUFFICES ASSUME q.state = 2 PROVE FALSE
      OBVIOUS
    <3>1. q.f = N + 1 /\ q.full \in 1..N BY <1>4 DEF Seen
    <3>2. Name(text, N) = <<>>
      <4>1. w.name = SubSeq(text, N + 1, N) BY <1>4, <3>1 DEF Seen
      <4>2. SubSeq(text, N + 1, N) = <<>>
        <5>1. \A n \in Nat : n + 1 \in Int /\ n \in Int /\ n + 1 > n OBVIOUS
        <5>2. \A n \in Nat : SubSeq(text, n + 1, n) = <<>> BY <5>1, SubSeqEmpty
        <5> QED BY <1>0, <5>2
      <4> QED BY <4>1, <4>2 DEF Name
    <3>3. N = 0 \/ text[N] = "/" BY <1>0, <3>2, NameEmpty
    <3>4. N # 0 BY <1>2, <3>1
    <3> QED BY <3>3, <3>4
  <2> QED BY <1>2, <2>1, <2>2
<1> DEFINE f == q.f
           full == q.full
<1>7. /\ f \in 1..N /\ full \in 1..N /\ text[full] # "/" /\ Split(text, q)
      /\ \A i \in 1..full - 1 : text[i] = "/"
  BY <1>2, <1>4, <1>6 DEF Seen
<1>8. w.name = SubSeq(text, f, N) BY <1>4 DEF Seen
<1>9. meant = Append(w.dirs, w.name)
  <2>1. w.name # <<>>
    <3>1. Len(SubSeq(text, f, N)) = N - f + 1
      <4>1. PICK n \in 1..Len(text) : n = f BY <1>7
      <4>2. Len(SubSeq(text, n, Len(text))) = Len(text) - n + 1 OBVIOUS
      <4> QED BY <4>1, <4>2
    <3>2. N - f + 1 # 0 BY <1>0, <1>7
    <3>3. Len(w.name) # 0 BY <1>8, <3>1, <3>2
    <3> QED BY <3>3
  <2> QED BY <1>5, <2>1 DEF Enter
<1>10. Last(meant) = w.name /\ Front(meant) = w.dirs /\ Len(meant) = Len(w.dirs) + 1
  <2> DEFINE S == Seq(C)
  <2>1. w.dirs \in Seq(S) /\ w.name \in S BY <1>3
  <2> HIDE DEF S, w, meant
  <2> QED BY <1>9, <2>1, LastIs
<1>11. pp.file = w.name
  <2>1. pp.file = IF Tail0(text, f) = <<>> THEN <<".">> ELSE Tail0(text, f) BY DEF Ppath
  <2>2. Tail0(text, f) = w.name BY <1>8 DEF Tail0
  <2>3. w.name # <<>>
    <3>1. Len(SubSeq(text, f, N)) = N - f + 1
      <4>1. PICK n \in 1..Len(text) : n = f BY <1>7
      <4>2. Len(SubSeq(text, n, Len(text))) = Len(text) - n + 1 OBVIOUS
      <4> QED BY <4>1, <4>2
    <3>2. N - f + 1 # 0 BY <1>0, <1>7
    <3>3. Len(w.name) # 0 BY <1>8, <3>1, <3>2
    <3> QED BY <3>3
  <2> QED BY <2>1, <2>2, <2>3
<1>12. /\ name \in Seq(C) /\ Len(name) = N - full + 1 /\ name # <<>>
       /\ \A i \in 1..N - full + 1 : name[i] = text[full + i - 1]
  <2>1. PICK n \in 1..Len(text) : n = full BY <1>7
  <2>2. name = SubSeq(text, n, Len(text)) BY <2>1 DEF Tail0
  <2> HIDE DEF name
  <2>3. name \in Seq(C) /\ Len(name) = Len(text) - n + 1
        /\ \A i \in 1..Len(text) - n + 1 : name[i] = text[n + i - 1]
    BY <2>2
  <2>4. name # <<>> BY <2>3
  <2> QED BY <2>1, <2>3, <2>4
<1>13. pp.fullp = name
  <2>1. pp.fullp = IF name = <<>> THEN <<".">> ELSE name BY DEF Ppath
  <2> QED BY <1>12, <2>1
<1>14. Components(name) = meant
  <2>1. PICK n : n = q.full - 1 /\ n + 1 = q.full /\ n \in 0..N BY <1>7
  <2>2. Dirs(Tail0(text, n + 1), {}) = Dirs(text, {}) BY <1>7, <2>1, SlashesSkipped
  <2> QED BY <2>1, <2>2 DEF Components
<1>15. Components(Work(pp)) = meant
  <2>1. Guarded(text, pp) BY ParsedGuarded
  <2> HIDE DEF name, pp, meant
  <2>2. ~ \E i \in 1..Len(name) - 1 : name[i] = "/" /\ name[i + 1] = "/"
    <3> SUFFICES ASSUME NEW i \in 1..Len(name) - 1, name[i] = "/", name[i + 1] = "/" PROVE FALSE
      OBVIOUS
    <3> HIDE DEF N, f, full
    <3>1. i \in 1..N - full + 1 /\ i + 1 \in 1..N - full + 1 BY <1>0, <1>7, <1>12
    <3>2. name[i] = text[full + i - 1] /\ name[i + 1] = text[full + (i + 1) - 1] BY <1>12, <3>1
    <3>3. PICK j : j = full + i - 1 /\ j + 1 = full + (i + 1) - 1 /\ j \in 1..N - 1 BY <1>0, <1>7, <3>1
    <3> QED BY <3>2, <3>3 DEF Apart, N
  <2> QED BY <1>13, <1>14, <2>1, <2>2 DEF Guarded
<1>16. NoSlash(text, f - 1, N)
  <2>1. \A i \in 1..Len(w.name) : w.name[i] # "/"
    <3>1. \A i \in 1..Len(Name(text, N)) : Name(text, N)[i] # "/" BY <1>0, NamesPlain
    <3> QED BY <3>1 DEF Name
  <2> SUFFICES ASSUME NEW i \in f..N PROVE text[i] # "/"
    BY <1>7 DEF NoSlash
  <2>2. PICK n \in 1..Len(text) : n = f BY <1>7
  <2> DEFINE s == SubSeq(text, n, Len(text))
  <2>3. Len(s) = N - n + 1 /\ \A j \in 1..N - n + 1 : s[j] = text[n + j - 1] OBVIOUS
  <2>4. w.name = s BY <1>8, <2>2
  <2> HIDE DEF s, w
  <2>5. i - n + 1 \in 1..N - n + 1 /\ n + (i - n + 1) - 1 = i BY <2>2
  <2>6. s[i - n + 1] = text[n + (i - n + 1) - 1] BY <2>3, <2>5
  <2> QED BY <2>1, <2>3, <2>4, <2>5, <2>6
<1>17. PICK g \in 0..N : g = f - 1 /\ g + 1 = f BY <1>7
<1>18. ASSUME Walk(text, g, {}).name = <<>> PROVE w.dirs = Walk(text, g, {}).dirs
  <2>1. NoSlash(text, g, N) /\ g \in 0..Len(text) /\ N \in g..Len(text) BY <1>0, <1>16, <1>17
  <2>2. w = [dirs |-> Walk(text, g, {}).dirs, name |-> SubSeq(text, g + 1, N)] BY <1>18, <2>1, WalkAlongName
  <2> DEFINE d == Walk(text, g, {}).dirs
             e == SubSeq(text, g + 1, N)
  <2> HIDE DEF d, e, w
  <2>3. \A v : v = [dirs |-> d, name |-> e] => v.dirs = d OBVIOUS
  <2>4. w.dirs = d BY <2>2, <2>3 DEF d, e
  <2> QED BY <2>4 DEF d
<1>19. ASSUME Len(meant) > 1 PROVE Components(pp.dir) = w.dirs
  <2>1. ~(q.d_len = 0 /\ f = full)
    <3> SUFFICES ASSUME f = full PROVE FALSE
      OBVIOUS
    <3>1. \A i \in 1..g : text[i] = "/" BY <1>7, <1>17
    <3>2. Walk(text, g, {}) = [dirs |-> <<>>, name |-> <<>>] BY <1>17, <3>1, WalkSlashes
    <3>3. \A v : v = [dirs |-> <<>>, name |-> <<>>] => v.dirs = <<>> /\ v.name = <<>> OBVIOUS
    <3>4. Walk(text, g, {}).dirs = <<>> /\ Walk(text, g, {}).name = <<>> BY <3>2, <3>3, Zenon
    <3>5. w.dirs = <<>> BY <1>18, <3>4
    <3>6. Len(<<>>) = 0 OBVIOUS
    <3> HIDE DEF w, meant
    <3> QED BY <1>10, <1>19, <3>5, <3>6
  <2>2. /\ q.d_len >= 1 /\ full + q.d_len < f
        /\ \A i \in full + q.d_len..f - 1 : text[i] = "/"
    BY <1>7, <2>1 DEF Split
  <2> HIDE DEF N, f, full
  <2>3. PICK e \in 1..N, d \in 1..N :
            d = q.d_len /\ e = full + d - 1 /\ e + 1 = full + d /\ e \in 0..N /\ full <= e
    <3>1. PICK d \in Int : d = q.d_len /\ d >= 1 /\ full + d < f BY <1>2, <2>2
    <3>2. d \in 1..N /\ full + d - 1 \in 1..N /\ full + d - 1 + 1 = full + d /\ full + d - 1 \in 0..N
          /\ full <= full + d - 1
      BY <1>0, <1>7, <3>1
    <3>3. \E e \in 1..N : e = full + d - 1 /\ e + 1 = full + d /\ e \in 0..N /\ full <= e BY <3>2
    <3> QED BY <3>1, <3>2, <3>3
  <2>4. e + 1 = g
    <3> SUFFICES ASSUME e + 1 # g PROVE FALSE
      OBVIOUS
    <3>0a. e + 1 # g OBVIOUS
    <3>0. e + 1 < g
      <4>1. full + d < f /\ e + 1 = full + d /\ f = g + 1 /\ f \in Nat /\ full \in Nat /\ g \in Int /\ e \in Int
        BY <1>0, <1>7, <1>17, <2>2, <2>3
      <4> QED BY <3>0a, <4>1
    <3>1. e + 1 \in full + q.d_len..f - 1 /\ e + 2 \in full + q.d_len..f - 1 /\ e + 1 \in 1..N - 1
      <4>1. e + 1 = full + q.d_len /\ f - 1 = g /\ g <= N /\ g \in Nat /\ e \in Nat /\ N \in Nat
        BY <1>0, <1>7, <1>17, <2>3
      <4>2. e + 1 \in e + 1..g /\ e + 2 \in e + 1..g /\ e + 1 \in 1..N - 1 BY <3>0, <4>1
      <4> QED BY <4>1, <4>2
    <3>2. text[e + 1] = "/" /\ text[(e + 1) + 1] = "/"
      <4>1. (e + 1) + 1 = e + 2 BY <2>3
      <4> QED BY <2>2, <3>1, <4>1
    <3> QED BY <3>1, <3>2 DEF Apart, N
  <2>5. g \in 1..N /\ text[g] = "/"
    <3>1. g \in full + q.d_len..f - 1
      <4>1. full + q.d_len = g /\ f - 1 = g /\ g \in Int BY <1>7, <1>17, <2>3, <2>4
      <4> QED BY <4>1
    <3> QED BY <1>17, <2>2, <2>3, <2>4, <3>1
  <2> DEFINE D == Enter(Walk(text, e, {}).dirs, Walk(text, e, {}).name, {})
  <2>6. Walk(text, g, {}) = [dirs |-> D, name |-> <<>>]
    <3>1. g - 1 = e BY <2>3, <2>4
    <3>2. g \in 1..Len(text) BY <2>5 DEF N
    <3> QED BY <2>5, <3>1, <3>2, StepIs
  <2> HIDE DEF D
  <2>7. w.dirs = D
    <3>1. \A v : v = [dirs |-> D, name |-> <<>>] => v.dirs = D /\ v.name = <<>> OBVIOUS
    <3>2. Walk(text, g, {}).dirs = D /\ Walk(text, g, {}).name = <<>> BY <2>6, <3>1, Zenon
    <3> QED BY <1>18, <3>2
  <2> DEFINE h == Head0(text, e)
  <2>a. PICK k \in Nat : k + 1 = full /\ k = full - 1 /\ k <= e BY <1>7, <2>3
  <2>8. Dirs(h, {}) = D
    <3>1. e \in 0..Len(text) BY <2>3 DEF N
    <3> QED BY <3>1, HeadWalks DEF D
  <2>9. h \in Seq(C) /\ Len(h) = e /\ \A i \in 1..e : h[i] = text[i]
    <3>1. e \in 0..Len(text) BY <2>3 DEF N
    <3> QED BY <3>1, HeadIs
  <2>10. Dirs(Tail0(h, full), {}) = D
    <3> HIDE DEF h
    <3>1. k \in 0..Len(h) /\ k + 1 = full BY <2>a, <2>3, <2>9
    <3>2. \A i \in 1..k : h[i] = "/"
      <4>1. \A i \in 1..k : i \in 1..e /\ i \in 1..full - 1 BY <1>7, <2>3, <2>a
      <4> QED BY <1>7, <2>9, <4>1
    <3>3. Dirs(Tail0(h, k + 1), {}) = Dirs(h, {}) BY <2>9, <3>1, <3>2, SlashesSkipped
    <3> QED BY <2>8, <3>1, <3>3
  <2>b. d \in 1..Len(name)
    <3>1. Len(name) = N - full + 1 BY <1>12
    <3>2. d \in 1..N - full + 1 BY <1>0, <1>7, <2>2, <2>3, SMTT(60)
    <3> QED BY <3>1, <3>2
  <2>11. Tail0(h, full) = Head0(name, d)
    <3> HIDE DEF h, name
    <3> DEFINE a == SubSeq(h, full, e)
               b == SubSeq(name, 1, d)
    <3>1. a \in Seq(C) /\ Len(a) = d /\ \A i \in 1..d : a[i] = text[full + i - 1]
      <4>1. PICK n \in 1..Len(h) : n = full /\ Len(h) - n + 1 = d
        <5>1. Len(h) = e BY <2>9
        <5>2. full \in 1..e /\ e - full + 1 = d
          <6>1. /\ full \in 1..N /\ e \in 1..N /\ d \in 1..N /\ N \in Nat
                /\ e = full + d - 1 /\ full <= e
            BY <1>0, <1>7, <2>3
          <6> QED BY <6>1
        <5> QED BY <5>1, <5>2
      <4>2. a = SubSeq(h, n, Len(h)) BY <2>9, <4>1
      <4> HIDE DEF a
      <4>3. a \in Seq(C) /\ Len(a) = Len(h) - n + 1 /\ \A i \in 1..Len(h) - n + 1 : a[i] = h[n + i - 1]
        BY <2>9, <4>2
      <4>4. \A i \in 1..d : n + i - 1 \in 1..e
        <5>1. e - n + 1 = d /\ n \in 1..e BY <2>9, <4>1
        <5> QED BY <2>3, <5>1
      <4> QED BY <2>9, <4>1, <4>3, <4>4
    <3>2. b \in Seq(C) /\ Len(b) = d /\ \A i \in 1..d : b[i] = text[full + i - 1]
      <4>1. PICK m \in 1..Len(name) : m = d
        <5> QED BY <2>b
      <4>2. b = SubSeq(name, 1, m) BY <4>1
      <4> HIDE DEF b
      <4>3. b \in Seq(C) /\ Len(b) = m /\ \A i \in 1..m : b[i] = name[i] BY <1>12, <4>2
      <4>4. \A i \in 1..m : i \in 1..N - full + 1
        <5>1. Len(name) = N - full + 1 BY <1>12
        <5> QED BY <4>1, <5>1
      <4> QED BY <1>12, <4>1, <4>3, <4>4
    <3> HIDE DEF a, b
    <3>3. a = b BY <3>1, <3>2
    <3> QED BY <2>9, <3>3 DEF Tail0, Head0, a, b
  <2>12. pp.dir = Head0(name, d)
    <3>1. pp.dir = IF Head0(name, q.d_len) = <<>> THEN <<".">> ELSE Head0(name, q.d_len) BY DEF Ppath
    <3>2. Head0(name, d) # <<>>
      <4> HIDE DEF name
      <4>1. d \in 0..Len(name) BY <2>b
      <4>2. Len(Head0(name, d)) = d BY <1>12, <4>1, HeadIs
      <4>3. Len(Head0(name, d)) # 0 BY <2>3, <4>2
      <4> QED BY <4>3
    <3> HIDE DEF name, pp
    <3> QED BY <2>3, <3>1, <3>2
  <2> QED BY <2>7, <2>10, <2>11, <2>12 DEF Components
<1> HIDE DEF pp, meant, w
<1>20. Shows(pp, meant) BY <1>10, <1>11, <1>15, <1>19 DEF Shows
<1> QED BY <1>20 DEF pp, meant

(* What the server makes of a path that was made for it. *)
Sent(path, suffix) == path \o suffix
Suffix(appends, passwd) == IF appends /\ passwd # <<>> THEN <<NL>> \o passwd ELSE <<>>

LEMMA SentText ==
    ASSUME NEW C, Plain(C), NEW path \in Seq(C), Len(path) >= 1, NEW D, C \subseteq D,
           NEW suffix \in Seq(D), Len(suffix) = 0 \/ suffix[1] = NL
    PROVE  LET str == Tail(Sent(path, suffix))
               n == Len(path) - 1
           IN  /\ str \in Seq(D) /\ Len(str) = n + Len(suffix)
               /\ \A i \in 1..n : str[i] = path[i + 1] /\ str[i] # NL
               /\ \A i \in 1..Len(suffix) : str[n + i] = suffix[i]
               /\ Junked(str) = Tail(path)
<1> DEFINE s == Sent(path, suffix)
           str == Tail(s)
<1>1. Seq(C) \subseteq Seq(D) BY SeqMonotonic
<1>2. path \in Seq(D) /\ Len(path) \in Nat /\ Len(suffix) \in Nat BY <1>1
<1>3. PICK n \in Nat : n = Len(path) - 1 /\ Len(path) = n + 1
  <2>1. \A l \in Nat : l >= 1 => \E n \in Nat : n = l - 1 /\ l = n + 1
    <3>1. \A l \in Nat : l >= 1 => l - 1 \in Nat /\ l = (l - 1) + 1 OBVIOUS
    <3> QED BY <3>1
  <2> QED BY <1>2, <2>1
<1>4. /\ s \in Seq(D) /\ Len(s) = Len(path) + Len(suffix)
      /\ \A i \in 1..Len(path) + Len(suffix) : s[i] = IF i <= Len(path) THEN path[i] ELSE suffix[i - Len(path)]
  BY <1>2, ConcatProperties DEF Sent
<1> HIDE DEF s
<1>5. /\ str \in Seq(D) /\ Len(str) = n + Len(suffix)
      /\ \A i \in 1..n + Len(suffix) : str[i] = s[i + 1]
  <2>1. Len(s) >= 1 /\ Len(s) - 1 = n + Len(suffix) BY <1>2, <1>3, <1>4
  <2>2. str \in Seq(D) /\ Len(str) = Len(s) - 1 /\ \A i \in 1..Len(s) - 1 : str[i] = s[i + 1]
    BY <1>4, <2>1, TailIs
  <2> QED BY <2>1, <2>2
<1> HIDE DEF str
<1>6. ASSUME NEW i \in 1..n PROVE str[i] = path[i + 1] /\ str[i] # NL
  <2>1. PICK j \in 1..Len(path) : j = i + 1 BY <1>3
  <2>2. /\ i \in 1..n + Len(suffix) /\ j \in 1..Len(path) + Len(suffix) /\ j <= Len(path)
    BY <1>2, <1>3, <2>1
  <2>3. str[i] = s[j] /\ s[j] = path[j] BY <1>4, <1>5, <2>1, <2>2
  <2>4. path[j] # NL BY DEF Plain
  <2> QED BY <2>1, <2>3, <2>4
<1>7. ASSUME NEW i \in 1..Len(suffix) PROVE str[n + i] = suffix[i]
  <2>1. PICK k \in Nat : k = n + i + 1 BY <1>3
  <2>2. /\ n + i \in 1..n + Len(suffix) /\ k \in 1..Len(path) + Len(suffix) /\ ~(k <= Len(path))
        /\ k - Len(path) = i
    BY <1>2, <1>3, <2>1
  <2>3. str[n + i] = s[k] /\ s[k] = suffix[k - Len(path)] BY <1>4, <1>5, <2>1, <2>2
  <2> QED BY <2>2, <2>3
<1>8. Junked(str) = Tail(path)
  <2>1. n \in 0..Len(str) BY <1>2, <1>5
  <2>2. n = Len(str) \/ str[n + 1] = NL
    <3>1. CASE Len(suffix) = 0 BY <1>5, <3>1
    <3>2. CASE Len(suffix) # 0
      <4>1. 1 \in 1..Len(suffix) BY <1>2, <3>2
      <4> QED BY <1>7, <3>2, <4>1
    <3> QED BY <3>1, <3>2
  <2>3. Junked(str) = Head0(str, n) BY <1>5, <1>6, <2>1, <2>2, JunkedText
  <2> DEFINE a == Head0(str, n)
             b == Tail(path)
  <2>4. a \in Seq(D) /\ Len(a) = n /\ \A i \in 1..n : a[i] = str[i] BY <1>5, <2>1, HeadIs
  <2>5. b \in Seq(D) /\ Len(b) = n /\ \A i \in 1..n : b[i] = path[i + 1] BY <1>2, <1>3, TailIs
  <2> HIDE DEF a, b
  <2>6. Len(a) = Len(b) /\ \A i \in 1..Len(a) : a[i] = b[i] BY <1>6, <2>4, <2>5
  <2>7. a = b BY <2>4, <2>5, <2>6
  <2> QED BY <2>3, <2>7 DEF a, b
<1>9. Len(path) - 1 = n BY <1>3
<1> QED BY <1>5, <1>6, <1>7, <1>8, <1>9 DEF str, s

LEMMA SentPassword ==
    ASSUME NEW C, Plain(C), NEW path \in Seq(C), Len(path) >= 1,
           NEW passwd \in {<<>>, <<"p">>}, NEW appends \in BOOLEAN
    PROVE  /\ Password(Tail(Sent(path, Suffix(appends, passwd)))) = passwd \/ ~appends
           /\ Junked(Tail(Sent(path, Suffix(appends, passwd)))) = Tail(path)
<1> DEFINE D == C \cup {NL, "p"}
           suffix == Suffix(appends, passwd)
           two == <<NL, "p">>
<1>1. suffix = IF appends /\ passwd = <<"p">> THEN two ELSE <<>>
  <2>1. <<NL>> \o <<"p">> = two
    <3> DEFINE a == <<NL>>
               b == <<"p">>
    <3>1. a \in Seq({NL, "p"}) /\ b \in Seq({NL, "p"}) /\ Len(a) = 1 /\ Len(b) = 1 /\ a[1] = NL /\ b[1] = "p"
      OBVIOUS
    <3>2. two \in Seq({NL, "p"}) /\ Len(two) = 2 /\ two[1] = NL /\ two[2] = "p" OBVIOUS
    <3> DEFINE S == {NL, "p"}
    <3> HIDE DEF a, b, two, S
    <3>3. PICK c : c = a \o b OBVIOUS
    <3>4. c \in Seq(S) /\ Len(c) = 2 /\ c[1] = NL /\ c[2] = "p"
      <4>1. a \in Seq(S) /\ b \in Seq(S) BY <3>1 DEF S
      <4>2. /\ a \o b \in Seq(S) /\ Len(a \o b) = Len(a) + Len(b)
            /\ \A i \in 1..Len(a) + Len(b) : (a \o b)[i] = IF i <= Len(a) THEN a[i] ELSE b[i - Len(a)]
        BY <4>1, ConcatProperties
      <4>3. c \in Seq(S) /\ Len(c) = 2 /\ \A i \in 1..2 : c[i] = IF i <= 1 THEN a[i] ELSE b[i - 1]
        BY <3>1, <3>3, <4>2
      <4>4. 1 \in 1..2 /\ 2 \in 1..2 /\ 1 <= 1 /\ ~(2 <= 1) /\ 2 - 1 = 1 OBVIOUS
      <4>5. c[1] = a[1] /\ c[2] = b[2 - 1] BY <4>3, <4>4
      <4> QED BY <3>1, <4>3, <4>4, <4>5
    <3>5. two \in Seq(S) BY <3>2 DEF S
    <3>6. Len(c) = Len(two) /\ \A i \in 1..Len(c) : c[i] = two[i]
      <4>1. \A i \in 1..2 : i = 1 \/ i = 2 OBVIOUS
      <4> QED BY <3>2, <3>4, <4>1
    <3>7. c = two BY <3>4, <3>5, <3>6
    <3> QED BY <3>3, <3>7 DEF a, b
  <2>2. <<"p">> # <<>> OBVIOUS
  <2> QED BY <2>1, <2>2, Zenon DEF Suffix
<1>2. two \in Seq(D) /\ Len(two) = 2 /\ two[1] = NL /\ two[2] = "p" OBVIOUS
<1>3. <<>> \in Seq(D) /\ Len(<<>>) = 0 OBVIOUS
<1>4. C \subseteq D OBVIOUS
<1>a. two # <<>> OBVIOUS
<1> HIDE DEF D, suffix, two
<1>5. suffix = two \/ suffix = <<>> BY <1>1
<1>6. suffix \in Seq(D) /\ (Len(suffix) = 0 \/ suffix[1] = NL) BY <1>2, <1>3, <1>5
<1> DEFINE str == Tail(Sent(path, suffix))
<1>7. PICK n \in Nat : n = Len(path) - 1 OBVIOUS
<1>8. /\ str \in Seq(D) /\ Len(str) = n + Len(suffix)
      /\ \A i \in 1..n : str[i] # NL
      /\ \A i \in 1..Len(suffix) : str[n + i] = suffix[i]
      /\ Junked(str) = Tail(path)
  <2> DEFINE n0 == Len(path) - 1
  <2>1. /\ str \in Seq(D) /\ Len(str) = n0 + Len(suffix)
        /\ \A i \in 1..n0 : str[i] = path[i + 1] /\ str[i] # NL
        /\ \A i \in 1..Len(suffix) : str[n0 + i] = suffix[i]
        /\ Junked(str) = Tail(path)
    BY <1>4, <1>6, SentText
  <2> HIDE DEF str
  <2> QED BY <1>7, <2>1
<1> HIDE DEF str
<1>9. CASE suffix = <<>>
  <2>1. Len(str) = n BY <1>3, <1>8, <1>9
  <2>2. 0 \in 0..Len(str) /\ \A i \in 0 + 1..Len(str) : i \in 1..n BY <2>1
  <2>3. \A i \in 0 + 1..Len(str) : str[i] # NL BY <1>8, <2>2
  <2>4. Password(str) = IF 0 = 0 THEN <<>> ELSE Tail0(str, 0 + 1) BY <1>8, <2>2, <2>3, PasswordIs
  <2>5. Password(str) = <<>> BY <2>4
  <2>6. ~appends \/ passwd = <<>>
    <3> QED BY <1>1, <1>9, <1>a
  <2> QED BY <1>8, <2>5, <2>6 DEF str, suffix
<1>10. CASE suffix = two
  <2>1. PICK m \in Nat : m = n + 1 /\ n + 2 = m + 1 OBVIOUS
  <2>2. Len(str) = m + 1 /\ str[m] = NL /\ str[m + 1] = "p"
    <3>0. 1 \in 1..2 /\ 2 \in 1..2 OBVIOUS
    <3>1. Len(suffix) = 2 /\ 1 \in 1..Len(suffix) /\ 2 \in 1..Len(suffix) BY <1>2, <1>10, <3>0
    <3>2. str[n + 1] = NL /\ str[n + 2] = "p" /\ Len(str) = n + 2 BY <1>2, <1>8, <1>10, <3>1
    <3> QED BY <2>1, <3>2
  <2>3. m \in 0..Len(str) /\ m # 0 /\ \A i \in m + 1..Len(str) : i = m + 1 BY <2>1, <2>2
  <2>4. \A i \in m + 1..Len(str) : str[i] # NL
    <3>1. "p" # NL BY DEF NL
    <3> QED BY <2>2, <2>3, <3>1
  <2>5. Password(str) = Tail0(str, m + 1)
    <3>1. Password(str) = IF m = 0 THEN <<>> ELSE Tail0(str, m + 1) BY <1>8, <2>2, <2>3, <2>4, PasswordIs
    <3> QED BY <2>3, <3>1
  <2>6. Tail0(str, m + 1) = <<"p">>
    <3> DEFINE a == SubSeq(str, m + 1, m + 1)
               b == <<"p">>
    <3>1. PICK k \in 1..Len(str) : k = m + 1 BY <2>1, <2>2
    <3>2. SubSeq(str, k, k) \in Seq(D) /\ Len(SubSeq(str, k, k)) = 1 /\ SubSeq(str, k, k)[1] = str[k]
      <4>1. k \in Int /\ k <= k /\ k - k + 1 = 1 /\ k + 1 - 1 = k /\ \A i \in k..k : str[i] \in D
        BY <1>8
      <4>2. /\ SubSeq(str, k, k) \in Seq(D)
            /\ Len(SubSeq(str, k, k)) = IF k <= k THEN k - k + 1 ELSE 0
            /\ \A i \in 1..k - k + 1 : SubSeq(str, k, k)[i] = str[k + i - 1]
        BY <4>1, SubSeqProperties
      <4>3. 1 \in 1..k - k + 1 BY <4>1
      <4> QED BY <4>1, <4>2, <4>3
    <3>3. a \in Seq(D) /\ Len(a) = 1 /\ a[1] = "p" BY <2>2, <3>1, <3>2
    <3>4. b \in Seq(D) /\ Len(b) = 1 /\ b[1] = "p" BY DEF D
    <3> HIDE DEF a, b
    <3>5. \A i \in 1..1 : i = 1 OBVIOUS
    <3>6. Len(a) = Len(b) /\ \A i \in 1..Len(a) : a[i] = b[i] BY <3>3, <3>4, <3>5
    <3>7. a = b BY <3>3, <3>4, <3>6
    <3> QED BY <2>2, <3>7 DEF a, b, Tail0
  <2>7. passwd = <<"p">>
    <3> QED BY <1>1, <1>10, <1>a
  <2> QED BY <1>8, <2>5, <2>6, <2>7 DEF str, suffix
<1> QED BY <1>5, <1>9, <1>10

(* What PathMeant says of a path that is sent. *)
Meant(merged, pp, passwd) ==
    LET meant == Resolved(merged)
    IN  /\ pp.refused <=> HasHidden(meant)
        /\ pp.refused \/ meant = <<>> \/ Shows(pp, meant)
        /\ pp.refused \/ pp.passwd = passwd \/ Last(merged) = "/"

LEMMA PpathPlain ==
    ASSUME NEW text, NEW full, NEW d_len, NEW f, NEW passwd
    PROVE  ~Ppath(text, full, d_len, f, passwd).refused /\ Ppath(text, full, d_len, f, passwd).passwd = passwd
<1>1. \A a, b, c, d, e, g, b1 :
          LET w == [refused |-> b1, fullp |-> a, dir |-> b, d_len |-> c, f_len |-> d, file |-> e, passwd |-> g]
          IN  w.refused = b1 /\ w.passwd = g
  OBVIOUS
<1> QED BY <1>1, Zenon DEF Ppath

LEMMA ServedMeant ==
    ASSUME NEW C, Plain(C), NEW merged, NEW path \in Seq(C), NEW passwd \in {<<>>, <<"p">>},
           NEW appends \in BOOLEAN, Made(merged, path, appends)
    PROVE  Meant(merged, ParsePath(Tail(Sent(path, Suffix(appends, passwd)))), passwd)
<1> DEFINE str == Tail(Sent(path, Suffix(appends, passwd)))
           text == Tail(path)
           q == Scanned(text, Len(text))
           pp == ParsePath(str)
<1>1. /\ Len(path) >= 1 /\ path[1] = "/" /\ Components(path) = Resolved(merged)
      /\ Alone(path, Len(path))
      /\ path[Len(path)] = "/" => Components(path) = <<>>
      /\ ~appends => merged[Len(merged)] = "/"
  BY DEF Made
<1>2. Junked(str) = text /\ (Password(str) = passwd \/ ~appends) BY <1>1, SentPassword
<1>3. /\ text \in Seq(C) /\ Len(text) = Len(path) - 1
      /\ \A i \in 1..Len(path) - 1 : text[i] = path[i + 1]
      /\ text = Tail0(path, 2)
  BY <1>1, TailIs
<1>4. pp = IF q.refused THEN Refused ELSE Ppath(text, q.full, q.d_len, q.f, Password(str))
  BY <1>2 DEF ParsePath
<1> HIDE DEF str, text
<1>5. Components(text) = Resolved(merged)
  <2>1. 1 \in 0..Len(path) /\ \A i \in 1..1 : path[i] = "/" BY <1>1
  <2>2. Dirs(Tail0(path, 1 + 1), {}) = Dirs(path, {}) BY <2>1, SlashesSkipped
  <2>3. 1 + 1 = 2 OBVIOUS
  <2> QED BY <1>1, <1>3, <2>2, <2>3 DEF Components
<1>6. Apart(text)
  <2> SUFFICES ASSUME NEW i \in 1..Len(text) - 1, text[i] = "/", text[i + 1] = "/" PROVE FALSE
    BY DEF Apart
  <2>1. PICK j \in 2..Len(path) - 1 : j = i + 1 BY <1>3
  <2>2. i \in 1..Len(path) - 1 /\ j \in 1..Len(path) - 1 BY <1>3, <2>1
  <2>3. path[j] = "/" /\ path[j + 1] = "/" BY <1>3, <2>1, <2>2
  <2> QED BY <1>1, <2>1, <2>3 DEF Alone
<1>7. text[Len(text)] = "/" /\ Len(text) > 0 => Components(text) = <<>>
  <2> SUFFICES ASSUME text[Len(text)] = "/", Len(text) > 0 PROVE Components(text) = <<>>
    OBVIOUS
  <2>1. PICK n : n = Len(path) - 1 /\ n + 1 = Len(path) /\ n \in 1..Len(path) - 1 /\ n = Len(text) BY <1>3
  <2>2. path[Len(path)] = "/" BY <1>3, <2>1
  <2> QED BY <1>1, <1>5, <2>2
<1>8. Len(text) = 0 => Components(text) = <<>>
  <2>1. Len(text) = 0 => Len(path) = 1 BY <1>3
  <2> QED BY <1>1, <1>5, <2>1
<1> HIDE DEF q
<1>9. q.refused = TRUE => HasHidden(Components(text)) BY <1>3, RefusedHidden DEF q
<1>10. q.refused # TRUE => ~HasHidden(Components(text))
  <2>1. ~q.refused => Guarded(text, Ppath(text, q.full, q.d_len, q.f, passwd)) BY <1>3, ParsedGuarded DEF q
  <2>2. q.refused \in BOOLEAN
    <3>1. Len(text) \in 0..Len(text) BY <1>3
    <3>2. q \in ScanState BY <1>3, <3>1, ScannedIs DEF q
    <3> QED BY <3>2 DEF ScanState
  <2> QED BY <2>1, <2>2 DEF Guarded
<1> HIDE DEF pp
<1>11. CASE q.refused = TRUE
  <2>1. pp = Refused BY <1>4, <1>11, Zenon
  <2>2. pp.refused = TRUE
    <3>1. \A b \in BOOLEAN : [refused |-> b].refused = b OBVIOUS
    <3> QED BY <2>1, <3>1, Zenon DEF Refused
  <2>3. Meant(merged, pp, passwd) BY <1>5, <1>9, <1>11, <2>2, Zenon DEF Meant
  <2> QED BY <2>3 DEF pp, str
<1>12. CASE q.refused # TRUE
  <2>1. ~q.refused
    <3>1. Len(text) \in 0..Len(text) BY <1>3
    <3>2. q \in ScanState BY <1>3, <3>1, ScannedIs DEF q
    <3> QED BY <1>12, <3>2 DEF ScanState
  <2>2. pp = Ppath(text, q.full, q.d_len, q.f, Password(str)) BY <1>4, <2>1, Zenon
  <2>3. ~pp.refused /\ pp.passwd = Password(str)
    <3>1. PICK pw : pw = Password(str) OBVIOUS
    <3>2. ~Ppath(text, q.full, q.d_len, q.f, pw).refused /\ Ppath(text, q.full, q.d_len, q.f, pw).passwd = pw
      BY PpathPlain
    <3> QED BY <2>2, <3>1, <3>2, Zenon
  <2>4. Components(text) = <<>> \/ Shows(pp, Components(text))
    <3> SUFFICES ASSUME Components(text) # <<>> PROVE Shows(pp, Components(text))
      OBVIOUS
    <3>1. text[Len(text)] # "/"
      <4>1. Len(text) \in Nat BY <1>3
      <4>2. Len(text) > 0 BY <1>8, <4>1
      <4> QED BY <1>7, <4>2
    <3>2. PICK pw : pw = Password(str) OBVIOUS
    <3>3. Shows(Ppath(text, q.full, q.d_len, q.f, pw), Components(text))
      BY <1>3, <1>6, <2>1, <3>1, ParsedMeant DEF q
    <3> QED BY <2>2, <3>2, <3>3
  <2>5. pp.passwd = passwd \/ Last(merged) = "/" BY <1>1, <1>2, <2>3 DEF Last
  <2>6. ~HasHidden(Components(text)) BY <1>10, <1>12
  <2>7. Meant(merged, pp, passwd) BY <1>5, <2>3, <2>4, <2>5, <2>6, Zenon DEF Meant
  <2> QED BY <2>7 DEF pp, str
<1> QED BY <1>11, <1>12

(* The path a client merges begins with a slash. *)
Rooted(C, s) == s \in Seq(C) /\ Len(s) >= 1 /\ s[1] = "/"
LEMMA RootedOn == ASSUME NEW C, NEW a, Rooted(C, a), NEW b \in Seq(C) PROVE Rooted(C, a \o b)
<1>1. a \in Seq(C) /\ Len(a) >= 1 /\ a[1] = "/" /\ Len(a) \in Nat /\ Len(b) \in Nat BY DEF Rooted
<1>2. /\ a \o b \in Seq(C) /\ Len(a \o b) = Len(a) + Len(b)
      /\ \A i \in 1..Len(a) + Len(b) : (a \o b)[i] = IF i <= Len(a) THEN a[i] ELSE b[i - Len(a)]
  BY <1>1, ConcatProperties
<1>3. PICK c : c = a \o b OBVIOUS
<1>4. 1 \in 1..Len(a) + Len(b) /\ 1 <= Len(a) /\ Len(a) + Len(b) >= 1 BY <1>1
<1>5. c \in Seq(C) /\ Len(c) >= 1 /\ c[1] = "/" BY <1>1, <1>2, <1>3, <1>4
<1> QED BY <1>3, <1>5 DEF Rooted

LEMMA MergedIs ==
    ASSUME NEW C, "/" \in C, NEW env_dir \in Seq(C), NEW s2 \in Seq(C)
    PROVE  Rooted(C, Merged(env_dir, s2))
<1> DEFINE slash == <<"/">>
<1>1. slash \in Seq(C) /\ Len(slash) = 1 /\ slash[1] = "/" OBVIOUS
<1> HIDE DEF slash
<1>2. Rooted(C, slash) BY <1>1 DEF Rooted
<1>3. Rooted(C, slash \o s2) BY <1>2, RootedOn
<1>4. Rooted(C, slash \o env_dir) BY <1>2, RootedOn
<1>5. Rooted(C, (slash \o env_dir) \o slash) BY <1>1, <1>4, RootedOn
<1>6. Rooted(C, ((slash \o env_dir) \o slash) \o s2) BY <1>5, RootedOn
<1> QED BY <1>3, <1>6 DEF Merged, slash

LEMMA AbsPathMeant ==
    ASSUME NEW C, Plain(C), "/" \in C, NEW env_dir \in Seq(C), NEW s2 \in Seq(C),
           NEW passwd \in {<<>>, <<"p">>}
    PROVE  Meant(Merged(env_dir, s2), ParsePath(Tail(AbsPath(env_dir, s2, passwd))), passwd)
<1>1. PICK merged : merged = Merged(env_dir, s2) OBVIOUS
<1>2. merged \in Seq(C) /\ Len(merged) >= 1 /\ merged[1] = "/" BY <1>1, MergedIs DEF Rooted
<1>3. Junked(merged) = merged
  <2>1. Len(merged) \in 0..Len(merged) /\ \A i \in 1..Len(merged) : merged[i] # NL BY <1>2 DEF Plain
  <2>2. Junked(merged) = Head0(merged, Len(merged)) BY <1>2, <2>1, JunkedText
  <2>3. Head0(merged, Len(merged)) = merged BY <1>2 DEF Head0
  <2> QED BY <2>2, <2>3
<1> DEFINE r == Simplified(merged)
<1>4. r.path \in Seq(C) /\ Made(merged, r.path, r.appends) BY <1>2, SimplifiedMade
<1>5. AbsPath(env_dir, s2, passwd) = Sent(r.path, Suffix(r.appends, passwd))
  <2>1. (IF passwd = <<>> THEN merged ELSE Junked(merged)) = merged BY <1>3
  <2> QED BY <1>1, <2>1 DEF AbsPath, Sent, Suffix
<1> HIDE DEF r
<1>6. PICK appends \in BOOLEAN : Made(merged, r.path, appends)
                                 /\ Suffix(r.appends, passwd) = Suffix(appends, passwd)
  <2>1. CASE r.appends
    <3>1. Made(merged, r.path, TRUE) BY <1>4, <2>1 DEF Made
    <3>2. Suffix(r.appends, passwd) = Suffix(TRUE, passwd) BY <2>1, Zenon DEF Suffix
    <3> QED BY <3>1, <3>2
  <2>2. CASE ~r.appends
    <3>1. Made(merged, r.path, FALSE) BY <1>4, <2>2 DEF Made
    <3>2. Suffix(r.appends, passwd) = Suffix(FALSE, passwd) BY <2>2, Zenon DEF Suffix
    <3> QED BY <3>1, <3>2
  <2> QED BY <2>1, <2>2
<1>7. PICK path \in Seq(C) : path = r.path BY <1>4
<1>8. Meant(merged, ParsePath(Tail(Sent(path, Suffix(appends, passwd)))), passwd)
  <2>1. Made(merged, path, appends) BY <1>6, <1>7
  <2> QED BY <2>1, ServedMeant
<1> QED BY <1>1, <1>5, <1>6, <1>7, <1>8

(* The directory and the file a client means are those its path leads to   *)
(* on the server, with the password: util_abs_path() and parse_path().     *)
THEOREM PathsAreMeant == Spec => []PathMeant
<1>1. Init => PathMeant BY DEF Init, PathMeant
<1>2. PathMeant /\ [Next]_call => PathMeant'
  <2> SUFFICES ASSUME PathMeant, [Next]_call PROVE PathMeant'
    OBVIOUS
  <2>1. CASE UNCHANGED call BY <2>1 DEF PathMeant
  <2>2. CASE Next /\ call'.op # "abs_path" BY <2>2 DEF PathMeant
  <2>3. CASE Next /\ call'.op = "abs_path"
    <3>1. MakesPath BY <2>3, OneCall
    <3>2. PICK env_dir \in Strings({"/", ".", "a"}, MaxArg - 1), s2 \in Strings({"/", ".", "b"}, MaxArg),
               passwd \in {<<>>, <<"p">>} :
              call' = [op |-> "abs_path", env_dir |-> env_dir, s2 |-> s2, env_passwd |-> passwd,
                       path |-> AbsPath(env_dir, s2, passwd)]
      BY <3>1, Zenon DEF MakesPath
    <3> DEFINE C == {"/", ".", "a", "b"}
    <3>3. /\ call'.env_dir = env_dir /\ call'.s2 = s2 /\ call'.env_passwd = passwd
          /\ call'.path = AbsPath(env_dir, s2, passwd)
      BY <3>2
    <3>4. env_dir \in Seq(C) /\ s2 \in Seq(C)
      <4> DEFINE A == {"/", ".", "a"}
                 B == {"/", ".", "b"}
      <4>1. A \subseteq C /\ B \subseteq C OBVIOUS
      <4> HIDE DEF A, B, C
      <4>2. MaxArg - 1 \in Nat /\ MaxArg \in Nat BY PureAssumption
      <4>3. Strings(A, MaxArg - 1) \subseteq Seq(C) BY <4>1, <4>2, StringsAre, SeqMonotonic
      <4>4. Strings(B, MaxArg) \subseteq Seq(C) BY <4>1, <4>2, StringsAre, SeqMonotonic
      <4> QED BY <3>2, <4>3, <4>4 DEF A, B
    <3>5. Plain(C) /\ "/" \in C BY DEF Plain, NUL, NL, CTL, TOP
    <3> HIDE DEF C
    <3>6. Meant(Merged(env_dir, s2), ParsePath(Tail(AbsPath(env_dir, s2, passwd))), passwd)
      BY <3>2, <3>4, <3>5, AbsPathMeant
    <3>7. Meant(Merged(call'.env_dir, call'.s2), ParsePath(Tail(call'.path)), call'.env_passwd)
      BY <3>3, <3>6
    <3> QED BY <3>7 DEF PathMeant, Meant, Shows
  <2> QED BY <2>1, <2>2, <2>3
<1> QED BY <1>1, <1>2, PTL DEF Spec
-----------------------------------------------------------------------------
(* Directory listings. First what SumTo is: a recursive function has the   *)
(* values of any function that solves its equations, and Iterated gives    *)
(* one; then the bytes of a block and of a listing.                        *)
Sums(r, f, n) == r \in [0..n -> Nat] /\ r[0] = 0 /\ \A i \in 1..n : r[i] = r[i - 1] + f[i]
LEMMA SumsExist ==
    ASSUME NEW n \in Nat, NEW f, \A i \in 1..n : f[i] \in Nat
    PROVE  \E r : Sums(r, f, n)
<1> DEFINE T == [i \in 1..n |-> [x \in Nat |-> x + f[i]]]
<1>1. T \in [1..n -> [Nat -> Nat]] OBVIOUS
<1>2. \A i \in 1..n, x \in Nat : T[i][x] = x + f[i] OBVIOUS
<1> HIDE DEF T
<1>3. PICK r : Iterates(r, n, Nat, 0, T) BY <1>1, Iterated
<1>4. ASSUME NEW i \in 1..n PROVE r[i] = r[i - 1] + f[i]
  <2>1. i - 1 \in 0..n OBVIOUS
  <2>2. r[i] = T[i][r[i - 1]] /\ r[i - 1] \in Nat BY <1>3, <2>1 DEF Iterates
  <2> QED BY <1>2, <2>2
<1>5. Sums(r, f, n) BY <1>3, <1>4 DEF Iterates, Sums
<1> QED BY <1>5

LEMMA SumToIs ==
    ASSUME NEW n \in Nat, NEW f, NEW r, Sums(r, f, n), NEW m \in 0..n
    PROVE  SumTo(f, m) = r[m]
<1> DEFINE Is(s) == s = [i \in 0..m |-> IF i = 0 THEN 0 ELSE s[i - 1] + f[i]]
           sum == CHOOSE s : Is(s)
           cut == [i \in 0..m |-> r[i]]
<1>1. SumTo(f, m) = sum[m] BY DEF SumTo
<1>2. Is(cut)
  <2>1. \A i \in 0..m : i \in 0..n /\ (i = 0 \/ (i \in 1..n /\ i - 1 \in 0..m)) OBVIOUS
  <2>2. r[0] = 0 /\ \A i \in 1..n : r[i] = r[i - 1] + f[i] BY DEF Sums
  <2>3. \A i \in 0..m : cut[i] = r[i] OBVIOUS
  <2>4. \A i \in 0..m : cut[i] = IF i = 0 THEN 0 ELSE cut[i - 1] + f[i]
    BY <2>1, <2>2, <2>3
  <2> QED BY <2>4
<1>3. Is(sum) BY <1>2, Zenon
<1> HIDE DEF sum, cut
<1> DEFINE Q == {i \in 0..m : sum[i] = r[i]}
<1>4. 0 \in Q
  <2>1. 0 \in 0..m OBVIOUS
  <2> QED BY <1>3, <2>1 DEF Sums
<1>5. ASSUME NEW i \in 0..m - 1, i \in Q PROVE i + 1 \in Q
  <2>1. PICK j \in 1..n : j = i + 1 /\ j - 1 = i /\ j \in 0..m /\ j # 0 OBVIOUS
  <2>2. sum[j] = sum[j - 1] + f[j] BY <1>3, <2>1
  <2>3. r[j] = r[j - 1] + f[j] BY DEF Sums
  <2> QED BY <1>5, <2>1, <2>2, <2>3
<1>6. 0..m \subseteq Q
  <2>1. m \in Nat OBVIOUS
  <2> HIDE DEF Q
  <2> QED BY <1>4, <1>5, <2>1, Induction
<1>7. m \in Q
  <2>1. m \in 0..m OBVIOUS
  <2> HIDE DEF Q
  <2> QED BY <1>6, <2>1
<1> QED BY <1>1, <1>7

LEMMA SumIs ==
    ASSUME NEW n \in Nat, NEW f, \A i \in 1..n : f[i] \in Nat
    PROVE  /\ SumTo(f, 0) = 0
           /\ \A m \in 0..n : SumTo(f, m) \in Nat
           /\ \A m \in 1..n : SumTo(f, m) = SumTo(f, m - 1) + f[m]
<1>1. PICK r : Sums(r, f, n) BY SumsExist
<1>2. \A m \in 0..n : SumTo(f, m) = r[m] BY <1>1, SumToIs
<1>3. \A m \in 1..n : m - 1 \in 0..n OBVIOUS
<1> QED BY <1>1, <1>2, <1>3 DEF Sums

LEMMA SumSame ==
    ASSUME NEW n \in Nat, NEW f, NEW g, \A i \in 1..n : f[i] \in Nat /\ f[i] = g[i]
    PROVE  SumTo(f, n) = SumTo(g, n)
<1>1. PICK r : Sums(r, f, n) BY SumsExist
<1>2. Sums(r, g, n) BY <1>1 DEF Sums
<1>3. n \in 0..n OBVIOUS
<1> QED BY <1>1, <1>2, <1>3, SumToIs

Item == [type : {"entry", "skip", "end"}, name : Nat, size : Nat]

(* An item more, so many bytes more.                                       *)
LEMMA SizeIs ==
    ASSUME NEW block \in Seq(Item)
    PROVE  /\ Size(block) \in Nat
           /\ Size(<<>>) = 0
           /\ \A item \in Item : Size(Append(block, item)) = Size(block) + item.size
<1> DEFINE N == Len(block)
           f == [i \in DOMAIN block |-> block[i].size]
<1>1. N \in Nat /\ DOMAIN block = 1..N OBVIOUS
<1>2. \A i \in 1..N : block[i].size \in Nat
  <2>1. \A i \in 1..N : block[i] \in Item BY <1>1
  <2> QED BY <2>1 DEF Item
<1>3. \A i \in 1..N : f[i] \in Nat /\ f[i] = block[i].size BY <1>1, <1>2
<1>4. Size(block) = SumTo(f, N) BY DEF Size
<1> HIDE DEF f
<1>5. Size(block) \in Nat
  <2>1. N \in 0..N BY <1>1
  <2> HIDE DEF N
  <2> QED BY <1>1, <1>3, <1>4, <2>1, SumIs
<1>6. Size(<<>>) = 0
  <2> DEFINE e == [i \in DOMAIN <<>> |-> <<>>[i].size]
  <2>1. Size(<<>>) = SumTo(e, 0)
    <3>1. Len(<<>>) = 0 OBVIOUS
    <3> QED BY <3>1 DEF Size
  <2>2. \A i \in 1..0 : e[i] \in Nat OBVIOUS
  <2> HIDE DEF e
  <2>3. 0 \in Nat OBVIOUS
  <2>4. SumTo(e, 0) = 0 BY <2>2, <2>3, SumIs
  <2> QED BY <2>1, <2>4
<1>7. ASSUME NEW item \in Item PROVE Size(Append(block, item)) = Size(block) + item.size
  <2> DEFINE more == Append(block, item)
             g == [i \in DOMAIN more |-> more[i].size]
  <2>1. more \in Seq(Item) /\ Len(more) = N + 1 /\ more[N + 1] = item /\ \A i \in 1..N : more[i] = block[i]
    BY AppendProperties
  <2>2. Size(more) = SumTo(g, N + 1) BY <2>1 DEF Size
  <2>3. DOMAIN more = 1..N + 1 BY <2>1
  <2>4. \A i \in 1..N + 1 : g[i] = more[i].size BY <2>3
  <2> HIDE DEF more, g, N
  <2>5. PICK m \in Nat : m = N + 1 /\ m - 1 = N /\ m \in 1..m BY <1>1
  <2>6. g[m] = item.size /\ item.size \in Nat BY <2>1, <2>4, <2>5 DEF Item
  <2>7. \A i \in 1..N : g[i] = f[i] /\ g[i] \in Nat
    <3>1. \A i \in 1..N : i \in 1..N + 1 BY <1>1
    <3> QED BY <1>3, <2>1, <2>4, <3>1
  <2>8. \A i \in 1..m : g[i] \in Nat
    <3>1. \A i \in 1..m : i = m \/ i \in 1..N BY <1>1, <2>5
    <3> QED BY <2>6, <2>7, <3>1
  <2>9. SumTo(g, m) = SumTo(g, N) + g[m] BY <2>5, <2>8, SumIs
  <2>10. SumTo(g, N) = SumTo(f, N) BY <1>1, <2>7, SumSame
  <2> QED BY <1>4, <2>2, <2>5, <2>6, <2>9, <2>10 DEF more
<1> QED BY <1>5, <1>6, <1>7

(* The bytes of a listing whose blocks but the last have the same size. *)
LEMMA TotalIs ==
    ASSUME NEW blocks \in Seq(Seq(Item)), NEW N \in Nat, Len(blocks) = N, N >= 1, NEW size \in Nat,
           \A i \in 1..N - 1 : Size(blocks[i]) = size
    PROVE  Total(blocks) = (N - 1) * size + Size(blocks[N])
<1> DEFINE f == [i \in DOMAIN blocks |-> Size(blocks[i])]
           Q == {m \in 0..N - 1 : SumTo(f, m) = m * size}
<1>1. DOMAIN blocks = 1..N OBVIOUS
<1>2. \A i \in 1..N : f[i] = Size(blocks[i]) BY <1>1
<1>3. \A i \in 1..N : f[i] \in Nat
  <2>1. \A i \in 1..N : blocks[i] \in Seq(Item) BY <1>1
  <2> QED BY <1>2, <2>1, SizeIs
<1>4. Total(blocks) = SumTo(f, N) BY DEF Total
<1> HIDE DEF f
<1>5. /\ SumTo(f, 0) = 0
      /\ \A m \in 1..N : SumTo(f, m) = SumTo(f, m - 1) + f[m]
  BY <1>3, SumIs
<1>6. 0 \in Q BY <1>5
<1>7. ASSUME NEW m \in 0..N - 1 - 1, m \in Q PROVE m + 1 \in Q
  <2>1. PICK n \in 1..N - 1 : n = m + 1 /\ n - 1 = m /\ n \in 0..N - 1 /\ n \in 1..N OBVIOUS
  <2>2. SumTo(f, n) = m * size + size BY <1>2, <1>5, <1>7, <2>1
  <2>3. n * size = m * size + size BY <2>1
  <2> QED BY <2>1, <2>2, <2>3
<1>8. 0..N - 1 \subseteq Q
  <2>1. N - 1 \in Nat OBVIOUS
  <2> HIDE DEF Q
  <2> QED BY <1>6, <1>7, <2>1, Induction
<1>9. N - 1 \in Q
  <2>1. N - 1 \in 0..N - 1 OBVIOUS
  <2> HIDE DEF Q
  <2> QED BY <1>8, <2>1
<1>10. N \in 1..N OBVIOUS
<1> QED BY <1>2, <1>4, <1>5, <1>9, <1>10

(* What is read of a block: its names, and if it is the last. *)
LEMMA EntriesAre ==
    ASSUME NEW block \in Seq(Item), NEW n \in 0..Len(block), \A i \in 1..n : block[i].type = "entry",
           n = Len(block) \/ block[n + 1].type # "entry"
    PROVE  Entries(block) = n
<1> DEFINE D == 0..Len(block)
           Is(k) == /\ k = Len(block) \/ block[k + 1].type # "entry"
                    /\ \A i \in 1..k : block[i].type = "entry"
           e == CHOOSE k \in D : Is(k)
<1>1. n \in D /\ Is(n) OBVIOUS
<1>2. e \in D /\ Is(e)
  <2> HIDE DEF D, Is
  <2> QED BY <1>1, Zenon
<1>3. Entries(block) = e BY DEF Entries
<1> HIDE DEF e
<1>4. e = n
  <2>1. ~(e < n)
    <3> SUFFICES ASSUME e < n PROVE FALSE
      OBVIOUS
    <3>1. e + 1 \in 1..n /\ e # Len(block) BY <1>2
    <3> QED BY <1>2, <3>1
  <2>2. ~(n < e)
    <3> SUFFICES ASSUME n < e PROVE FALSE
      OBVIOUS
    <3>1. n + 1 \in 1..e /\ n # Len(block) BY <1>2
    <3> QED BY <1>2, <3>1
  <2> QED BY <1>2, <2>1, <2>2
<1> QED BY <1>3, <1>4

(* A block with the names behind the first from, up to the to-th. *)
Shown(block, names, from, to) == from <= to /\ block # <<>> /\ NamesIn(block) = SubSeq(names, from + 1, to)
(* A block at work on holds the entries of names[from + 1..to] and no      *)
(* more.                                                                   *)
Open(block, names, from, to) ==
    /\ block \in Seq(Item) /\ from <= to /\ Len(block) = to - from
    /\ \A i \in 1..to - from : block[i].type = "entry" /\ block[i].name = names[from + i]

LEMMA SameCount == ASSUME NEW m \in Nat, NEW n \in Nat, 1..m = 1..n PROVE m = n
<1>1. m > n => m \in 1..m /\ m \notin 1..n OBVIOUS
<1>2. n > m => n \in 1..n /\ n \notin 1..m OBVIOUS
<1> QED BY <1>1, <1>2

LEMMA SameSeq ==
    ASSUME NEW S, NEW a \in Seq(S), NEW b \in Seq(S), Len(a) = Len(b), \A i \in 1..Len(a) : a[i] = b[i]
    PROVE  a = b
OBVIOUS

LEMMA NamesAre ==
    ASSUME NEW names \in Seq(Nat), NEW from \in 0..Len(names), NEW to \in from..Len(names),
           NEW block \in Seq(Item), NEW n \in 0..Len(block), n = to - from,
           \A i \in 1..n : block[i].type = "entry" /\ block[i].name = names[from + i],
           n = Len(block) \/ block[n + 1].type # "entry"
    PROVE  NamesIn(block) = SubSeq(names, from + 1, to)
<1>1. Entries(block) = n BY EntriesAre
<1> DEFINE a == [i \in 1..n |-> block[i].name]
           b == SubSeq(names, from + 1, to)
<1>2. NamesIn(block) = a BY <1>1 DEF NamesIn
<1>3. a \in Seq(Nat) /\ Len(a) = n /\ \A i \in 1..n : a[i] = names[from + i]
  <2>1. n \in Nat OBVIOUS
  <2>2. \A i \in 1..n : block[i].name \in Nat
    <3>1. \A i \in 1..n : i \in 1..Len(block) /\ block[i] \in Item OBVIOUS
    <3> QED BY <3>1 DEF Item
  <2>3. a \in [1..n -> Nat] BY <2>2
  <2>4. \A i \in 1..n : a[i] = names[from + i] OBVIOUS
  <2> HIDE DEF a
  <2>5. a \in Seq(Nat) BY <2>1, <2>3, SeqDef
  <2>6. Len(a) = n
    <3>1. DOMAIN a = 1..n /\ DOMAIN a = 1..Len(a) /\ Len(a) \in Nat BY <2>3, <2>5, LenProperties
    <3>2. 1..n = 1..Len(a) BY <3>1
    <3> QED BY <2>1, <3>1, <3>2, SameCount
  <2> QED BY <2>4, <2>5, <2>6
<1>4. b \in Seq(Nat) /\ Len(b) = n /\ \A i \in 1..n : b[i] = names[from + i]
  <2>1. from + 1 \in Int /\ to \in Int /\ \A i \in from + 1..to : names[i] \in Nat OBVIOUS
  <2>2. /\ b \in Seq(Nat) /\ Len(b) = IF from + 1 <= to THEN to - (from + 1) + 1 ELSE 0
        /\ \A i \in 1..to - (from + 1) + 1 : b[i] = names[from + 1 + i - 1]
    BY <2>1, SubSeqProperties
  <2> HIDE DEF b
  <2>3. Len(b) = n BY <2>2
  <2>4. to - (from + 1) + 1 = n /\ \A i \in 1..n : from + 1 + i - 1 = from + i OBVIOUS
  <2> QED BY <2>2, <2>3, <2>4
<1> HIDE DEF a, b
<1>5. Len(a) = Len(b) /\ \A i \in 1..Len(a) : a[i] = b[i] BY <1>3, <1>4
<1>6. a \in Seq(Nat) /\ b \in Seq(Nat) BY <1>3, <1>4
<1>7. a = b BY <1>5, <1>6, SameSeq
<1> QED BY <1>2, <1>7 DEF b

LEMMA OpenShows ==
    ASSUME NEW names \in Seq(Nat), NEW from \in 0..Len(names), NEW to \in from..Len(names),
           NEW block, Open(block, names, from, to)
    PROVE  /\ block # <<>> => Shown(block, names, from, to)
           /\ ~HasEnd(block)
           /\ \A item \in Item : item.type # "entry" =>
                  /\ Shown(Append(block, item), names, from, to)
                  /\ HasEnd(Append(block, item)) <=> item.type = "end"
<1>1. PICK n : n = to - from /\ n \in 0..Len(block) /\ n = Len(block) BY DEF Open
<1>2. /\ block \in Seq(Item) /\ from <= to
      /\ \A i \in 1..n : block[i].type = "entry" /\ block[i].name = names[from + i]
  BY <1>1 DEF Open
<1>3. block # <<>> => Shown(block, names, from, to) BY <1>1, <1>2, NamesAre DEF Shown
<1>4. DOMAIN block = 1..n BY <1>1, <1>2
<1>5. ~HasEnd(block) BY <1>2, <1>4 DEF HasEnd
<1>6. ASSUME NEW item \in Item, item.type # "entry"
      PROVE  /\ Shown(Append(block, item), names, from, to)
             /\ HasEnd(Append(block, item)) <=> item.type = "end"
  <2> DEFINE more == Append(block, item)
  <2>1. /\ more \in Seq(Item) /\ Len(more) = n + 1 /\ more[n + 1] = item
        /\ \A i \in 1..n : more[i] = block[i]
    BY <1>1, <1>2, AppendProperties, SMTT(60)
  <2>2. more # <<>> BY <1>2, AppendProperties
  <2>3. DOMAIN more = 1..n + 1 BY <2>1
  <2> HIDE DEF more
  <2>4. n \in 0..Len(more) /\ \A i \in 1..n : more[i].type = "entry" /\ more[i].name = names[from + i]
    <3>1. n \in Nat BY <1>1, <1>2
    <3>2. n \in 0..n + 1 BY <3>1
    <3> QED BY <1>2, <2>1, <3>2
  <2>5. more[n + 1].type # "entry" BY <1>6, <2>1
  <2>6. NamesIn(more) = SubSeq(names, from + 1, to) BY <1>1, <2>1, <2>4, <2>5, NamesAre
  <2>7. Shown(more, names, from, to) BY <1>2, <2>2, <2>6 DEF Shown
  <2>8. HasEnd(more) <=> item.type = "end"
    <3>1. \A i \in 1..n + 1 : i \in 1..n \/ i = n + 1 BY <1>1
    <3>2. n + 1 \in 1..n + 1 BY <1>1
    <3> QED BY <2>1, <2>3, <2>4, <3>1, <3>2 DEF HasEnd
  <2> QED BY <2>7, <2>8 DEF more
<1> QED BY <1>3, <1>5, <1>6

(* The blocks that are closed, up to where the names of each go. *)
Listed(blocks, names, size, c) ==
    /\ blocks \in Seq(Seq(Item))
    /\ c \in [0..Len(blocks) -> 0..Len(names)] /\ c[0] = 0
    /\ \A i \in 1..Len(blocks) : /\ Shown(blocks[i], names, c[i - 1], c[i])
                                 /\ ~HasEnd(blocks[i]) /\ Size(blocks[i]) = size
Filling(blocks, block, rem, names, n, size) ==
    \E c : /\ Listed(blocks, names, size, c) /\ Open(block, names, c[Len(blocks)], n)
           /\ rem \in Nat /\ Size(block) + rem = size

(* The start fills nothing; closing a block and writing an entry keep what *)
(* Filling says.                                                           *)
LEMMA StartFills == ASSUME NEW names \in Seq(Nat), NEW size \in Nat PROVE Filling(<<>>, <<>>, size, names, 0, size)
<1> DEFINE c == [i \in 0..0 |-> 0]
<1>1. c \in [0..0 -> 0..Len(names)] /\ c[0] = 0 OBVIOUS
<1>2. <<>> \in Seq(Seq(Item)) /\ Len(<<>>) = 0 /\ <<>> \in Seq(Item) OBVIOUS
<1> HIDE DEF c
<1>3. Listed(<<>>, names, size, c) BY <1>1, <1>2 DEF Listed
<1>4. Open(<<>>, names, c[Len(<<>>)], 0) BY <1>1, <1>2 DEF Open
<1>5. Size(<<>>) + size = size
  <2>1. PICK e \in Seq(Item) : e = <<>> BY <1>2
  <2>2. Size(<<>>) = 0 BY <2>1, SizeIs
  <2> QED BY <2>2
<1> QED BY <1>3, <1>4, <1>5 DEF Filling

Shut(block, rem) == IF rem = 0 THEN block ELSE Append(block, Skip(rem))
LEMMA ClosedFills ==
    ASSUME NEW names \in Seq(Nat), NEW size \in Nat, size >= 1, NEW n \in 0..Len(names),
           NEW blocks, NEW block, NEW rem, Filling(blocks, block, rem, names, n, size),
           NEW closed, closed = Shut(block, rem)
    PROVE  Filling(Append(blocks, closed), <<>>, size, names, n, size)
<1>1. PICK c : /\ Listed(blocks, names, size, c) /\ Open(block, names, c[Len(blocks)], n)
               /\ rem \in Nat /\ Size(block) + rem = size
  BY DEF Filling
<1>2. PICK N \in Nat : N = Len(blocks) /\ blocks \in Seq(Seq(Item)) BY <1>1 DEF Listed
<1>3. PICK from \in 0..Len(names) : from = c[N]
  <2>1. c \in [0..N -> 0..Len(names)] BY <1>1, <1>2 DEF Listed
  <2>2. N \in 0..N OBVIOUS
  <2> QED BY <2>1, <2>2
<1>4. block \in Seq(Item) /\ n \in from..Len(names) /\ Open(block, names, from, n) BY <1>1, <1>2, <1>3 DEF Open
<1>5. /\ closed \in Seq(Item) /\ Shown(closed, names, from, n) /\ ~HasEnd(closed) /\ Size(closed) = size
  <2>1. CASE rem = 0
    <3>1. closed = block BY <2>1 DEF Shut
    <3>2. Size(block) = size
      <4>1. Size(block) \in Nat BY <1>4, SizeIs
      <4> QED BY <1>1, <2>1, <4>1
    <3>3. block # <<>>
      <4>1. Size(<<>>) = 0 BY <1>4, SizeIs
      <4> QED BY <3>2, <4>1
    <3> QED BY <1>4, <3>1, <3>2, <3>3, OpenShows
  <2>2. CASE rem # 0
    <3>1. PICK skip : skip = Skip(rem) OBVIOUS
    <3>2. skip \in Item /\ skip.type = "skip" /\ skip.size = rem BY <1>1, <3>1 DEF Skip, Item
    <3>3. closed = Append(block, skip) BY <2>2, <3>1 DEF Shut
    <3>4. Size(closed) = Size(block) + rem BY <1>4, <3>2, <3>3, SizeIs
    <3>5. Shown(closed, names, from, n) /\ ~HasEnd(closed) BY <1>4, <3>2, <3>3, OpenShows
    <3>6. closed \in Seq(Item) BY <1>4, <3>2, <3>3, AppendProperties
    <3> QED BY <1>1, <3>4, <3>5, <3>6
  <2> QED BY <2>1, <2>2
<1> DEFINE more == Append(blocks, closed)
           d == [i \in 0..N + 1 |-> IF i = N + 1 THEN n ELSE c[i]]
<1>6. /\ more \in Seq(Seq(Item)) /\ Len(more) = N + 1 /\ more[N + 1] = closed
      /\ \A i \in 1..N : more[i] = blocks[i]
  <2> DEFINE S == Seq(Item)
  <2>1. blocks \in Seq(S) /\ closed \in S BY <1>2, <1>5
  <2> HIDE DEF S, more
  <2>2. /\ Append(blocks, closed) \in Seq(S) /\ Len(Append(blocks, closed)) = N + 1
        /\ Append(blocks, closed)[N + 1] = closed
        /\ \A i \in 1..N : Append(blocks, closed)[i] = blocks[i]
    BY <1>2, <2>1, AppendProperties
  <2> QED BY <2>2 DEF more, S
<1>7. /\ d \in [0..N + 1 -> 0..Len(names)] /\ d[N + 1] = n /\ \A i \in 0..N : d[i] = c[i]
  <2>1. c \in [0..N -> 0..Len(names)] BY <1>1, <1>2 DEF Listed
  <2>2. N + 1 \in 0..N + 1 /\ \A i \in 0..N : i \in 0..N + 1 /\ i # N + 1 OBVIOUS
  <2>3. \A i \in 0..N + 1 : i = N + 1 \/ i \in 0..N OBVIOUS
  <2> QED BY <2>1, <2>2, <2>3
<1> HIDE DEF more, d
<1>8. Listed(more, names, size, d)
  <2>1. d[0] = 0
    <3>1. 0 \in 0..N OBVIOUS
    <3> QED BY <1>1, <1>7, <3>1 DEF Listed
  <2>2. ASSUME NEW i \in 1..N + 1
        PROVE  Shown(more[i], names, d[i - 1], d[i]) /\ ~HasEnd(more[i]) /\ Size(more[i]) = size
    <3>1. CASE i = N + 1
      <4>1. i - 1 = N /\ N \in 0..N BY <3>1
      <4>2. d[i - 1] = from /\ d[i] = n /\ more[i] = closed BY <1>3, <1>6, <1>7, <3>1, <4>1
      <4> QED BY <1>5, <4>2
    <3>2. CASE i \in 1..N
      <4>1. i - 1 \in 0..N /\ i \in 0..N BY <3>2
      <4>2. d[i - 1] = c[i - 1] /\ d[i] = c[i] /\ more[i] = blocks[i] BY <1>6, <1>7, <3>2, <4>1
      <4> QED BY <1>1, <1>2, <3>2, <4>2 DEF Listed
    <3> QED BY <3>1, <3>2
  <2> QED BY <1>6, <1>7, <2>1, <2>2 DEF Listed
<1>9. Open(<<>>, names, d[Len(more)], n)
  <2>1. <<>> \in Seq(Item) /\ Len(<<>>) = 0 OBVIOUS
  <2> QED BY <1>6, <1>7, <2>1 DEF Open
<1>10. Size(<<>>) + size = size
  <2>1. Size(<<>>) = 0 BY <1>4, SizeIs
  <2> QED BY <2>1
<1>11. Filling(more, <<>>, size, names, n, size) BY <1>8, <1>9, <1>10 DEF Filling
<1> QED BY <1>11 DEF more

LEMMA EntryFills ==
    ASSUME NEW names \in Seq(Nat), NEW size \in Nat, NEW n \in 0..Len(names), NEW to \in 1..Len(names), to = n + 1,
           NEW blocks, NEW block, NEW rem, Filling(blocks, block, rem, names, n, size),
           NEW entry \in Item, entry.type = "entry", entry.name = names[to], rem >= entry.size
    PROVE  Filling(blocks, Append(block, entry), rem - entry.size, names, to, size)
<1>1. PICK c : /\ Listed(blocks, names, size, c) /\ Open(block, names, c[Len(blocks)], n)
               /\ rem \in Nat /\ Size(block) + rem = size
  BY DEF Filling
<1>2. PICK N \in Nat : N = Len(blocks) BY <1>1 DEF Listed
<1>3. PICK from \in 0..Len(names) : from = c[N]
  <2>1. c \in [0..N -> 0..Len(names)] BY <1>1, <1>2 DEF Listed
  <2>2. N \in 0..N OBVIOUS
  <2> QED BY <2>1, <2>2
<1>4. block \in Seq(Item) /\ from <= n /\ Len(block) = n - from
      /\ \A i \in 1..n - from : block[i].type = "entry" /\ block[i].name = names[from + i]
  BY <1>1, <1>2, <1>3 DEF Open
<1> DEFINE more == Append(block, entry)
<1>5. PICK k \in Nat : k = n - from /\ k = Len(block) /\ k + 1 = to - from /\ from + (k + 1) = to BY <1>4
<1>6. /\ more \in Seq(Item) /\ Len(more) = k + 1 /\ more[k + 1] = entry /\ \A i \in 1..k : more[i] = block[i]
  <2>1. /\ more \in Seq(Item) /\ Len(more) = Len(block) + 1 /\ more[Len(block) + 1] = entry
        /\ \A i \in 1..Len(block) : more[i] = block[i]
    <3>1. block \in Seq(Item) BY <1>4
    <3> QED BY <3>1, AppendProperties
  <2> HIDE DEF more
  <2> QED BY <1>5, <2>1
<1>7. Size(more) = Size(block) + entry.size /\ Size(block) \in Nat BY <1>4, SizeIs
<1> HIDE DEF more
<1>8. \A i \in 1..k + 1 : more[i].type = "entry" /\ more[i].name = names[from + i]
  <2>1. \A i \in 1..k + 1 : i \in 1..k \/ i = k + 1 OBVIOUS
  <2> QED BY <1>4, <1>5, <1>6, <2>1
<1>9. Open(more, names, from, to) BY <1>4, <1>5, <1>6, <1>8 DEF Open
<1>10. entry.size \in Nat BY DEF Item
<1>11. rem - entry.size \in Nat /\ Size(more) + (rem - entry.size) = size
  <2>1. \A i, j, l, m \in Nat : i >= j /\ m = l + j => i - j \in Nat /\ m + (i - j) = l + i OBVIOUS
  <2>2. PICK i, j, l, m \in Nat : i = rem /\ j = entry.size /\ l = Size(block) /\ m = Size(more) /\ m = l + j
    <3>1. Size(more) \in Nat BY <1>7, <1>10
    <3> QED BY <1>1, <1>7, <1>10, <3>1, Zenon
  <2>3. i - j \in Nat /\ m + (i - j) = l + i
    <3>1. i >= j BY <2>2
    <3>2. i \in Nat /\ j \in Nat /\ l \in Nat /\ m \in Nat /\ m = l + j BY <2>2
    <3> QED BY <3>1, <3>2, <2>1
  <2>4. l + i = size BY <1>1, <2>2
  <2> QED BY <2>2, <2>3, <2>4, Zenon
<1>12. Filling(blocks, more, rem - entry.size, names, to, size) BY <1>1, <1>2, <1>3, <1>9, <1>11 DEF Filling
<1> QED BY <1>12 DEF more

(* build_dir_listing(), step by step. *)
AnyItem == [type : {"entry", "skip", "end"}, name : Nat, size : Int]
DL == [blocks : Seq(Seq(AnyItem)), block : Seq(AnyItem), rem : Int, over : BOOLEAN]

LEMMA ItemIsAny == Item \subseteq AnyItem
BY DEF Item, AnyItem

LEMMA WrittenIs ==
    ASSUME NEW dl \in DL, NEW item \in AnyItem, NEW d, d = Written(dl, item)
    PROVE  /\ d \in DL /\ d.blocks = dl.blocks /\ d.block = Append(dl.block, item)
           /\ d.rem = dl.rem - item.size
           /\ d.over = FALSE <=> dl.over = FALSE /\ dl.rem >= item.size
<1> DEFINE more == Append(dl.block, item)
           b == dl.over \/ dl.rem < item.size
<1>1. dl.blocks \in Seq(Seq(AnyItem)) /\ dl.block \in Seq(AnyItem) /\ dl.rem \in Int /\ dl.over \in BOOLEAN BY DEF DL
<1>2. item.size \in Int BY DEF AnyItem
<1>3. more \in Seq(AnyItem) BY <1>1, AppendProperties
<1>4. b \in BOOLEAN /\ (b = FALSE <=> dl.over = FALSE /\ dl.rem >= item.size) BY <1>1, <1>2
<1>5. d = [dl EXCEPT !.block = more, !.rem = dl.rem - item.size, !.over = b] BY DEF Written
<1> HIDE DEF more, b
<1>7. dl.rem - item.size \in Int BY <1>1, <1>2
<1>8. d \in DL /\ d.blocks = dl.blocks /\ d.block = more /\ d.rem = dl.rem - item.size /\ d.over = b
  <2>1. PICK m \in Seq(AnyItem), k \in Int, o \in BOOLEAN : m = more /\ k = dl.rem - item.size /\ o = b
    BY <1>3, <1>4, <1>7
  <2>2. d = [dl EXCEPT !.block = m, !.rem = k, !.over = o] BY <1>5, <2>1, Zenon
  <2>3. d \in DL /\ d.blocks = dl.blocks /\ d.block = m /\ d.rem = k /\ d.over = o BY <2>2 DEF DL
  <2> QED BY <2>1, <2>3, Zenon
<1> QED BY <1>4, <1>8 DEF more

Closes(d, dl, closed, size) ==
    /\ d \in DL /\ d.block = <<>> /\ d.rem = size /\ (d.over = FALSE <=> dl.over = FALSE)
    /\ d.blocks = Append(dl.blocks, closed)
LEMMA ClosedIs ==
    ASSUME NEW dl \in DL, NEW size \in Nat
    PROVE  Closes(Closed(dl, size), dl, Shut(dl.block, dl.rem), size)
<1> DEFINE closed == Shut(dl.block, dl.rem)
           d == Closed(dl, size)
           more == Append(dl.blocks, closed)
<1>1. dl.blocks \in Seq(Seq(AnyItem)) /\ dl.block \in Seq(AnyItem) /\ dl.rem \in Int /\ dl.over \in BOOLEAN BY DEF DL
<1>2. closed \in Seq(AnyItem)
  <2>1. PICK skip : skip = Skip(dl.rem) OBVIOUS
  <2>2. skip \in AnyItem BY <1>1, <2>1 DEF Skip, AnyItem
  <2>3. Append(dl.block, skip) \in Seq(AnyItem) BY <1>1, <2>2, AppendProperties
  <2> QED BY <1>1, <2>1, <2>3 DEF Shut
<1> HIDE DEF closed
<1>3. more \in Seq(Seq(AnyItem))
  <2> DEFINE S == Seq(AnyItem)
  <2>1. dl.blocks \in Seq(S) /\ closed \in S BY <1>1, <1>2
  <2> HIDE DEF S
  <2>2. more \in Seq(S) BY <2>1, AppendProperties
  <2> QED BY <2>2 DEF S
<1>4. d = [dl EXCEPT !.blocks = more, !.block = <<>>, !.rem = size] BY DEF Closed, Shut, closed
<1> HIDE DEF more, d
<1>6. <<>> \in Seq(AnyItem) /\ size \in Int OBVIOUS
<1>7. d \in DL /\ d.block = <<>> /\ d.rem = size /\ (d.over = FALSE <=> dl.over = FALSE) /\ d.blocks = more
  <2>1. PICK m \in Seq(Seq(AnyItem)), k \in Int, e \in Seq(AnyItem) : m = more /\ k = size /\ e = <<>>
    BY <1>3, <1>6
  <2>2. d = [dl EXCEPT !.blocks = m, !.block = e, !.rem = k] BY <1>4, <2>1, Zenon
  <2>3. d \in DL /\ d.blocks = m /\ d.block = e /\ d.rem = k /\ d.over = dl.over BY <2>2 DEF DL
  <2> QED BY <2>1, <2>3
<1> QED BY <1>7 DEF more, d, closed, Closes

LEMMA EntryIs ==
    ASSUME NEW name \in Nat
    PROVE  /\ Entry(name) \in Item /\ Entry(name).type = "entry" /\ Entry(name).name = name
           /\ Entry(name).size = Padded(Needs(name)) /\ Needs(name) \in Nat /\ Padded(Needs(name)) \in Nat
           /\ \A rem \in Nat : rem % 4 = 0 /\ rem >= Needs(name) =>
                  rem >= Padded(Needs(name)) /\ (rem - Padded(Needs(name))) % 4 = 0
<1>1. PICK n \in Nat : n = Needs(name) BY ListingAssumption DEF Needs
<1>2. Padded(n) \in Nat BY DEF Padded
<1>3. ASSUME NEW rem \in Nat, rem % 4 = 0, rem >= n PROVE rem >= Padded(n) /\ (rem - Padded(n)) % 4 = 0
  BY <1>3 DEF Padded
<1>4. PICK p \in Nat : p = Padded(n) BY <1>2
<1>5. Entry(name) = [type |-> "entry", name |-> name, size |-> p] BY <1>1, <1>4 DEF Entry
<1>6. /\ Entry(name) \in Item /\ Entry(name).type = "entry" /\ Entry(name).name = name /\ Entry(name).size = p
  BY <1>5 DEF Item
<1> QED BY <1>1, <1>2, <1>3, <1>4, <1>6

LEMMA EndIs == End \in Item /\ End.type = "end" /\ End.size = RDHSIZE
BY ListingAssumption DEF End, Item

(* Room for every name: nothing is written beyond the end of a block. *)
Built(dl, names, n, size) ==
    /\ dl \in DL
    /\ dl.over = FALSE => Filling(dl.blocks, dl.block, dl.rem, names, n, size)
    /\ Sane(size, names) => dl.over = FALSE /\ dl.rem % 4 = 0

LEMMA AddedBuilt ==
    ASSUME NEW names \in Seq(Nat), NEW size \in Nat, size >= 1, NEW n \in 0..Len(names), NEW to \in 1..Len(names),
           to = n + 1, NEW dl, Built(dl, names, n, size), NEW d, d = Added(dl, names[to], size)
    PROVE  Built(d, names, to, size)
<1>1. dl \in DL /\ dl.over \in BOOLEAN BY DEF Built, DL
<1>2. CASE dl.over = TRUE
  <2>1. d = dl BY <1>2 DEF Added
  <2> QED BY <1>1, <1>2, <2>1 DEF Built
<1>3. CASE dl.over = FALSE
  <2> DEFINE name == names[to]
             x == IF Fits(name, dl.rem) THEN dl ELSE Closed(dl, size)
  <2>1. name \in Nat OBVIOUS
  <2>2. PICK entry \in Item : /\ entry = Entry(name) /\ entry.type = "entry" /\ entry.name = name
                              /\ entry.size = Padded(Needs(name)) /\ entry.size \in Nat
    BY <2>1, EntryIs
  <2>3. d = Written(x, entry) BY <1>3, <2>2 DEF Added
  <2> HIDE DEF name
  <2>4. /\ x \in DL /\ x.over = FALSE /\ Filling(x.blocks, x.block, x.rem, names, n, size)
        /\ Sane(size, names) => x.rem % 4 = 0 /\ x.rem >= Padded(Needs(name))
    <3>1. Filling(dl.blocks, dl.block, dl.rem, names, n, size) BY <1>3 DEF Built
    <3>2. Sane(size, names) => dl.rem % 4 = 0 BY DEF Built
    <3>3. dl.rem \in Nat BY <3>1 DEF Filling
    <3>4. CASE Fits(name, dl.rem)
      <4>1. x = dl BY <3>4
      <4>2. dl.rem >= Needs(name) BY <3>4 DEF Fits
      <4>3. dl.rem % 4 = 0 => dl.rem >= Padded(Needs(name)) BY <2>1, <3>3, <4>2, EntryIs
      <4> QED BY <1>1, <1>3, <3>1, <3>2, <4>1, <4>3
    <3>5. CASE ~Fits(name, dl.rem)
      <4>1. x = Closed(dl, size) BY <3>5
      <4> HIDE DEF x
      <4>2. PICK closed : closed = Shut(dl.block, dl.rem) OBVIOUS
      <4>3. /\ x \in DL /\ x.block = <<>> /\ x.rem = size /\ (x.over = FALSE <=> dl.over = FALSE)
            /\ x.blocks = Append(dl.blocks, closed)
        <5>1. Closes(x, dl, closed, size) BY <1>1, <4>1, <4>2, ClosedIs
        <5> QED BY <5>1 DEF Closes
      <4>4. PICK a, b, k : a = dl.blocks /\ b = dl.block /\ k = dl.rem OBVIOUS
      <4>5. Filling(a, b, k, names, n, size) /\ closed = Shut(b, k) BY <3>1, <4>2, <4>4
      <4>6. Filling(Append(a, closed), <<>>, size, names, n, size) BY <4>5, ClosedFills
      <4>7. Sane(size, names) => size % 4 = 0 /\ size >= Padded(Needs(name))
        <5>1. DOMAIN names = 1..Len(names) OBVIOUS
        <5>2. Padded(Needs(name)) \in Nat BY <2>1, EntryIs
        <5> QED BY <5>1, <5>2 DEF Sane, name
      <4> QED BY <1>3, <4>3, <4>4, <4>6, <4>7
    <3> QED BY <3>4, <3>5
  <2> HIDE DEF x
  <2>5. /\ d \in DL /\ d.blocks = x.blocks /\ d.block = Append(x.block, entry) /\ d.rem = x.rem - entry.size
        /\ d.over = FALSE <=> x.over = FALSE /\ x.rem >= entry.size
    <3>1. entry \in AnyItem BY ItemIsAny
    <3> QED BY <2>3, <2>4, <3>1, WrittenIs
  <2>6. ASSUME d.over = FALSE PROVE Filling(d.blocks, d.block, d.rem, names, to, size)
    <3>1. x.rem >= entry.size BY <2>5, <2>6
    <3>2. PICK a, b, k : a = x.blocks /\ b = x.block /\ k = x.rem OBVIOUS
    <3>3. Filling(a, b, k, names, n, size) /\ k >= entry.size BY <2>4, <3>1, <3>2
    <3>4. entry.name = names[to] BY <2>2 DEF name
    <3>5. Filling(a, Append(b, entry), k - entry.size, names, to, size) BY <2>2, <3>3, <3>4, EntryFills
    <3> QED BY <2>5, <3>2, <3>5
  <2>7. ASSUME Sane(size, names) PROVE d.over = FALSE /\ d.rem % 4 = 0
    <3>1. x.rem % 4 = 0 /\ x.rem >= entry.size BY <2>2, <2>4, <2>7
    <3>2. x.rem \in Nat BY <2>4 DEF Filling
    <3>3. (x.rem - entry.size) % 4 = 0
      <4>1. PICK k \in Nat, p \in Nat : k = x.rem /\ p = entry.size /\ p = Padded(Needs(name)) BY <2>2, <3>2
      <4>2. p % 4 = 0 BY <2>1, <4>1, ListingAssumption DEF Padded, Needs
      <4>3. k % 4 = 0 /\ k >= p BY <3>1, <4>1
      <4>4. (k - p) % 4 = 0 BY <4>2, <4>3
      <4> QED BY <4>1, <4>4
    <3> QED BY <2>4, <2>5, <3>1, <3>3
  <2> QED BY <2>5, <2>6, <2>7 DEF Built
<1> QED BY <1>1, <1>2, <1>3

(* A listing that is complete: which names are in which block. *)
Formed(blocks, names, size, c) ==
    /\ blocks \in Seq(Seq(Item)) /\ Len(blocks) >= 1
    /\ c \in [0..Len(blocks) -> 0..Len(names)] /\ c[0] = 0 /\ c[Len(blocks)] = Len(names)
    /\ \A i \in 1..Len(blocks) : /\ Shown(blocks[i], names, c[i - 1], c[i])
                                 /\ HasEnd(blocks[i]) <=> i = Len(blocks)
                                 /\ Size(blocks[i]) \in 1..size
    /\ \A i \in 1..Len(blocks) - 1 : Size(blocks[i]) = size

(* The last block is as long as it is. *)
LEMMA EndForms ==
    ASSUME NEW names \in Seq(Nat), NEW size \in Nat, size >= 1,
           NEW blocks, NEW block, NEW rem, Filling(blocks, block, rem, names, Len(names), size), rem >= RDHSIZE
    PROVE  \E c : Formed(Append(blocks, Append(block, End)), names, size, c)
<1>1. PICK n \in Nat : n = Len(names) /\ n \in 0..Len(names) OBVIOUS
<1>2. PICK c : /\ Listed(blocks, names, size, c) /\ Open(block, names, c[Len(blocks)], n)
               /\ rem \in Nat /\ Size(block) + rem = size
  BY <1>1 DEF Filling
<1>3. PICK N \in Nat : N = Len(blocks) /\ blocks \in Seq(Seq(Item)) BY <1>2 DEF Listed
<1>4. PICK from \in 0..Len(names) : from = c[N]
  <2>1. c \in [0..N -> 0..Len(names)] BY <1>2, <1>3 DEF Listed
  <2>2. N \in 0..N OBVIOUS
  <2> QED BY <2>1, <2>2
<1>5. block \in Seq(Item) /\ n \in from..Len(names) /\ Open(block, names, from, n)
  BY <1>1, <1>2, <1>3, <1>4 DEF Open
<1>6. PICK end \in Item : end = End /\ end.type = "end" /\ end.size = RDHSIZE /\ end.size >= 1
  BY EndIs, ListingAssumption
<1> DEFINE closed == Append(block, end)
<1>7. /\ closed \in Seq(Item) /\ Shown(closed, names, from, n) /\ HasEnd(closed)
      /\ Size(closed) = Size(block) + end.size
  <2>1. closed \in Seq(Item) BY <1>5, AppendProperties
  <2>2. Size(closed) = Size(block) + end.size BY <1>5, SizeIs
  <2>3. Shown(closed, names, from, n) /\ HasEnd(closed) BY <1>5, <1>6, OpenShows
  <2> QED BY <2>1, <2>2, <2>3
<1>8. Size(closed) \in 1..size
  <2>1. Size(block) \in Nat BY <1>5, SizeIs
  <2>2. end.size \in Nat /\ end.size <= rem BY <1>6 DEF Item
  <2> HIDE DEF closed
  <2> QED BY <1>2, <1>6, <1>7, <2>1, <2>2
<1> HIDE DEF closed
<1> DEFINE more == Append(blocks, closed)
           d == [i \in 0..N + 1 |-> IF i = N + 1 THEN n ELSE c[i]]
<1>9. /\ more \in Seq(Seq(Item)) /\ Len(more) = N + 1 /\ more[N + 1] = closed
      /\ \A i \in 1..N : more[i] = blocks[i]
  <2> DEFINE S == Seq(Item)
  <2>1. blocks \in Seq(S) /\ closed \in S BY <1>3, <1>7
  <2> HIDE DEF S, more
  <2>2. /\ Append(blocks, closed) \in Seq(S) /\ Len(Append(blocks, closed)) = N + 1
        /\ Append(blocks, closed)[N + 1] = closed
        /\ \A i \in 1..N : Append(blocks, closed)[i] = blocks[i]
    BY <1>3, <2>1, AppendProperties
  <2> QED BY <2>2 DEF more, S
<1>10. /\ d \in [0..N + 1 -> 0..Len(names)] /\ d[N + 1] = n /\ \A i \in 0..N : d[i] = c[i]
  <2>1. c \in [0..N -> 0..Len(names)] BY <1>2, <1>3 DEF Listed
  <2>2. N + 1 \in 0..N + 1 /\ \A i \in 0..N : i \in 0..N + 1 /\ i # N + 1 OBVIOUS
  <2>3. \A i \in 0..N + 1 : i = N + 1 \/ i \in 0..N OBVIOUS
  <2> QED BY <1>1, <2>1, <2>2, <2>3
<1> HIDE DEF more, d
<1>11. d[0] = 0
  <2>1. 0 \in 0..N OBVIOUS
  <2> QED BY <1>2, <1>10, <2>1 DEF Listed
<1>12. ASSUME NEW i \in 1..N
       PROVE  Shown(more[i], names, d[i - 1], d[i]) /\ ~HasEnd(more[i]) /\ Size(more[i]) = size /\ i # N + 1
  <2>1. i - 1 \in 0..N /\ i \in 0..N /\ i # N + 1 OBVIOUS
  <2>2. d[i - 1] = c[i - 1] /\ d[i] = c[i] /\ more[i] = blocks[i] BY <1>9, <1>10, <2>1
  <2> QED BY <1>2, <1>3, <2>1, <2>2 DEF Listed
<1>13. Shown(more[N + 1], names, d[N + 1 - 1], d[N + 1]) /\ HasEnd(more[N + 1]) /\ Size(more[N + 1]) \in 1..size
  <2>1. N + 1 - 1 = N /\ N \in 0..N OBVIOUS
  <2>2. d[N + 1 - 1] = from /\ d[N + 1] = n /\ more[N + 1] = closed BY <1>4, <1>9, <1>10, <2>1
  <2> QED BY <1>7, <1>8, <2>2
<1>14. Formed(more, names, size, d)
  <2>1. size \in 1..size OBVIOUS
  <2>2. \A i \in 1..N + 1 : i \in 1..N \/ i = N + 1 OBVIOUS
  <2>3. \A i \in 1..N + 1 : /\ Shown(more[i], names, d[i - 1], d[i])
                            /\ HasEnd(more[i]) <=> i = N + 1
                            /\ Size(more[i]) \in 1..size
    <3> SUFFICES ASSUME NEW i \in 1..N + 1
                 PROVE  /\ Shown(more[i], names, d[i - 1], d[i])
                        /\ HasEnd(more[i]) <=> i = N + 1
                        /\ Size(more[i]) \in 1..size
      OBVIOUS
    <3>1. CASE i \in 1..N BY <1>12, <2>1, <3>1
    <3>2. CASE i = N + 1 BY <1>13, <3>2
    <3> QED BY <2>2, <3>1, <3>2
  <2>4. N + 1 - 1 = N /\ N + 1 >= 1 OBVIOUS
  <2>5. \A i \in 1..N + 1 - 1 : Size(more[i]) = size BY <1>12, <2>4
  <2> QED BY <1>1, <1>9, <1>10, <1>11, <2>3, <2>4, <2>5 DEF Formed
<1> QED BY <1>6, <1>14 DEF more, closed

(* append_dir_listing() during the work.                                   *)
ClosedGoes(d, dl, names, n, size) ==
    /\ d \in DL /\ (d.over = FALSE <=> dl.over = FALSE) /\ d.rem = size
    /\ dl.over = FALSE => Filling(d.blocks, d.block, d.rem, names, n, size)
LEMMA ClosedBuilt ==
    ASSUME NEW names \in Seq(Nat), NEW size \in Nat, size >= 1, NEW n \in 0..Len(names),
           NEW dl, Built(dl, names, n, size)
    PROVE  ClosedGoes(Closed(dl, size), dl, names, n, size)
<1> DEFINE d == Closed(dl, size)
<1> HIDE DEF d
<1>1. dl \in DL /\ dl.over \in BOOLEAN BY DEF Built, DL
<1>2. PICK closed : closed = Shut(dl.block, dl.rem) OBVIOUS
<1>3. /\ d \in DL /\ d.block = <<>> /\ d.rem = size /\ (d.over = FALSE <=> dl.over = FALSE)
      /\ d.blocks = Append(dl.blocks, closed)
  <2>1. Closes(d, dl, closed, size) BY <1>1, <1>2, ClosedIs DEF d
  <2> QED BY <2>1 DEF Closes
<1>4. ASSUME dl.over = FALSE PROVE Filling(d.blocks, <<>>, size, names, n, size)
  <2>1. PICK u, v, k : u = dl.blocks /\ v = dl.block /\ k = dl.rem OBVIOUS
  <2>2. Filling(u, v, k, names, n, size) /\ closed = Shut(v, k) BY <1>2, <1>4, <2>1 DEF Built
  <2>3. Filling(Append(u, closed), <<>>, size, names, n, size) BY <2>2, ClosedFills
  <2> QED BY <1>3, <2>1, <2>3
<1> QED BY <1>3, <1>4 DEF d, ClosedGoes

(* build_dir_listing(): its result is a complete listing, or it was        *)
(* written beyond a block, which a sane packetsize excludes.               *)
LEMMA BuildIs ==
    ASSUME NEW names \in Seq(Nat), NEW size \in Nat, size >= RDHSIZE, NEW b, b = Build(names, size)
    PROVE  /\ b.over \in BOOLEAN
           /\ b.over = FALSE => \E c : Formed(b.blocks, names, size, c)
           /\ Sane(size, names) => b.over = FALSE
<1>1. size >= 1 /\ RDHSIZE \in Nat BY ListingAssumption
<1> DEFINE N == Len(names)
           x == Start(size)
           Is(s) == s = [n \in 0..N |-> IF n = 0 THEN x ELSE Added(s[n - 1], names[n], size)]
           built == CHOOSE s : Is(s)
           T == [n \in 1..N |-> [dl \in DL |-> Added(dl, names[n], size)]]
           all == built[N]
           ready == IF all.rem < RDHSIZE THEN Closed(all, size) ELSE all
           last == Written(ready, End)
<1>2. N \in Nat OBVIOUS
<1>3. b = [last EXCEPT !.blocks = Append(@, last.block)] BY DEF Build
<1>4. Built(x, names, 0, size)
  <2>1. x = [blocks |-> <<>>, block |-> <<>>, rem |-> size, over |-> FALSE] BY DEF Start
  <2>2. \A o \in BOOLEAN : \A y : y = [blocks |-> <<>>, block |-> <<>>, rem |-> size, over |-> o] =>
            y \in DL /\ y.blocks = <<>> /\ y.block = <<>> /\ y.rem = size /\ y.over = o
    <3>1. <<>> \in Seq(Seq(AnyItem)) /\ <<>> \in Seq(AnyItem) OBVIOUS
    <3> QED BY <3>1 DEF DL
  <2> HIDE DEF x
  <2>3. x \in DL /\ x.blocks = <<>> /\ x.block = <<>> /\ x.rem = size /\ x.over = FALSE BY <2>1, <2>2, Zenon
  <2>4. Filling(<<>>, <<>>, size, names, 0, size) BY StartFills
  <2> QED BY <2>3, <2>4 DEF Built, Sane
<1>5. \A n \in 1..N, dl \in DL : Added(dl, names[n], size) \in DL
  <2> SUFFICES ASSUME NEW n \in 1..N, NEW dl \in DL PROVE Added(dl, names[n], size) \in DL
    OBVIOUS
  <2>1. names[n] \in Nat OBVIOUS
  <2>2. PICK entry \in AnyItem : entry = Entry(names[n]) BY <2>1, EntryIs, ItemIsAny
  <2>3. PICK d : d = Closed(dl, size) OBVIOUS
  <2>4. d \in DL BY <2>3, ClosedIs DEF Closes
  <2>5. Written(dl, entry) \in DL /\ Written(d, entry) \in DL BY <2>4, WrittenIs
  <2> QED BY <2>2, <2>3, <2>5 DEF Added
<1> HIDE DEF x
<1>6. x \in DL BY <1>4 DEF Built
<1>7. T \in [1..N -> [DL -> DL]] BY <1>5
<1>8. \A n \in 1..N, dl \in DL : T[n][dl] = Added(dl, names[n], size) OBVIOUS
<1> HIDE DEF N, T
<1>9. PICK r : Iterates(r, N, DL, x, T) BY <1>2, <1>6, <1>7, Iterated
<1>10. ASSUME NEW n \in 1..N PROVE r[n] = Added(r[n - 1], names[n], size)
  <2>1. n - 1 \in 0..N BY <1>2
  <2>2. r[n - 1] \in DL /\ r[n] = T[n][r[n - 1]] BY <1>9, <2>1 DEF Iterates
  <2> QED BY <1>8, <2>2
<1>11. Is(r)
  <2>1. \A n \in 0..N : r[n] = IF n = 0 THEN x ELSE Added(r[n - 1], names[n], size)
    BY <1>2, <1>9, <1>10 DEF Iterates
  <2> QED BY <1>9, <2>1 DEF Iterates
<1>12. Is(built) BY <1>11, Zenon
<1> HIDE DEF built
<1>13. built[0] = x /\ \A n \in 1..N : built[n] = Added(built[n - 1], names[n], size) BY <1>2, <1>12
<1> DEFINE Q == {n \in 0..N : Built(built[n], names, n, size)}
<1>14. 0 \in Q BY <1>2, <1>4, <1>13
<1>15. ASSUME NEW n \in 0..N - 1, n \in Q PROVE n + 1 \in Q
  <2>1. PICK to \in 1..N : to = n + 1 /\ to - 1 = n /\ n \in 0..N /\ to \in 0..N BY <1>2
  <2>2. n \in 0..Len(names) /\ to \in 1..Len(names) BY <2>1 DEF N
  <2>3. PICK dl, d : dl = built[n] /\ d = built[to] OBVIOUS
  <2>4. Built(dl, names, n, size) /\ d = Added(dl, names[to], size) BY <1>13, <1>15, <2>1, <2>3
  <2>5. Built(d, names, to, size) BY <1>1, <2>1, <2>2, <2>4, AddedBuilt
  <2> QED BY <2>1, <2>3, <2>5
<1>16. N \in Q
  <2> HIDE DEF Q
  <2>1. 0..N \subseteq Q BY <1>2, <1>14, <1>15, Induction
  <2>2. N \in 0..N BY <1>2
  <2> QED BY <2>1, <2>2
<1>17. Built(all, names, N, size) BY <1>16
<1> HIDE DEF all
<1>18. all \in DL /\ all.rem \in Int /\ all.over \in BOOLEAN BY <1>17 DEF Built, DL
<1>19. /\ ready \in DL /\ (ready.over = FALSE <=> all.over = FALSE)
       /\ all.over = FALSE => /\ Filling(ready.blocks, ready.block, ready.rem, names, N, size)
                              /\ ready.rem >= RDHSIZE
  <2>1. CASE ~(all.rem < RDHSIZE)
    <3>1. ready = all BY <2>1
    <3>2. all.rem >= RDHSIZE BY <1>1, <1>18, <2>1
    <3> QED BY <1>17, <1>18, <3>1, <3>2 DEF Built
  <2>2. CASE all.rem < RDHSIZE
    <3>1. ready = Closed(all, size) BY <2>2
    <3> HIDE DEF ready
    <3>2. PICK n \in 0..Len(names) : n = N BY <1>2 DEF N
    <3>3. Built(all, names, n, size) BY <1>17, <3>2
    <3>4. ClosedGoes(ready, all, names, n, size) BY <1>1, <3>1, <3>3, ClosedBuilt
    <3> QED BY <1>1, <3>2, <3>4 DEF ClosedGoes
  <2> QED BY <2>1, <2>2
<1> HIDE DEF ready
<1>20. /\ last \in DL /\ last.blocks = ready.blocks /\ last.block = Append(ready.block, End)
       /\ last.over = FALSE <=> ready.over = FALSE /\ ready.rem >= RDHSIZE
  <2>1. End \in AnyItem /\ End.size = RDHSIZE BY EndIs, ItemIsAny
  <2>2. PICK end : end = End OBVIOUS
  <2>3. /\ last \in DL /\ last.blocks = ready.blocks /\ last.block = Append(ready.block, end)
        /\ last.over = FALSE <=> ready.over = FALSE /\ ready.rem >= end.size
    BY <1>19, <2>1, <2>2, WrittenIs
  <2> QED BY <2>1, <2>2, <2>3
<1> HIDE DEF last
<1>21. b.over = last.over /\ b.blocks = Append(last.blocks, last.block)
  <2>1. PICK bs : bs = Append(last.blocks, last.block) OBVIOUS
  <2>2. b = [last EXCEPT !.blocks = bs] BY <1>3, <2>1
  <2> QED BY <1>20, <2>1, <2>2 DEF DL
<1>22. last.over \in BOOLEAN BY <1>20 DEF DL
<1>23. ASSUME b.over = FALSE PROVE \E c : Formed(b.blocks, names, size, c)
  <2>1. PICK u, v, k : u = ready.blocks /\ v = ready.block /\ k = ready.rem OBVIOUS
  <2>2. Filling(u, v, k, names, Len(names), size) /\ k >= RDHSIZE
    BY <1>19, <1>20, <1>21, <1>23, <2>1 DEF N
  <2>3. \E c : Formed(Append(u, Append(v, End)), names, size, c) BY <1>1, <2>2, EndForms
  <2>4. b.blocks = Append(u, Append(v, End)) BY <1>20, <1>21, <2>1
  <2> QED BY <2>3, <2>4
<1>24. Sane(size, names) => b.over = FALSE
  <2>1. Sane(size, names) => all.over = FALSE BY <1>17 DEF Built
  <2> QED BY <1>19, <1>20, <1>21, <2>1
<1> QED BY <1>21, <1>22, <1>23, <1>24

-----------------------------------------------------------------------------
(* get_dir_blk(): a client goes from position to position in steps of the  *)
(* block size.                                                             *)
LEMMA Times ==
    ASSUME NEW s \in Nat, s >= 1, NEW a \in Nat
    PROVE  /\ a * s \in Nat /\ (a + 1) * s = a * s + s /\ (a * s) % s = 0 /\ (a * s) \div s = a
           /\ \A k \in Nat : (a * s < k * s <=> a < k) /\ (a < k => a * s + s <= k * s)
OBVIOUS

(* A listing that changes from bo to bn after k requests: where its blocks *)
(* are when a client comes to them, the i-th block with its i-th request.  *)
Situation(x) ==
    /\ x.size \in Nat /\ x.size >= 1 /\ x.k \in Nat /\ x.no \in Seq(Nat) /\ x.nn \in Seq(Nat)
    /\ Formed(x.bo, x.no, x.size, x.co) /\ Formed(x.bn, x.nn, x.size, x.cn)
Dir(x) == Changing(x.bo, x.bn, x.k, x.size)
Src(x, i) == IF i <= x.k THEN x.bo ELSE x.bn
Blk(x, i) == Src(x, i)[i]
Has(x, i) == i <= Len(Src(x, i))
Bytes(x, i) == Size(Blk(x, i))

(* What a complete listing is to a reader of it, block by block.           *)
LEMMA FormedIs ==
    ASSUME NEW blocks, NEW names, NEW size \in Nat, NEW c, Formed(blocks, names, size, c)
    PROVE  /\ blocks \in Seq(Seq(Item)) /\ Len(blocks) \in Nat /\ Len(blocks) >= 1
           /\ \A i \in 1..Len(blocks) :
                  /\ blocks[i] \in Seq(Item) /\ blocks[i] # <<>> /\ blocks[i][1].type # "error"
                  /\ Size(blocks[i]) \in 1..size
                  /\ HasEnd(blocks[i]) <=> i = Len(blocks)
                  /\ i < Len(blocks) => Size(blocks[i]) = size
           /\ Total(blocks) = (Len(blocks) - 1) * size + Size(blocks[Len(blocks)])
<1>1. blocks \in Seq(Seq(Item)) /\ Len(blocks) \in Nat /\ Len(blocks) >= 1
  <2>1. blocks \in Seq(Seq(Item)) /\ Len(blocks) >= 1 BY DEF Formed
  <2> QED BY <2>1, LenProperties
<1>2. ASSUME NEW i \in 1..Len(blocks)
      PROVE  /\ blocks[i] \in Seq(Item) /\ blocks[i] # <<>> /\ blocks[i][1].type # "error"
             /\ Size(blocks[i]) \in 1..size
             /\ HasEnd(blocks[i]) <=> i = Len(blocks)
             /\ i < Len(blocks) => Size(blocks[i]) = size
  <2>1. PICK b \in Seq(Item) : b = blocks[i] BY <1>1
  <2>2. b # <<>> BY <2>1 DEF Formed, Shown
  <2>3. b[1] \in Item
    <3> DEFINE S == Item
    <3>1. \A T : \A s \in Seq(T) : s # <<>> => s[1] \in T OBVIOUS
    <3> QED BY <2>2, <3>1, Zenon
  <2>4. b[1].type # "error" BY <2>3 DEF Item
  <2>5. i < Len(blocks) => i \in 1..Len(blocks) - 1 BY <1>1
  <2> QED BY <2>1, <2>2, <2>4, <2>5 DEF Formed
<1>3. Total(blocks) = (Len(blocks) - 1) * size + Size(blocks[Len(blocks)])
  <2>1. \A i \in 1..Len(blocks) - 1 : Size(blocks[i]) = size BY DEF Formed
  <2>2. PICK N \in Nat : N = Len(blocks) /\ N >= 1 BY <1>1
  <2> QED BY <1>1, <2>1, <2>2, TotalIs
<1> QED BY <1>1, <1>2, <1>3

LEMMA BlkIs ==
    ASSUME NEW x, Situation(x), NEW i \in Nat, i >= 1
    PROVE  /\ Src(x, i) \in Seq(Seq(Item)) /\ Len(Src(x, i)) \in Nat /\ Len(Src(x, i)) >= 1
           /\ Has(x, i) => /\ Blk(x, i) \in Seq(Item) /\ Blk(x, i) # <<>> /\ Blk(x, i)[1].type # "error"
                           /\ Bytes(x, i) \in 1..x.size
                           /\ HasEnd(Blk(x, i)) <=> i = Len(Src(x, i))
                           /\ i < Len(Src(x, i)) => Bytes(x, i) = x.size
<1>1. PICK names, c : Formed(Src(x, i), names, x.size, c) BY DEF Situation, Src
<1>2. x.size \in Nat BY DEF Situation
<1>3. PICK b : b = Src(x, i) OBVIOUS
<1>4. /\ b \in Seq(Seq(Item)) /\ Len(b) \in Nat /\ Len(b) >= 1
      /\ \A j \in 1..Len(b) :
                  /\ b[j] \in Seq(Item) /\ b[j] # <<>> /\ b[j][1].type # "error"
                  /\ Size(b[j]) \in 1..x.size
                  /\ HasEnd(b[j]) <=> j = Len(b)
                  /\ j < Len(b) => Size(b[j]) = x.size
  BY <1>1, <1>2, <1>3, FormedIs
<1>5. Has(x, i) => i \in 1..Len(b) BY <1>3, <1>4 DEF Has
<1> QED BY <1>3, <1>4, <1>5 DEF Blk, Bytes

(* The replies to a client that asks for the next block, and to one that   *)
(* asks again after a first block that was the last.                       *)
LEMMA ReplyIs ==
    ASSUME NEW blocks, NEW names, NEW size \in Nat, size >= 1, NEW c, Formed(blocks, names, size, c), NEW a \in Nat
    PROVE  Reply(blocks, size, a * size) = IF a + 1 <= Len(blocks) THEN blocks[a + 1] ELSE <<>>
<1>1. PICK N \in Nat, s \in 1..size :
          N = Len(blocks) /\ N >= 1 /\ s = Size(blocks[N]) /\ Total(blocks) = (N - 1) * size + s
  <2>1. PICK N \in Nat : N = Len(blocks) /\ N >= 1 /\ Total(blocks) = (N - 1) * size + Size(blocks[N])
    BY FormedIs
  <2>2. Size(blocks[N]) \in 1..size BY <2>1, FormedIs
  <2> QED BY <2>1, <2>2
<1>2. PICK m \in Nat : m = N - 1 BY <1>1
<1>3. /\ a * size \in Nat /\ m * size \in Nat /\ (a * size) % size = 0 /\ (a * size) \div size = a
      /\ m < a => m * size + size <= a * size
      /\ a < m => a * size + size <= m * size
  BY Times
<1>4. a * size >= Total(blocks) <=> m < a
  <2> DEFINE t == a * size
             u == m * size
  <2>1. t \in Nat /\ u \in Nat /\ (m < a => u + size <= t) /\ (a < m => t + size <= u) /\ (a = m => t = u) BY <1>3
  <2>2. Total(blocks) = u + s BY <1>1, <1>2
  <2> HIDE DEF t, u
  <2>3. t >= u + s <=> m < a BY <2>1
  <2> QED BY <2>2, <2>3 DEF t
<1>5. m < a <=> ~(a + 1 <= Len(blocks)) BY <1>1, <1>2
<1> QED BY <1>3, <1>4, <1>5 DEF Reply

LEMMA SourceIs ==
    ASSUME NEW x, Situation(x), NEW a \in Nat, NEW c, c.asked = a
    PROVE  Answer(Dir(x), c) = Reply(Src(x, a + 1), x.size, c.pos)
<1>1. PICK size \in Nat, k \in Nat : size = x.size /\ k = x.k /\ size >= 1 BY DEF Situation
<1>2. Dir(x) = [old |-> x.bo, new |-> x.bn, change |-> k, dirblocksize |-> size]
  BY <1>1 DEF Dir, Changing
<1>3. \A d : d = [old |-> x.bo, new |-> x.bn, change |-> k, dirblocksize |-> size] =>
          d.old = x.bo /\ d.new = x.bn /\ d.change = k /\ d.dirblocksize = size
  OBVIOUS
<1>4. Answer(Dir(x), c) = Reply(IF a < k THEN x.bo ELSE x.bn, size, c.pos) BY <1>2, <1>3, Zenon DEF Answer
<1>5. a < k <=> a + 1 <= k OBVIOUS
<1> QED BY <1>1, <1>4, <1>5 DEF Src

LEMMA AnswerIs ==
    ASSUME NEW x, Situation(x), NEW a \in Nat, NEW c, c.asked = a, c.pos = a * x.size
    PROVE  Answer(Dir(x), c) = IF Has(x, a + 1) THEN Blk(x, a + 1) ELSE <<>>
<1>1. PICK size \in Nat : size = x.size /\ size >= 1 BY DEF Situation
<1>2. Answer(Dir(x), c) = Reply(Src(x, a + 1), size, a * size) BY <1>1, SourceIs
<1>3. PICK names, d : Formed(Src(x, a + 1), names, size, d) BY <1>1 DEF Situation, Src
<1>4. PICK b : b = Src(x, a + 1) OBVIOUS
<1>5. Reply(b, size, a * size) = IF a + 1 <= Len(b) THEN b[a + 1] ELSE <<>> BY <1>1, <1>3, <1>4, ReplyIs
<1> QED BY <1>1, <1>2, <1>4, <1>5 DEF Has, Blk

(* After a first block that was the last one and short, there is nothing   *)
(* more, or the listing has grown.                                         *)
Grows(x) == x.k = 1 /\ Total(x.bo) < x.size /\ Total(x.bo) < Total(x.bn)
ErrorReply == <<[type |-> "error", name |-> 0, size |-> 0]>>
LEMMA AnswerShort ==
    ASSUME NEW x, Situation(x), NEW pos \in Nat, pos = Bytes(x, 1), pos < x.size, pos >= 1,
           NEW c, c.asked = 1, c.pos = pos
    PROVE  Answer(Dir(x), c) = <<>> \/ (Grows(x) /\ Answer(Dir(x), c) = ErrorReply)
<1>1. PICK size \in Nat, k \in Nat : size = x.size /\ k = x.k /\ size >= 1 BY DEF Situation
<1>2. PICK one \in Nat, two \in Nat : one = 1 /\ two = 2 /\ two = one + 1 OBVIOUS
<1>3. Answer(Dir(x), c) = Reply(Src(x, two), size, pos) BY <1>1, <1>2, SourceIs
<1>4. PICK names, d : Formed(Src(x, one), names, size, d) BY <1>1 DEF Situation, Src
<1>5. PICK b : b = Src(x, one) OBVIOUS
<1>6. Total(b) = (Len(b) - 1) * size + Size(b[Len(b)]) /\ Len(b) \in Nat /\ Len(b) >= 1
  BY <1>4, <1>5, FormedIs
<1>7. Len(b) = 1
  <2>1. ASSUME 1 < Len(b) PROVE FALSE
    <3>1. one >= 1 /\ Has(x, one) BY <1>2, <1>5, <1>6 DEF Has
    <3>2. one < Len(Src(x, one)) BY <1>2, <1>5, <2>1
    <3>3. Bytes(x, one) = x.size BY <3>1, <3>2, BlkIs
    <3> QED BY <1>1, <1>2, <3>3
  <2>2. PICK l \in Nat : l = Len(b) /\ l >= 1 BY <1>6
  <2> QED BY <2>1, <2>2
<1>8. Total(b) = pos
  <2>1. 1 - 1 = 0 /\ 0 * size = 0 OBVIOUS
  <2>2. Size(b[1]) = pos BY <1>2, <1>5 DEF Bytes, Blk
  <2> QED BY <1>6, <1>7, <2>1, <2>2
<1>9. CASE k = 1
  <2>1. b = x.bo /\ Src(x, two) = x.bn BY <1>1, <1>2, <1>5, <1>9 DEF Src
  <2>2. CASE pos >= Total(x.bn) BY <1>3, <2>1, <2>2 DEF Reply
  <2>3. CASE ~(pos >= Total(x.bn))
    <3>1. pos % size = pos BY <1>1
    <3>2. pos % size # 0 BY <3>1
    <3>3. Reply(x.bn, size, pos) = ErrorReply BY <2>3, <3>2, Zenon DEF Reply, ErrorReply
    <3>4. Total(x.bn) \in Nat
      <4>1. PICK nn, cn : Formed(x.bn, nn, size, cn) BY <1>1 DEF Situation
      <4>2. PICK bn : bn = x.bn OBVIOUS
      <4>3. PICK l \in Nat : l = Len(bn) /\ l >= 1 /\ Total(bn) = (l - 1) * size + Size(bn[l])
        <5>1. Formed(bn, nn, size, cn) BY <4>1, <4>2
        <5>2. /\ Len(bn) \in Nat /\ Len(bn) >= 1
              /\ Total(bn) = (Len(bn) - 1) * size + Size(bn[Len(bn)])
          BY <5>1, FormedIs
        <5> QED BY <5>2
      <4>4. Size(bn[l]) \in Nat
        <5>1. l \in 1..Len(bn) BY <4>3
        <5>2. Size(bn[l]) \in 1..size BY <1>1, <4>1, <4>2, <5>1, FormedIs
        <5> QED BY <1>1, <5>2
      <4>5. PICK m \in Nat : m = l - 1 BY <4>3
      <4>6. m * size \in Nat BY <1>1, Times
      <4>7. PICK u \in Nat, v \in Nat : u = m * size /\ v = Size(bn[l]) BY <4>4, <4>6
      <4>8. Total(bn) = u + v BY <4>3, <4>5, <4>7
      <4> QED BY <4>2, <4>8
    <3>5. Grows(x) BY <1>1, <1>8, <1>9, <2>1, <2>3, <3>4 DEF Grows
    <3> QED BY <1>3, <2>1, <3>3, <3>5
  <2> QED BY <2>2, <2>3
<1>10. CASE k # 1
  <2>1. Src(x, two) = b BY <1>1, <1>2, <1>5, <1>10 DEF Src
  <2> QED BY <1>3, <1>8, <2>1 DEF Reply
<1> QED BY <1>9, <1>10

(* get_dir_blk(), a client that has received the first a blocks and read   *)
(* the first p of them.                                                    *)
RT == [buf : Seq(Seq(Item)), acc : Int, pos : Nat, dirblocksize : Nat, at_eof : BOOLEAN,
       names : Seq(Int), ended : BOOLEAN, asked : Nat]
Received(x, a, p) ==
    /\ p <= a
    /\ \A i \in 1..a : Has(x, i)
    /\ \A i \in 1..p : i < Len(Src(x, i))
    /\ \A i \in 1..a - 1 : Bytes(x, i) = x.size
Held(x, c, a, p) == Len(c.buf) = a - p /\ \A i \in 1..a - p : c.buf[i] = Blk(x, p + i)
Upto(x, a) == IF a = 0 THEN 0 ELSE (a - 1) * x.size + Bytes(x, a)
First(x, a) == IF a = 0 THEN 0 ELSE Bytes(x, 1)
Counted(x, c, a, p) ==
    c.pos = Upto(x, a) /\ c.dirblocksize = First(x, a) /\ c.acc = Upto(x, a) - p * x.size
Eof(x, c, a) ==
    /\ c.at_eof = TRUE => a >= 1 /\ (Bytes(x, a) < x.size \/ ~Has(x, a + 1))
    /\ c.at_eof = FALSE => a <= 1 \/ Bytes(x, a) = x.size
FrontOf(s, i) == SubSeq(s, 1, i)
Both(s, i, t, l, m) == SubSeq(s, 1, i) \o SubSeq(t, l + 1, m)
More(names, block) == names \o NamesIn(block)
ReadTo(x, names, p) ==
    IF p <= x.k THEN names = FrontOf(x.no, x.co[p])
    ELSE names = Both(x.no, x.co[x.k], x.nn, x.cn[x.k], x.cn[p]) /\ x.cn[x.k] <= x.cn[p]
RI(x, c, a, p) ==
    /\ c \in RT /\ c.ended = FALSE /\ a \in Nat /\ p \in Nat
    /\ Received(x, a, p) /\ Held(x, c, a, p) /\ Counted(x, c, a, p) /\ Eof(x, c, a)
    /\ ReadTo(x, c.names, p) /\ (c.at_eof = FALSE => c.asked = a)

(* A reply is appended, and what counts it goes on.                        *)
Asked(d, c, reply, n) ==
    /\ d \in RT /\ d.names = c.names /\ d.ended = c.ended
    /\ d.buf = IF reply = <<>> THEN c.buf ELSE Append(c.buf, reply)
    /\ d.acc = c.acc + n /\ d.pos = c.pos + n /\ d.asked = c.asked + 1
    /\ d.dirblocksize = IF c.dirblocksize = 0 THEN n ELSE c.dirblocksize
    /\ d.at_eof = TRUE <=> c.dirblocksize # 0 /\ n < c.dirblocksize
LEMMA AskIs ==
    ASSUME NEW dir, NEW c \in RT, NEW reply \in Seq(Item), reply = Answer(dir, c),
           reply # <<>> => reply[1].type # "error", NEW n \in Nat, n = Size(reply)
    PROVE  Asked(AskDir(dir, c), c, reply, n)
<1> DEFINE more == IF reply = <<>> THEN c.buf ELSE Append(c.buf, reply)
           eof == c.dirblocksize # 0 /\ n < c.dirblocksize
           first == IF c.dirblocksize = 0 THEN n ELSE c.dirblocksize
           d == AskDir(dir, c)
<1>1. /\ c.buf \in Seq(Seq(Item)) /\ c.acc \in Int /\ c.pos \in Nat /\ c.dirblocksize \in Nat
      /\ c.names \in Seq(Int) /\ c.ended \in BOOLEAN /\ c.asked \in Nat
  BY DEF RT
<1>2. more \in Seq(Seq(Item))
  <2> DEFINE S == Seq(Item)
  <2>1. c.buf \in Seq(S) /\ reply \in S BY <1>1
  <2> HIDE DEF S
  <2>2. more \in Seq(S) BY <2>1, AppendProperties
  <2> QED BY <2>2 DEF S
<1>3. eof \in BOOLEAN /\ first \in Nat BY <1>1
<1>4. d = [c EXCEPT !.buf = more, !.acc = c.acc + n, !.pos = c.pos + n, !.asked = c.asked + 1, !.at_eof = eof,
                   !.dirblocksize = first]
  BY DEF AskDir
<1> HIDE DEF more, d
<1>5. PICK m \in Seq(Seq(Item)), j \in Int, k \in Nat, h \in Nat, e \in BOOLEAN, f \in Nat :
          m = more /\ j = c.acc + n /\ k = c.pos + n /\ h = c.asked + 1 /\ e = eof /\ f = first
  <2> HIDE DEF eof, first
  <2>1. PICK i \in Int, k \in Nat, h \in Nat : i = c.acc /\ k = c.pos /\ h = c.asked BY <1>1
  <2>2. i + n \in Int /\ k + n \in Nat /\ h + 1 \in Nat OBVIOUS
  <2>3. c.acc + n \in Int /\ c.pos + n \in Nat /\ c.asked + 1 \in Nat BY <2>1, <2>2
  <2> QED BY <1>2, <1>3, <2>3
<1>6. eof = TRUE <=> c.dirblocksize # 0 /\ n < c.dirblocksize OBVIOUS
<1>7. first = IF c.dirblocksize = 0 THEN n ELSE c.dirblocksize OBVIOUS
<1> HIDE DEF eof, first
<1>8. d = [c EXCEPT !.buf = m, !.acc = j, !.pos = k, !.asked = h, !.at_eof = e, !.dirblocksize = f] BY <1>4, <1>5, Zenon
<1>9. /\ d \in RT /\ d.names = c.names /\ d.ended = c.ended /\ d.buf = m /\ d.acc = j /\ d.pos = k /\ d.asked = h
      /\ d.at_eof = e /\ d.dirblocksize = f
  BY <1>8 DEF RT
<1> QED BY <1>5, <1>6, <1>7, <1>9 DEF more, d, Asked

(* Where the a-th block ends.                                              *)
LEMMA UptoIs ==
    ASSUME NEW x, Situation(x), NEW a \in Nat, NEW p \in Nat, Received(x, a, p)
    PROVE  /\ Upto(x, a) \in Nat /\ First(x, a) \in Nat
           /\ a >= 1 => Bytes(x, a) \in 1..x.size /\ First(x, a) \in 1..x.size
           /\ a = 0 \/ Bytes(x, a) = x.size => Upto(x, a) = a * x.size
           /\ a >= 2 \/ (a >= 1 /\ Bytes(x, a) = x.size) => First(x, a) = x.size
<1>1. PICK s \in Nat : s = x.size /\ s >= 1 BY DEF Situation
<1>2. CASE a = 0
  <2>1. 0 * s = 0 OBVIOUS
  <2> QED BY <1>1, <1>2, <2>1 DEF Upto, First
<1>3. CASE a >= 1
  <2>1. 1 \in 1..a /\ a \in 1..a /\ 1 \in Nat BY <1>3
  <2>2. Has(x, 1) /\ Has(x, a) BY <2>1 DEF Received
  <2>3. Bytes(x, 1) \in 1..s /\ Bytes(x, a) \in 1..s
    <3>1. PICK one \in Nat : one = 1 /\ one >= 1 OBVIOUS
    <3>2. Bytes(x, one) \in 1..x.size BY <2>2, <3>1, BlkIs
    <3>3. Bytes(x, a) \in 1..x.size BY <1>3, <2>2, BlkIs
    <3> QED BY <1>1, <3>1, <3>2, <3>3
  <2>4. a >= 2 => Bytes(x, 1) = s
    <3>1. a >= 2 => 1 \in 1..a - 1 OBVIOUS
    <3> QED BY <1>1, <3>1 DEF Received
  <2>5. PICK m \in Nat : m = a - 1 /\ a = m + 1 BY <1>3
  <2>6. m * s \in Nat /\ (m + 1) * s = m * s + s BY <1>1, Times
  <2>7. PICK b \in Nat : b = Bytes(x, a) /\ b \in 1..s BY <2>3
  <2>8. PICK t \in Nat : t = m * s BY <2>6
  <2>9. Upto(x, a) = t + b BY <1>1, <1>3, <2>5, <2>7, <2>8 DEF Upto
  <2>10. a * s = t + s BY <2>5, <2>6, <2>8
  <2>11. First(x, a) = Bytes(x, 1) BY <1>3 DEF First
  <2> QED BY <1>1, <1>3, <2>3, <2>4, <2>7, <2>9, <2>10, <2>11
<1> QED BY <1>2, <1>3

(* The next block is received.                                             *)
LEMMA BlockReceived ==
    ASSUME NEW x, Situation(x), NEW c, NEW a, NEW p, RI(x, c, a, p), c.at_eof = FALSE,
           a = 0 \/ Bytes(x, a) = x.size, Has(x, a + 1)
    PROVE  RI(x, AskDir(Dir(x), c), a + 1, p)
<1>1. /\ c \in RT /\ c.ended = FALSE /\ a \in Nat /\ p \in Nat /\ a + 1 \in Nat /\ a + 1 >= 1
      /\ Received(x, a, p) /\ Held(x, c, a, p) /\ Counted(x, c, a, p) /\ Eof(x, c, a)
      /\ ReadTo(x, c.names, p) /\ p <= a /\ c.asked = a
  BY DEF RI, Received
<1>2. PICK s \in Nat : s = x.size /\ s >= 1 BY DEF Situation
<1>3. PICK m \in Nat : m = a + 1 /\ m >= 1 /\ m - 1 = a BY <1>1
<1>4. PICK reply \in Seq(Item) : reply = Blk(x, m) /\ reply # <<>> /\ reply[1].type # "error"
  BY <1>1, <1>3, BlkIs
<1>5. PICK n \in 1..s : n = Size(reply) /\ n = Bytes(x, m) BY <1>1, <1>2, <1>3, <1>4, BlkIs DEF Bytes
<1>6. /\ c.pos = a * s /\ Upto(x, a) = a * s /\ c.dirblocksize = First(x, a) /\ a * s \in Nat
      /\ c.acc = a * s - p * s /\ p * s \in Nat
  BY <1>1, <1>2, UptoIs, Times DEF Counted
<1>7. reply = Answer(Dir(x), c) BY <1>1, <1>2, <1>3, <1>4, <1>6, AnswerIs
<1>8. PICK d : d = AskDir(Dir(x), c) OBVIOUS
<1>9. Asked(d, c, reply, n)
  <2>1. n \in Nat OBVIOUS
  <2> QED BY <1>1, <1>4, <1>5, <1>7, <1>8, <2>1, AskIs
<1>10. /\ d \in RT /\ d.names = c.names /\ d.ended = FALSE /\ d.buf = Append(c.buf, reply)
       /\ d.acc = c.acc + n /\ d.pos = c.pos + n /\ d.asked = m
  BY <1>1, <1>3, <1>4, <1>9 DEF Asked
<1>11. Received(x, m, p)
  <2>1. p <= m BY <1>1, <1>3
  <2>2. \A i \in 1..m : i \in 1..a \/ i = a + 1 BY <1>1, <1>3
  <2>3. \A i \in 1..m : Has(x, i) BY <1>1, <2>2 DEF Received
  <2>4. \A i \in 1..m - 1 : i \in 1..a - 1 \/ (i = a /\ a # 0) BY <1>1, <1>3
  <2>5. \A i \in 1..m - 1 : Bytes(x, i) = x.size BY <1>1, <2>4 DEF Received
  <2> QED BY <1>1, <2>1, <2>3, <2>5 DEF Received
<1>12. Held(x, d, m, p)
  <2> DEFINE S == Seq(Item)
  <2>1. PICK buf \in Seq(S) : buf = c.buf BY <1>1 DEF RT
  <2>2. PICK l \in Nat : l = a - p BY <1>1
  <2>3. Len(buf) = l /\ \A i \in 1..l : buf[i] = Blk(x, p + i) BY <1>1, <2>1, <2>2 DEF Held
  <2>4. reply \in S OBVIOUS
  <2> HIDE DEF S
  <2>5. PICK more : more = Append(buf, reply) OBVIOUS
  <2>6. Len(more) = l + 1 /\ more[l + 1] = reply /\ \A i \in 1..l : more[i] = buf[i]
    BY <2>1, <2>3, <2>4, <2>5, AppendProperties
  <2>7. m - p = l + 1 /\ p + (l + 1) = m BY <1>1, <1>3, <2>2
  <2>8. \A i \in 1..m - p : i \in 1..l \/ i = l + 1 BY <2>7
  <2>9. \A i \in 1..m - p : more[i] = Blk(x, p + i) BY <1>4, <2>3, <2>6, <2>7, <2>8
  <2> QED BY <1>10, <2>1, <2>5, <2>6, <2>7, <2>9 DEF Held
<1>13. Counted(x, d, m, p)
  <2>1. Upto(x, m) = a * s + n BY <1>2, <1>3, <1>5 DEF Upto
  <2>2. d.pos = Upto(x, m) BY <1>6, <1>10, <2>1
  <2>3. d.acc = Upto(x, m) - p * s
    <3> DEFINE u == a * s
               v == p * s
    <3>1. u \in Nat /\ v \in Nat /\ c.acc = u - v /\ Upto(x, m) = u + n BY <1>6, <2>1
    <3> HIDE DEF u, v
    <3>2. d.acc = (u + n) - v BY <1>10, <3>1
    <3> QED BY <3>1, <3>2 DEF v
  <2>4. d.dirblocksize = First(x, m)
    <3>1. d.dirblocksize = IF c.dirblocksize = 0 THEN n ELSE c.dirblocksize BY <1>9 DEF Asked
    <3>2. CASE a = 0
      <4>1. c.dirblocksize = 0 BY <1>6, <3>2 DEF First
      <4>2. m = 1 BY <1>3, <3>2
      <4> QED BY <1>5, <3>1, <4>1, <4>2 DEF First
    <3>3. CASE a >= 1
      <4>1. c.dirblocksize = Bytes(x, 1) BY <1>6, <3>3 DEF First
      <4>2. First(x, a) \in 1..s BY <1>1, <1>2, <3>3, UptoIs
      <4>3. c.dirblocksize # 0 BY <1>6, <4>2
      <4> QED BY <1>3, <3>1, <4>1, <4>3 DEF First
    <3> QED BY <1>1, <3>2, <3>3
  <2> QED BY <1>2, <2>2, <2>3, <2>4 DEF Counted
<1>14. Eof(x, d, m)
  <2>1. d.at_eof = TRUE <=> c.dirblocksize # 0 /\ n < c.dirblocksize BY <1>9 DEF Asked
  <2>2. c.dirblocksize \in 0..s
    <3>1. a = 0 => First(x, a) = 0 BY DEF First
    <3>2. a >= 1 => First(x, a) \in 1..s BY <1>1, <1>2, UptoIs
    <3> QED BY <1>1, <1>6, <3>1, <3>2
  <2>3. d.at_eof = TRUE => n < s BY <2>1, <2>2
  <2>4. d.at_eof = FALSE => a = 0 \/ n = s
    <3>1. SUFFICES ASSUME d.at_eof = FALSE, a # 0 PROVE n = s OBVIOUS
    <3>2. c.dirblocksize = s BY <1>1, <1>2, <1>6, <3>1, UptoIs
    <3>3. ~(n < s) BY <1>2, <2>1, <3>1, <3>2
    <3> QED BY <3>3
  <2>5. a = 0 => m <= 1 BY <1>3
  <2> QED BY <1>2, <1>3, <1>5, <2>3, <2>4, <2>5 DEF Eof
<1> QED BY <1>1, <1>3, <1>8, <1>10, <1>11, <1>12, <1>13, <1>14 DEF RI

(* There is no further block.                                              *)
LEMMA NoneReceived ==
    ASSUME NEW x, Situation(x), NEW c, NEW a, NEW p, RI(x, c, a, p), c.at_eof = FALSE,
           a >= 1, Answer(Dir(x), c) = <<>>, Bytes(x, a) < x.size \/ ~Has(x, a + 1)
    PROVE  RI(x, AskDir(Dir(x), c), a, p) /\ AskDir(Dir(x), c).at_eof = TRUE
<1>1. /\ c \in RT /\ c.ended = FALSE /\ a \in Nat /\ p \in Nat
      /\ Received(x, a, p) /\ Held(x, c, a, p) /\ Counted(x, c, a, p) /\ Eof(x, c, a)
      /\ ReadTo(x, c.names, p)
  BY DEF RI
<1>2. PICK reply \in Seq(Item) : reply = <<>>
  <2>1. <<>> \in Seq(Item) OBVIOUS
  <2> QED BY <2>1, Zenon
<1>3. PICK n \in Nat : n = 0 /\ n = Size(reply) BY <1>2, SizeIs
<1>4. PICK d : d = AskDir(Dir(x), c) OBVIOUS
<1>5. Asked(d, c, reply, n) BY <1>1, <1>2, <1>3, <1>4, AskIs
<1>6. First(x, a) \in Nat /\ First(x, a) >= 1 /\ c.dirblocksize = First(x, a)
  <2>1. First(x, a) \in 1..x.size BY <1>1, UptoIs
  <2>2. x.size \in Nat BY DEF Situation
  <2> QED BY <1>1, <2>1, <2>2 DEF Counted
<1>7. c.acc \in Int /\ c.pos \in Nat BY <1>1 DEF RT
<1>8. /\ d \in RT /\ d.names = c.names /\ d.ended = FALSE /\ d.buf = c.buf
      /\ d.acc = c.acc /\ d.pos = c.pos /\ d.dirblocksize = c.dirblocksize /\ d.at_eof = TRUE
  BY <1>1, <1>2, <1>3, <1>5, <1>6, <1>7 DEF Asked
<1>9. Eof(x, d, a) BY <1>8 DEF Eof
<1>10. Held(x, d, a, p) /\ Counted(x, d, a, p) BY <1>1, <1>8 DEF Held, Counted
<1> QED BY <1>1, <1>4, <1>8, <1>9, <1>10 DEF RI

(* What a client has when it has read all. *)
ReadAll(x, names) ==
    \E i \in 0..Len(x.no), j \in 0..Len(x.nn) :
        /\ names = Both(x.no, i, x.nn, j, Len(x.nn))
        /\ x.k = 0 => i = 0 /\ j = 0

(* Parts of sequences, one after the other.                                *)
LEMMA PartsOf ==
    ASSUME NEW s \in Seq(Nat), NEW l \in 0..Len(s), NEW m \in l..Len(s), NEW n \in m..Len(s)
    PROVE  /\ SubSeq(s, l + 1, m) \in Seq(Nat)
           /\ SubSeq(s, l + 1, m) \o SubSeq(s, m + 1, n) = SubSeq(s, l + 1, n)
           /\ SubSeq(s, m + 1, m) = <<>>
<1>1. PICK k \in 1..Len(s) + 1 : k = l + 1 OBVIOUS
<1>2. m \in k - 1..Len(s) BY <1>1
<1>3. SubSeq(s, k, m) \o SubSeq(s, m + 1, n) = SubSeq(s, k, n) BY <1>2, ConcatAdjacentSubSeq
<1>4. SubSeq(s, k, m) \in Seq(Nat)
  <2>1. \A i \in k..m : s[i] \in Nat BY <1>1
  <2>2. k \in Int /\ m \in Int OBVIOUS
  <2> QED BY <2>1, <1>1
<1>5. SubSeq(s, m + 1, m) = <<>> OBVIOUS
<1> QED BY <1>1, <1>3, <1>4, <1>5

LEMMA FrontIs ==
    ASSUME NEW s \in Seq(Nat), NEW i \in 0..Len(s)
    PROVE  SubSeq(s, 1, i) \in Seq(Nat)
<1>1. PICK z \in 0..Len(s) : z = 0 /\ z + 1 = 1 OBVIOUS
<1>2. i \in z..Len(s) /\ Len(s) \in i..Len(s) BY <1>1
<1>3. SubSeq(s, z + 1, i) \in Seq(Nat) BY <1>2, PartsOf
<1> QED BY <1>1, <1>3

LEMMA BothIs ==
    ASSUME NEW s \in Seq(Nat), NEW i \in 0..Len(s), NEW t \in Seq(Nat), NEW l \in 0..Len(t)
    PROVE  Both(s, i, t, l, l) = FrontOf(s, i) /\ FrontOf(s, i) \in Seq(Nat)
<1>1. PICK front \in Seq(Nat) : front = SubSeq(s, 1, i) BY FrontIs
<1>2. SubSeq(t, l + 1, l) = <<>>
  <2>1. l \in l..Len(t) OBVIOUS
  <2> QED BY <2>1, PartsOf
<1>3. front \o <<>> = front BY ConcatEmptySeq
<1> QED BY <1>1, <1>2, <1>3, Zenon DEF Both, FrontOf

LEMMA Associated == \A r, s, t \in Seq(Nat) : (r \o s) \o t = r \o (s \o t)
<1> SUFFICES ASSUME NEW r \in Seq(Nat), NEW s \in Seq(Nat), NEW t \in Seq(Nat) PROVE (r \o s) \o t = r \o (s \o t)
  OBVIOUS
<1> QED BY ConcatAssociative, SMTT(60)

LEMMA FormedStarts == \A blocks, names, size, c : Formed(blocks, names, size, c) => c[0] = 0
BY DEF Formed

(* Where the blocks of a listing begin. *)
LEMMA FormedShows ==
    ASSUME NEW blocks, NEW names \in Seq(Nat), NEW size \in Nat, NEW c, Formed(blocks, names, size, c)
    PROVE  /\ c[0] = 0 /\ c[Len(blocks)] = Len(names)
           /\ \A i \in 0..Len(blocks) : c[i] \in 0..Len(names)
           /\ \A i \in 0..Len(blocks) - 1 : /\ c[i] <= c[i + 1]
                                            /\ NamesIn(blocks[i + 1]) = SubSeq(names, c[i] + 1, c[i + 1])
<1>1. Len(blocks) \in Nat BY FormedIs
<1>2. ASSUME NEW i \in 0..Len(blocks) - 1
      PROVE  c[i] <= c[i + 1] /\ NamesIn(blocks[i + 1]) = SubSeq(names, c[i] + 1, c[i + 1])
  <2>1. PICK j \in 1..Len(blocks) : j = i + 1 /\ j - 1 = i BY <1>1
  <2>2. Shown(blocks[j], names, c[j - 1], c[j]) BY <2>1 DEF Formed
  <2> QED BY <2>1, <2>2 DEF Shown
<1>3. \A i \in 0..Len(blocks) : c[i] \in 0..Len(names) BY DEF Formed
<1> QED BY <1>2, <1>3 DEF Formed

(* The names of a further block. *)
LEMMA OldFollows ==
    ASSUME NEW no \in Seq(Nat), NEW bo, NEW size \in Nat, NEW co, Formed(bo, no, size, co),
           NEW p \in Nat, p + 1 <= Len(bo), NEW names, names = FrontOf(no, co[p])
    PROVE  More(names, bo[p + 1]) = FrontOf(no, co[p + 1])
<1>1. Len(bo) \in Nat /\ p \in 0..Len(bo) - 1 /\ p \in 0..Len(bo) /\ p + 1 \in 0..Len(bo)
  <2>1. Len(bo) \in Nat BY FormedIs
  <2> QED BY <2>1
<1>2. PICK m \in 0..Len(no) : m = co[p] BY <1>1, FormedShows
<1>3. PICK n \in m..Len(no) : n = co[p + 1]
  <2>1. co[p + 1] \in 0..Len(no) /\ co[p] <= co[p + 1] BY <1>1, FormedShows
  <2> QED BY <1>2, <2>1
<1>4. NamesIn(bo[p + 1]) = SubSeq(no, m + 1, n) BY <1>1, <1>2, <1>3, FormedShows
<1>5. SubSeq(no, 0 + 1, m) \o SubSeq(no, m + 1, n) = SubSeq(no, 0 + 1, n)
  <2>1. PICK l \in 0..Len(no) : l = 0 OBVIOUS
  <2>2. m \in l..Len(no) BY <2>1
  <2>3. SubSeq(no, l + 1, m) \o SubSeq(no, m + 1, n) = SubSeq(no, l + 1, n) BY <2>2, PartsOf
  <2> QED BY <2>1, <2>3
<1>6. SubSeq(no, 1, m) \o SubSeq(no, m + 1, n) = SubSeq(no, 1, n)
  <2>1. 0 + 1 = 1 OBVIOUS
  <2> QED BY <1>5, <2>1, Zenon
<1>7. names = SubSeq(no, 1, m) BY <1>2, Zenon DEF FrontOf
<1>8. names \o NamesIn(bo[p + 1]) = SubSeq(no, 1, n) BY <1>4, <1>6, <1>7, Zenon
<1> QED BY <1>3, <1>8, Zenon DEF More, FrontOf

LEMMA NewFollows ==
    ASSUME NEW no \in Seq(Nat), NEW i \in 0..Len(no),
           NEW nn \in Seq(Nat), NEW bn, NEW size \in Nat, NEW cn, Formed(bn, nn, size, cn),
           NEW p \in Nat, p + 1 <= Len(bn), NEW k \in 0..p,
           cn[k] <= cn[p], NEW names, names = Both(no, i, nn, cn[k], cn[p])
    PROVE  More(names, bn[p + 1]) = Both(no, i, nn, cn[k], cn[p + 1]) /\ cn[k] <= cn[p + 1]
<1>0. PICK front \in Seq(Nat) : front = SubSeq(no, 1, i) BY FrontIs
<1>1. Len(bn) \in Nat /\ p \in 0..Len(bn) - 1 /\ p \in 0..Len(bn) /\ p + 1 \in 0..Len(bn) /\ k \in 0..Len(bn)
  <2>1. Len(bn) \in Nat BY FormedIs
  <2> QED BY <2>1
<1>2. PICK l \in 0..Len(nn) : l = cn[k] BY <1>1, FormedShows
<1>3. PICK m \in l..Len(nn) : m = cn[p]
  <2>1. cn[p] \in 0..Len(nn) BY <1>1, FormedShows
  <2> QED BY <1>2, <2>1
<1>4. PICK n \in m..Len(nn) : n = cn[p + 1]
  <2>1. cn[p + 1] \in 0..Len(nn) /\ cn[p] <= cn[p + 1] BY <1>1, FormedShows
  <2> QED BY <1>3, <2>1
<1>5. NamesIn(bn[p + 1]) = SubSeq(nn, m + 1, n) BY <1>1, <1>3, <1>4, FormedShows
<1>6. PICK u, v, w : u = SubSeq(nn, l + 1, m) /\ v = SubSeq(nn, m + 1, n) /\ w = SubSeq(nn, l + 1, n) OBVIOUS
<1>7. u \in Seq(Nat) /\ v \in Seq(Nat) /\ u \o v = w
  <2>1. m \in 0..Len(nn) /\ n \in n..Len(nn) OBVIOUS
  <2>2. SubSeq(nn, l + 1, m) \in Seq(Nat) /\ SubSeq(nn, l + 1, m) \o SubSeq(nn, m + 1, n) = SubSeq(nn, l + 1, n)
    BY PartsOf
  <2>3. SubSeq(nn, m + 1, n) \in Seq(Nat) BY <2>1, PartsOf
  <2> QED BY <1>6, <2>2, <2>3
<1>8. names = front \o u BY <1>0, <1>2, <1>3, <1>6, Zenon DEF Both
<1>9. (front \o u) \o v = front \o (u \o v)
  <2>1. u \in Seq(Nat) /\ v \in Seq(Nat) BY <1>7
  <2> QED BY <2>1, Associated
<1>10. names \o v = front \o w BY <1>7, <1>8, <1>9, Zenon
<1>11. l <= n OBVIOUS
<1>12. More(names, bn[p + 1]) = Both(no, i, nn, l, n) BY <1>0, <1>5, <1>6, <1>10, Zenon DEF More, Both
<1> QED BY <1>2, <1>4, <1>11, <1>12

(* A block is read that is not the last. *)
LEMMA NamesRead ==
    ASSUME NEW x, Situation(x), NEW a \in Nat, NEW p \in Nat, p < a, Received(x, a, p), NEW names, ReadTo(x, names, p)
    PROVE  ReadTo(x, More(names, Blk(x, p + 1)), p + 1)
<1>1. PICK k \in Nat : k = x.k BY DEF Situation
<1>2. PICK no \in Seq(Nat), nn \in Seq(Nat) : no = x.no /\ nn = x.nn BY DEF Situation
<1>3. PICK size \in Nat : size = x.size /\ size >= 1 BY DEF Situation
<1>4. PICK bo, bn, co, cn : bo = x.bo /\ bn = x.bn /\ co = x.co /\ cn = x.cn OBVIOUS
<1>5. Formed(bo, no, size, co) /\ Formed(bn, nn, size, cn) BY <1>2, <1>3, <1>4 DEF Situation
<1>6. p + 1 \in 1..a /\ Has(x, p + 1) BY DEF Received
<1>7. CASE p + 1 <= k
  <2>1. p + 1 <= Len(bo) BY <1>1, <1>4, <1>6, <1>7 DEF Has, Src
  <2>2. names = FrontOf(no, co[p])
    <3>1. p <= k BY <1>7
    <3> QED BY <1>1, <1>2, <1>4, <3>1, Zenon DEF ReadTo
  <2>3. More(names, bo[p + 1]) = FrontOf(no, co[p + 1]) BY <1>5, <2>1, <2>2, OldFollows
  <2>4. Blk(x, p + 1) = bo[p + 1] BY <1>1, <1>4, <1>7 DEF Blk, Src
  <2> QED BY <1>1, <1>2, <1>4, <1>7, <2>3, <2>4 DEF ReadTo
<1>8. CASE p >= k
  <2>1. p + 1 <= Len(bn) /\ Blk(x, p + 1) = bn[p + 1]
    BY <1>1, <1>4, <1>6, <1>8 DEF Has, Src, Blk
  <2>2. k <= Len(bo) /\ Len(bo) \in Nat
    <3>1. Len(bo) \in Nat BY <1>5, FormedIs
    <3>2. CASE k = 0 BY <3>1, <3>2
    <3>3. CASE k # 0
      <4>1. k \in 1..p BY <1>8, <3>3
      <4>2. k < Len(Src(x, k)) BY <4>1 DEF Received
      <4> QED BY <1>1, <1>4, <3>1, <4>2 DEF Src
    <3> QED BY <3>2, <3>3
  <2>3. PICK i \in 0..Len(no) : i = co[k] BY <1>5, <2>2, FormedShows
  <2>4. k \in 0..p /\ ~(p + 1 <= k) BY <1>8
  <2>5. names = Both(no, i, nn, cn[k], cn[p]) /\ cn[k] <= cn[p]
    <3>1. CASE p > k
      <4>1. ~(p <= k) BY <3>1
      <4> QED BY <1>1, <1>2, <1>4, <2>3, <4>1, Zenon DEF ReadTo
    <3>2. CASE p = k
      <4>1. p <= k BY <3>2
      <4>2. names = FrontOf(no, i) BY <1>1, <1>2, <1>4, <2>3, <3>2, <4>1, Zenon DEF ReadTo
      <4>3. PICK m \in 0..Len(nn) : m = cn[k]
        <5>1. Len(bn) \in Nat BY <1>5, FormedIs
        <5>2. k \in 0..Len(bn) BY <2>1, <3>2, <5>1
        <5> QED BY <1>5, <5>2, FormedShows
      <4>4. Both(no, i, nn, m, m) = FrontOf(no, i) BY BothIs
      <4>5. m <= m OBVIOUS
      <4> QED BY <3>2, <4>2, <4>3, <4>4, <4>5
    <3> QED BY <1>8, <3>1, <3>2
  <2>6. More(names, bn[p + 1]) = Both(no, i, nn, cn[k], cn[p + 1]) /\ cn[k] <= cn[p + 1]
    BY <1>5, <2>1, <2>4, <2>5, NewFollows
  <2> QED BY <1>1, <1>2, <1>4, <2>1, <2>3, <2>4, <2>6, Zenon DEF ReadTo
<1> QED BY <1>7, <1>8

(* The last of them, with the end. *)
LEMMA EndRead ==
    ASSUME NEW x, Situation(x), NEW q \in Nat, q >= 1, q = Len(Src(x, q)),
           \A i \in 1..q - 1 : i < Len(Src(x, i)), NEW names, ReadTo(x, names, q)
    PROVE  ReadAll(x, names)
<1>1. PICK k \in Nat : k = x.k BY DEF Situation
<1>2. PICK no \in Seq(Nat), nn \in Seq(Nat) : no = x.no /\ nn = x.nn BY DEF Situation
<1>3. PICK size \in Nat : size = x.size /\ size >= 1 BY DEF Situation
<1>4. PICK bo, bn, co, cn : bo = x.bo /\ bn = x.bn /\ co = x.co /\ cn = x.cn OBVIOUS
<1>5. Formed(bo, no, size, co) /\ Formed(bn, nn, size, cn) BY <1>2, <1>3, <1>4 DEF Situation
<1>6. PICK l \in 0..Len(no), n \in 0..Len(nn) : l = Len(no) /\ n = Len(nn) OBVIOUS
<1>7. CASE q <= k
  <2>1. q = Len(bo) BY <1>1, <1>4, <1>7 DEF Src
  <2>2. names = FrontOf(no, co[q]) BY <1>1, <1>2, <1>4, <1>7, Zenon DEF ReadTo
  <2>3. names = FrontOf(no, l) BY <1>5, <1>6, <2>1, <2>2, FormedShows
  <2>4. Both(no, l, nn, n, n) = FrontOf(no, l) BY BothIs
  <2>5. names = Both(no, l, nn, n, Len(nn)) BY <1>6, <2>3, <2>4
  <2>6. k # 0 BY <1>7
  <2> QED BY <1>1, <1>2, <2>5, <2>6 DEF ReadAll
<1>8. CASE k < q
  <2>1. q = Len(bn) BY <1>1, <1>4, <1>8 DEF Src
  <2>2. k <= Len(bo) /\ Len(bo) \in Nat
    <3>1. Len(bo) \in Nat BY <1>5, FormedIs
    <3>2. CASE k = 0 BY <3>1, <3>2
    <3>3. CASE k # 0
      <4>1. k \in 1..q - 1 BY <1>8, <3>3
      <4>2. k < Len(Src(x, k)) BY <4>1
      <4> QED BY <1>1, <1>4, <3>1, <4>2 DEF Src
    <3> QED BY <3>2, <3>3
  <2>3. PICK i \in 0..Len(no) : i = co[k] BY <1>5, <2>2, FormedShows, SMTT(60)
  <2>4. PICK j \in 0..Len(nn) : j = cn[k]
    <3>1. k \in 0..Len(bn) BY <1>8, <2>1
    <3> QED BY <1>5, <3>1, FormedShows
  <2>5. cn[q] = Len(nn) BY <1>5, <2>1, FormedShows
  <2>6. names = Both(no, i, nn, j, Len(nn))
    <3>1. ~(q <= k) BY <1>8
    <3> QED BY <1>1, <1>2, <1>4, <2>3, <2>4, <2>5, <3>1, Zenon DEF ReadTo
  <2>7. k = 0 => i = 0 /\ j = 0
    <3>1. co[0] = 0 BY <1>5, FormedStarts, Zenon
    <3>2. cn[0] = 0 BY <1>5, FormedStarts, Zenon
    <3> QED BY <2>3, <2>4, <3>1, <3>2
  <2> QED BY <1>1, <1>2, <2>6, <2>7 DEF ReadAll
<1> QED BY <1>7, <1>8

(* A directory that became shorter than what was read of it. *)
LEMMA NoneRead ==
    ASSUME NEW x, Situation(x), NEW p \in Nat, p >= 1, p < Len(Src(x, p)), ~Has(x, p + 1), NEW names, ReadTo(x, names, p)
    PROVE  ReadAll(x, names)
<1>1. PICK k \in Nat : k = x.k BY DEF Situation
<1>2. PICK no \in Seq(Nat), nn \in Seq(Nat) : no = x.no /\ nn = x.nn BY DEF Situation
<1>3. PICK size \in Nat : size = x.size /\ size >= 1 BY DEF Situation
<1>4. PICK bo, co : bo = x.bo /\ co = x.co OBVIOUS
<1>5. Formed(bo, no, size, co) BY <1>2, <1>3, <1>4 DEF Situation
<1>6. p = k
  <2>1. Len(Src(x, p)) \in Nat /\ Len(Src(x, p + 1)) \in Nat
    <3>1. p + 1 \in Nat /\ p + 1 >= 1 OBVIOUS
    <3> QED BY <3>1, BlkIs
  <2>2. ~(p + 1 <= Len(Src(x, p + 1))) BY DEF Has
  <2>3. Src(x, p) # Src(x, p + 1) BY <2>1, <2>2
  <2>4. p <= k /\ ~(p + 1 <= k) BY <1>1, <2>3 DEF Src
  <2> QED BY <2>4
<1>7. k <= Len(bo) /\ Len(bo) \in Nat
  <2>1. Len(bo) \in Nat BY <1>5, FormedIs
  <2> QED BY <1>1, <1>4, <1>6, <2>1 DEF Src
<1>8. PICK i \in 0..Len(no) : i = co[k] BY <1>5, <1>7, FormedShows
<1>9. names = FrontOf(no, i)
  <2>1. p <= k BY <1>6
  <2> QED BY <1>1, <1>2, <1>4, <1>6, <1>8, <2>1, Zenon DEF ReadTo
<1>10. PICK n \in 0..Len(nn) : n = Len(nn) OBVIOUS
<1>11. Both(no, i, nn, n, n) = FrontOf(no, i) BY BothIs
<1>12. names = Both(no, i, nn, n, Len(nn)) BY <1>9, <1>10, <1>11
<1>13. k # 0 BY <1>6
<1> QED BY <1>1, <1>2, <1>12, <1>13 DEF ReadAll

LEMMA BlkNames ==
    ASSUME NEW x, Situation(x), NEW i \in Nat, i >= 1, Has(x, i)
    PROVE  NamesIn(Blk(x, i)) \in Seq(Int)
<1>0. PICK names \in Seq(Nat) : \E c : Formed(Src(x, i), names, x.size, c) BY DEF Situation, Src
<1>1. PICK c : Formed(Src(x, i), names, x.size, c) BY <1>0
<1>2. PICK size \in Nat : size = x.size BY DEF Situation
<1>3. PICK b : b = Src(x, i) OBVIOUS
<1>4. Formed(b, names, size, c) BY <1>1, <1>2, <1>3
<1>5. PICK j \in Nat : j = i - 1 /\ j + 1 = i OBVIOUS
<1>6. j \in 0..Len(b) - 1 /\ j \in 0..Len(b) /\ j + 1 \in 0..Len(b)
  <2>1. Len(b) \in Nat BY <1>4, FormedIs
  <2>2. i <= Len(b) BY <1>3 DEF Has
  <2> QED BY <1>5, <2>1, <2>2
<1>7. PICK l \in 0..Len(names) : l = c[j] BY <1>4, <1>6, FormedShows
<1>8. PICK m \in l..Len(names) : m = c[j + 1]
  <2>1. c[j + 1] \in 0..Len(names) /\ c[j] <= c[j + 1] BY <1>4, <1>6, FormedShows
  <2> QED BY <1>7, <2>1
<1>9. NamesIn(b[j + 1]) = SubSeq(names, l + 1, m) BY <1>4, <1>6, <1>7, <1>8, FormedShows
<1>10. SubSeq(names, l + 1, m) \in Seq(Nat)
  <2>1. Len(names) \in m..Len(names) OBVIOUS
  <2> QED BY <2>1, PartsOf
<1>11. NamesIn(b[j + 1]) \in Seq(Nat) BY <1>9, <1>10, Zenon
<1>12. \A s \in Seq(Nat) : s \in Seq(Int) OBVIOUS
<1>13. NamesIn(b[j + 1]) \in Seq(Int) BY <1>11, <1>12, Zenon
<1> QED BY <1>3, <1>5, <1>13 DEF Blk

(* No block, no names: what is read when the buffer is empty.              *)
LEMMA NoNames == NamesIn(<<>>) = <<>> /\ ~HasEnd(<<>>)
<1>1. PICK e \in Seq(Item) : e = <<>>
  <2>1. <<>> \in Seq(Item) OBVIOUS
  <2> QED BY <2>1, Zenon
<1>2. Len(e) = 0 /\ DOMAIN e = {} BY <1>1
<1>3. Entries(e) = 0
  <2>1. PICK n \in 0..Len(e) : n = 0 /\ n = Len(e) BY <1>2
  <2>2. \A i \in 1..n : e[i].type = "entry" BY <2>1
  <2> QED BY <2>1, <2>2, EntriesAre
<1>4. NamesIn(e) = <<>>
  <2>1. [i \in 1..0 |-> e[i].name] = <<>> OBVIOUS
  <2> QED BY <1>3, <2>1 DEF NamesIn
<1>5. ~HasEnd(e) BY <1>2 DEF HasEnd
<1> QED BY <1>1, <1>4, <1>5

(* A round of the outer loop ends the reading, or takes one block off.     *)
ReadsLast(d, names) == d \in RT /\ d.ended = TRUE /\ d.names = names
ReadsOn(d, c, names, buf) ==
    /\ d \in RT /\ d.ended = c.ended /\ d.names = names /\ d.buf = buf /\ d.acc = c.acc - c.dirblocksize
    /\ d.pos = c.pos /\ d.dirblocksize = c.dirblocksize /\ d.at_eof = c.at_eof /\ d.asked = c.asked
LEMMA ReadIs ==
    ASSUME NEW c \in RT, NEW block, block = IF c.buf = <<>> THEN <<>> ELSE c.buf[1],
           NEW names \in Seq(Int), names = More(c.names, block)
    PROVE  IF HasEnd(block) \/ c.acc < c.dirblocksize THEN ReadsLast(ReadBlock(c), names)
           ELSE c.buf # <<>> => ReadsOn(ReadBlock(c), c, names, Tail(c.buf))
<1> DEFINE d == ReadBlock(c)
<1>1. /\ c.buf \in Seq(Seq(Item)) /\ c.acc \in Int /\ c.pos \in Nat /\ c.dirblocksize \in Nat
      /\ c.names \in Seq(Int) /\ c.ended \in BOOLEAN
  BY DEF RT
<1>2. d = IF HasEnd(block) \/ c.acc < c.dirblocksize THEN [c EXCEPT !.names = names, !.ended = TRUE]
          ELSE [c EXCEPT !.names = names, !.buf = Tail(@), !.acc = @ - c.dirblocksize]
  BY Zenon DEF ReadBlock, More
<1> HIDE DEF d
<1>3. ASSUME HasEnd(block) \/ c.acc < c.dirblocksize PROVE ReadsLast(d, names)
  <2>1. d = [c EXCEPT !.names = names, !.ended = TRUE] BY <1>2, <1>3, Zenon
  <2>2. d \in RT /\ d.ended = TRUE /\ d.names = names BY <2>1 DEF RT
  <2> QED BY <2>2 DEF ReadsLast
<1>4. ASSUME ~(HasEnd(block) \/ c.acc < c.dirblocksize), c.buf # <<>> PROVE ReadsOn(d, c, names, Tail(c.buf))
  <2>1. PICK rest \in Seq(Seq(Item)) : rest = Tail(c.buf)
    <3> DEFINE S == Seq(Item)
    <3>1. c.buf \in Seq(S) BY <1>1
    <3> HIDE DEF S
    <3>2. Tail(c.buf) \in Seq(S) BY <1>4, <3>1, HeadTailProperties
    <3> QED BY <3>2 DEF S
  <2>2. PICK n \in Int : n = c.acc - c.dirblocksize BY <1>1
  <2>3. d = [c EXCEPT !.names = names, !.buf = rest, !.acc = n] BY <1>2, <1>4, <2>1, <2>2, Zenon
  <2>4. /\ d \in RT /\ d.ended = c.ended /\ d.names = names /\ d.buf = rest /\ d.acc = n
        /\ d.pos = c.pos /\ d.dirblocksize = c.dirblocksize /\ d.at_eof = c.at_eof /\ d.asked = c.asked
    BY <2>3 DEF RT
  <2> QED BY <2>1, <2>2, <2>4 DEF ReadsOn
<1> QED BY <1>3, <1>4 DEF d

HasRead(x, d) == d \in RT /\ d.ended = TRUE /\ ReadAll(x, d.names)

(* There is nothing left to read: the end was met between two blocks.      *)
LEMMA ReadNone ==
    ASSUME NEW x, Situation(x), NEW c, NEW a, RI(x, c, a, a), c.at_eof = TRUE
    PROVE  HasRead(x, ReadBlock(c))
<1>1. /\ c \in RT /\ a \in Nat /\ Received(x, a, a) /\ Held(x, c, a, a) /\ Counted(x, c, a, a) /\ Eof(x, c, a)
      /\ ReadTo(x, c.names, a)
  BY DEF RI
<1>2. PICK s \in Nat : s = x.size /\ s >= 1 BY DEF Situation
<1>3. a >= 1 /\ (Bytes(x, a) < s \/ ~Has(x, a + 1)) BY <1>1, <1>2 DEF Eof
<1>4. a < Len(Src(x, a)) /\ Has(x, a)
  <2>1. a \in 1..a BY <1>1, <1>3
  <2> QED BY <1>1, <2>1 DEF Received
<1>5. Bytes(x, a) = s BY <1>1, <1>2, <1>3, <1>4, BlkIs
<1>6. ~Has(x, a + 1) BY <1>2, <1>3, <1>5
<1>7. c.buf = <<>>
  <2>1. PICK b \in Seq(Seq(Item)) : b = c.buf BY <1>1 DEF RT
  <2>2. Len(b) = 0
    <3>1. a - a = 0 BY <1>1
    <3> QED BY <1>1, <2>1, <3>1 DEF Held
  <2>3. b = <<>>
    <3> DEFINE S == Seq(Item)
    <3>1. b \in Seq(S) BY <2>1
    <3> HIDE DEF S
    <3> QED BY <2>2, <3>1
  <2> QED BY <2>1, <2>3
<1>8. c.names \in Seq(Int) BY <1>1 DEF RT
<1>9. PICK names \in Seq(Int) : names = c.names /\ names = More(c.names, <<>>)
  <2>1. c.names \o <<>> = c.names BY <1>8, ConcatEmptySeq
  <2>2. More(c.names, <<>>) = c.names BY <2>1, NoNames, Zenon DEF More
  <2> QED BY <1>8, <2>2, Zenon
<1>10. c.acc = 0 /\ c.dirblocksize = s
  <2>1. Upto(x, a) = a * s /\ First(x, a) = s /\ a * s \in Nat BY <1>1, <1>2, <1>3, <1>5, UptoIs, Times
  <2>2. PICK u \in Nat : u = a * s BY <2>1
  <2>3. c.acc = u - u BY <1>1, <1>2, <2>1, <2>2 DEF Counted
  <2>4. u - u = 0 OBVIOUS
  <2> QED BY <1>1, <2>1, <2>3, <2>4 DEF Counted
<1>11. PICK block : block = IF c.buf = <<>> THEN <<>> ELSE c.buf[1] OBVIOUS
<1>12. block = <<>> BY <1>7, <1>11
<1>13. ReadsLast(ReadBlock(c), names)
  <2>1. c.acc < c.dirblocksize BY <1>2, <1>10
  <2>2. names = More(c.names, block) BY <1>9, <1>12, Zenon
  <2> QED BY <1>1, <1>11, <2>1, <2>2, ReadIs
<1>14. ReadAll(x, c.names) BY <1>1, <1>3, <1>4, <1>6, NoneRead
<1> QED BY <1>9, <1>13, <1>14 DEF ReadsLast, HasRead

(* A block is read.                                                        *)
LEMMA ReadOne ==
    ASSUME NEW x, Situation(x), NEW c, NEW a, NEW p, RI(x, c, a, p), p < a
    PROVE  HasRead(x, ReadBlock(c)) \/ (RI(x, ReadBlock(c), a, p + 1) /\ ReadBlock(c).at_eof = c.at_eof)
<1>1. /\ c \in RT /\ c.ended = FALSE /\ a \in Nat /\ p \in Nat
      /\ Received(x, a, p) /\ Held(x, c, a, p) /\ Counted(x, c, a, p) /\ Eof(x, c, a)
      /\ ReadTo(x, c.names, p) /\ (c.at_eof = FALSE => c.asked = a)
  BY DEF RI
<1>2. PICK s \in Nat : s = x.size /\ s >= 1 BY DEF Situation
<1>3. PICK q \in 1..a : q = p + 1 /\ q >= 1 /\ q - 1 = p /\ q \in Nat BY <1>1
<1>4. Has(x, q) BY <1>1 DEF Received
<1>5. PICK b \in Seq(Seq(Item)) : b = c.buf BY <1>1 DEF RT
<1>6. PICK l \in Nat : l = a - p /\ l >= 1 BY <1>1
<1>7. Len(b) = l /\ \A i \in 1..l : b[i] = Blk(x, p + i) BY <1>1, <1>5, <1>6 DEF Held
<1>8. b # <<>> /\ b[1] = Blk(x, q)
  <2>1. 1 \in 1..l BY <1>6
  <2>2. Len(<<>>) = 0 OBVIOUS
  <2>3. b[1] = Blk(x, p + 1) BY <1>7, <2>1
  <2> QED BY <1>3, <1>6, <1>7, <2>2, <2>3
<1>9. PICK block : block = IF c.buf = <<>> THEN <<>> ELSE c.buf[1] OBVIOUS
<1>10. block = Blk(x, q) BY <1>5, <1>8, <1>9
<1>11. /\ Len(Src(x, q)) \in Nat
       /\ HasEnd(block) <=> q = Len(Src(x, q))
       /\ q < Len(Src(x, q)) => Bytes(x, q) = s
  BY <1>2, <1>3, <1>4, <1>10, BlkIs
<1>12. q <= Len(Src(x, q)) BY <1>4 DEF Has
<1>13. PICK names \in Seq(Int) : names = More(c.names, block)
  <2>1. PICK more \in Seq(Int) : more = NamesIn(block) BY <1>3, <1>4, <1>10, BlkNames
  <2>2. c.names \in Seq(Int) BY <1>1 DEF RT
  <2>3. c.names \o more \in Seq(Int) BY <2>2, ConcatProperties
  <2>4. More(c.names, block) \in Seq(Int) BY <2>1, <2>3, Zenon DEF More
  <2> QED BY <2>4, Zenon
<1>14. ReadTo(x, names, q)
  <2>1. ReadTo(x, More(c.names, Blk(x, p + 1)), p + 1) BY <1>1, NamesRead
  <2> QED BY <1>3, <1>10, <1>13, <2>1
<1>15. PICK d : d = ReadBlock(c) OBVIOUS
<1>16. CASE HasEnd(block)
  <2>1. ReadsLast(d, names) BY <1>1, <1>9, <1>13, <1>15, <1>16, ReadIs
  <2>2. \A i \in 1..q - 1 : i < Len(Src(x, i)) BY <1>1, <1>3 DEF Received
  <2>3. ReadAll(x, names) BY <1>3, <1>11, <1>14, <1>16, <2>2, EndRead
  <2> QED BY <1>15, <2>1, <2>3 DEF ReadsLast, HasRead
<1>17. CASE ~HasEnd(block)
  <2>1. q < Len(Src(x, q)) /\ Bytes(x, q) = s BY <1>3, <1>11, <1>12, <1>17
  <2>2. First(x, a) = s /\ a >= 1
    <3>1. a >= 1 BY <1>1, <1>3
    <3>2. a = 1 => Bytes(x, a) = s BY <1>3, <2>1
    <3> QED BY <1>1, <1>2, <3>1, <3>2, UptoIs
  <2>3. p * s \in Nat /\ q * s = p * s + s BY <1>1, <1>2, <1>3, Times
  <2>4. Upto(x, a) \in Nat /\ Upto(x, a) >= q * s
    <3>1. Upto(x, a) \in Nat BY <1>1, UptoIs
    <3>2. CASE a = q
      <4>1. Upto(x, a) = a * s BY <1>1, <1>2, <2>1, <3>2, UptoIs
      <4>2. q * s \in Nat BY <2>3
      <4> QED BY <3>2, <4>1, <4>2
    <3>3. CASE q < a
      <4>1. PICK m \in Nat : m = a - 1 /\ (q = m \/ q < m) BY <1>1, <1>3, <3>3
      <4>2. Upto(x, a) = m * s + Bytes(x, a) BY <1>2, <2>2, <4>1 DEF Upto
      <4>3. Bytes(x, a) \in 1..s BY <1>1, <1>2, <2>2, UptoIs
      <4>4. m * s \in Nat /\ q * s \in Nat /\ (q < m => q * s + s <= m * s) BY <1>2, <1>3, <4>1, Times
      <4>5. PICK t \in Nat, u \in Nat, n \in Nat : t = m * s /\ u = q * s /\ n = Bytes(x, a)
        <5>1. PICK n \in Nat : n = Bytes(x, a) BY <4>3
        <5>2. PICK t \in Nat : t = m * s BY <4>4
        <5>3. PICK u \in Nat : u = q * s BY <4>4
        <5> QED BY <5>1, <5>2, <5>3, Zenon
      <4>6. q = m => u = t BY <4>5
      <4>7. u <= t BY <1>2, <4>1, <4>4, <4>5, <4>6
      <4>8. Upto(x, a) = t + n BY <4>2, <4>5
      <4>9. u <= t + n
        <5>1. \A i, j, k \in Nat : i <= j => i <= j + k OBVIOUS
        <5>2. u \in Nat /\ t \in Nat /\ n \in Nat OBVIOUS
        <5> QED BY <4>7, <5>1, <5>2
      <4> QED BY <4>5, <4>8, <4>9
    <3> QED BY <1>1, <1>3, <3>1, <3>2, <3>3
  <2>5. PICK u \in Nat, t \in Nat : u = Upto(x, a) /\ t = p * s /\ q * s = t + s /\ u >= t + s BY <2>3, <2>4
  <2>6. c.pos = u /\ c.dirblocksize = s /\ c.acc = u - t BY <1>1, <1>2, <2>2, <2>5 DEF Counted
  <2>7. ~(c.acc < c.dirblocksize) BY <2>5, <2>6
  <2>8. c.buf # <<>> BY <1>5, <1>8
  <2>9. ReadsOn(d, c, names, Tail(c.buf)) BY <1>1, <1>9, <1>13, <1>15, <1>17, <2>7, <2>8, ReadIs
  <2>10. PICK rest : rest = Tail(b) OBVIOUS
  <2>11. /\ d \in RT /\ d.ended = FALSE /\ d.names = names /\ d.buf = rest /\ d.acc = (u - t) - s
         /\ d.pos = u /\ d.dirblocksize = s /\ d.at_eof = c.at_eof /\ d.asked = c.asked
    BY <1>1, <1>5, <2>6, <2>9, <2>10 DEF ReadsOn
  <2>12. Received(x, a, q)
    <3>1. \A i \in 1..q : i \in 1..p \/ i = q BY <1>3
    <3>2. \A i \in 1..q : i < Len(Src(x, i)) BY <1>1, <2>1, <3>1 DEF Received
    <3>3. q <= a BY <1>3
    <3> QED BY <1>1, <3>2, <3>3 DEF Received
  <2>13. Held(x, d, a, q)
    <3> DEFINE S == Seq(Item)
    <3>1. b \in Seq(S) /\ b # <<>> BY <1>8
    <3> HIDE DEF S
    <3>2. Len(rest) = l - 1 /\ \A i \in 1..l - 1 : rest[i] = b[i + 1]
      BY <1>7, <2>10, <3>1, HeadTailProperties
    <3>3. a - q = l - 1 BY <1>1, <1>3, <1>6
    <3>4. \A i \in 1..l - 1 : i + 1 \in 1..l /\ p + (i + 1) = q + i BY <1>1, <1>3
    <3>5. \A i \in 1..l - 1 : rest[i] = Blk(x, q + i) BY <1>7, <3>2, <3>4
    <3> QED BY <2>11, <3>2, <3>3, <3>5 DEF Held
  <2>14. Counted(x, d, a, q)
    <3>1. (u - t) - s = u - (t + s) BY <1>2
    <3> QED BY <1>2, <2>2, <2>5, <2>11, <3>1 DEF Counted
  <2>15. Eof(x, d, a) BY <1>1, <2>11 DEF Eof
  <2> QED BY <1>1, <1>3, <1>14, <1>15, <2>11, <2>12, <2>13, <2>14, <2>15 DEF RI
<1> QED BY <1>16, <1>17

(* Every round receives a block, reads a block, or meets the end: Rank     *)
(* grows with each of them, and is bounded by the blocks there are.  Or    *)
(* its request is refused, and it comes to nothing again and again.        *)
Rank(c, a, p) == a + p + (IF c.at_eof = TRUE THEN 1 ELSE 0)
RankedAt(x, d, n) == \E a, p : RI(x, d, a, p) /\ Rank(d, a, p) >= n
Stuck(x, d) == d \in RT /\ d.ended = FALSE /\ Grows(x) /\ Reading(Dir(x), d) = d

LEMMA AskedStep ==
    ASSUME NEW x, Situation(x), NEW c, NEW a, NEW p, RI(x, c, a, p), c.at_eof = FALSE
    PROVE  \/ RankedAt(x, AskDir(Dir(x), c), Rank(c, a, p) + 1)
           \/ Grows(x) /\ AskDir(Dir(x), c) = c
<1>1. a \in Nat /\ p \in Nat /\ c.pos = Upto(x, a) /\ Received(x, a, p) /\ c.asked = a BY DEF RI, Counted
<1>2. PICK s \in Nat : s = x.size /\ s >= 1 BY DEF Situation
<1>3. PICK d : d = AskDir(Dir(x), c) OBVIOUS
<1>4. Rank(c, a, p) = a + p BY <1>1 DEF Rank
<1>5. ASSUME RI(x, d, a, p), d.at_eof = TRUE PROVE RankedAt(x, d, Rank(c, a, p) + 1)
  <2>1. Rank(d, a, p) >= Rank(c, a, p) + 1 BY <1>1, <1>4, <1>5 DEF Rank
  <2> QED BY <1>5, <2>1 DEF RankedAt
<1>6. CASE (a = 0 \/ Bytes(x, a) = x.size) /\ Has(x, a + 1)
  <2>1. RI(x, d, a + 1, p) BY <1>3, <1>6, BlockReceived
  <2>2. Rank(d, a + 1, p) >= Rank(c, a, p) + 1 BY <1>1, <1>4 DEF Rank
  <2> QED BY <1>3, <2>1, <2>2 DEF RankedAt
<1>7. CASE (a = 0 \/ Bytes(x, a) = x.size) /\ ~Has(x, a + 1)
  <2>1. a >= 1
    <3>1. CASE a = 0
      <4>1. PICK one \in Nat : one = 1 /\ one >= 1 /\ one = a + 1 BY <3>1
      <4>2. Len(Src(x, one)) >= 1 BY <4>1, BlkIs
      <4>3. Has(x, one) BY <4>1, <4>2 DEF Has
      <4> QED BY <1>7, <4>1, <4>3
    <3> QED BY <1>1, <3>1
  <2>2. c.pos = a * x.size BY <1>1, <1>7, UptoIs
  <2>3. Answer(Dir(x), c) = <<>> BY <1>1, <1>7, <2>2, AnswerIs
  <2>4. RI(x, d, a, p) /\ d.at_eof = TRUE BY <1>3, <1>7, <2>1, <2>3, NoneReceived
  <2> QED BY <1>3, <1>5, <2>4
<1>8. CASE a # 0 /\ Bytes(x, a) # x.size
  <2>1. a = 1
    <3>1. a <= 1 BY <1>8 DEF RI, Eof
    <3> QED BY <1>1, <1>8, <3>1
  <2>2. Bytes(x, a) \in 1..s
    <3>1. a >= 1 BY <2>1
    <3> QED BY <1>1, <1>2, <3>1, UptoIs
  <2>3. PICK n \in Nat : n = Bytes(x, 1) /\ n < s /\ n >= 1 BY <1>2, <1>8, <2>1, <2>2
  <2>4. c.pos = n
    <3>1. PICK z \in Nat : z = 0 /\ a - 1 = z BY <2>1
    <3>2. z * s = 0 /\ 0 + n = n BY <3>1
    <3>3. Upto(x, a) = z * s + n BY <1>2, <2>1, <2>3, <3>1 DEF Upto
    <3> QED BY <1>1, <3>2, <3>3
  <2>5. Answer(Dir(x), c) = <<>> \/ (Grows(x) /\ Answer(Dir(x), c) = ErrorReply)
    BY <1>1, <1>2, <2>1, <2>3, <2>4, AnswerShort
  <2>6. a >= 1 /\ Bytes(x, a) < x.size BY <1>2, <2>1, <2>3
  <2>7. CASE Answer(Dir(x), c) = <<>>
    <3>1. RI(x, d, a, p) /\ d.at_eof = TRUE BY <1>3, <2>6, <2>7, NoneReceived
    <3> QED BY <1>3, <1>5, <3>1
  <2>8. CASE Grows(x) /\ Answer(Dir(x), c) = ErrorReply
    <3>1. \A r : r = ErrorReply => r # <<>> /\ r[1].type = "error" BY DEF ErrorReply
    <3>2. AskDir(Dir(x), c) = c BY <2>8, <3>1, Zenon DEF AskDir
    <3> QED BY <2>8, <3>2
  <2> QED BY <2>5, <2>7, <2>8
<1> QED BY <1>3, <1>6, <1>7, <1>8

LEMMA ReadStep ==
    ASSUME NEW x, Situation(x), NEW c, NEW a, NEW p, RI(x, c, a, p), ~(c.acc < UBUF_MAXSPACE /\ c.at_eof = FALSE)
    PROVE  HasRead(x, ReadBlock(c)) \/ RankedAt(x, ReadBlock(c), Rank(c, a, p) + 1)
<1>1. a \in Nat /\ p \in Nat /\ Received(x, a, p) /\ p <= a /\ c.acc = Upto(x, a) - p * x.size /\ c.at_eof \in BOOLEAN
  BY DEF RI, Counted, Received, RT
<1>2. PICK s \in Nat : s = x.size /\ s >= 1 BY DEF Situation
<1>3. PICK d : d = ReadBlock(c) OBVIOUS
<1>4. CASE p < a
  <2>1. HasRead(x, d) \/ (RI(x, d, a, p + 1) /\ d.at_eof = c.at_eof) BY <1>3, <1>4, ReadOne
  <2>2. ASSUME d.at_eof = c.at_eof PROVE Rank(d, a, p + 1) >= Rank(c, a, p) + 1 BY <1>1, <2>2 DEF Rank
  <2> QED BY <1>3, <2>1, <2>2 DEF RankedAt
<1>5. CASE p = a
  <2>1. c.at_eof = TRUE
    <3>1. a = 0 \/ Bytes(x, a) = s
      <4>1. SUFFICES ASSUME a # 0 PROVE Bytes(x, a) = s OBVIOUS
      <4>2. a \in 1..p /\ a \in 1..a /\ a >= 1 BY <1>1, <1>5, <4>1
      <4>3. a < Len(Src(x, a)) /\ Has(x, a) BY <1>1, <4>2 DEF Received
      <4> QED BY <1>1, <1>2, <4>2, <4>3, BlkIs
    <3>2. Upto(x, a) = a * s /\ a * s \in Nat BY <1>1, <1>2, <3>1, UptoIs, Times
    <3>3. PICK u \in Nat : u = a * s BY <3>2
    <3>4. c.acc = u - u BY <1>1, <1>2, <1>5, <3>2, <3>3
    <3>5. u - u = 0 OBVIOUS
    <3>6. c.acc < UBUF_MAXSPACE
      <4>1. \A n \in Nat \ {0} : 0 < n OBVIOUS
      <4> QED BY <3>4, <3>5, <4>1, ListingAssumption
    <3> QED BY <1>1, <3>6
  <2>2. HasRead(x, d) BY <1>3, <1>5, <2>1, ReadNone
  <2> QED BY <1>3, <2>2
<1> QED BY <1>1, <1>4, <1>5

LEMMA ReadingStep ==
    ASSUME NEW x, Situation(x), NEW c, NEW n \in Nat, RankedAt(x, c, n)
    PROVE  LET d == Reading(Dir(x), c)
           IN  HasRead(x, d) \/ RankedAt(x, d, n + 1) \/ Stuck(x, d)
<1>1. PICK a, p : RI(x, c, a, p) /\ Rank(c, a, p) >= n BY DEF RankedAt
<1>2. c.ended = FALSE /\ c.at_eof \in BOOLEAN /\ a \in Nat /\ p \in Nat BY <1>1 DEF RI, RT
<1>3. PICK d : d = Reading(Dir(x), c) OBVIOUS
<1>4. Rank(c, a, p) \in Nat BY <1>2 DEF Rank
<1>5. ASSUME RankedAt(x, d, Rank(c, a, p) + 1) PROVE RankedAt(x, d, n + 1)
  <2>1. PICK e, f : RI(x, d, e, f) /\ Rank(d, e, f) >= Rank(c, a, p) + 1 BY <1>5 DEF RankedAt
  <2>2. Rank(d, e, f) \in Nat BY <2>1 DEF Rank, RI
  <2>3. Rank(d, e, f) >= n + 1 BY <1>1, <1>4, <2>1, <2>2
  <2> QED BY <2>1, <2>3 DEF RankedAt
<1>6. CASE c.acc < UBUF_MAXSPACE /\ c.at_eof = FALSE
  <2>1. d = AskDir(Dir(x), c) BY <1>2, <1>3, <1>6, Zenon DEF Reading
  <2>2. RankedAt(x, d, Rank(c, a, p) + 1) \/ (Grows(x) /\ d = c) BY <1>1, <1>6, <2>1, AskedStep
  <2>3. ASSUME Grows(x), d = c PROVE Stuck(x, d)
    <3>1. d \in RT /\ d.ended = FALSE /\ Reading(Dir(x), d) = d BY <1>1, <1>2, <1>3, <2>3 DEF RI
    <3> QED BY <2>3, <3>1 DEF Stuck
  <2> QED BY <1>3, <1>5, <2>2, <2>3
<1>7. CASE ~(c.acc < UBUF_MAXSPACE /\ c.at_eof = FALSE)
  <2>1. ~(c.acc < UBUF_MAXSPACE /\ ~c.at_eof) BY <1>2, <1>7
  <2>2. d = ReadBlock(c) BY <1>2, <1>3, <2>1, Zenon DEF Reading
  <2>3. HasRead(x, d) \/ RankedAt(x, d, Rank(c, a, p) + 1) BY <1>1, <1>7, <2>2, ReadStep
  <2> QED BY <1>3, <1>5, <2>3
<1> QED BY <1>6, <1>7

LEMMA LensAre == ASSUME NEW x, Situation(x) PROVE Len(x.bo) \in Nat /\ Len(x.bn) \in Nat
<1>1. PICK s \in Nat : s = x.size BY DEF Situation
<1>2. PICK bo, bn, co, cn, no, nn : bo = x.bo /\ bn = x.bn /\ co = x.co /\ cn = x.cn /\ no = x.no /\ nn = x.nn OBVIOUS
<1>3. Formed(bo, no, s, co) /\ Formed(bn, nn, s, cn) BY <1>1, <1>2 DEF Situation
<1>4. Len(bo) \in Nat /\ Len(bn) \in Nat BY <1>1, <1>3, FormedIs
<1> QED BY <1>2, <1>4

LEMMA RankIsBounded ==
    ASSUME NEW x, Situation(x), NEW c, NEW n \in Nat, RankedAt(x, c, n)
    PROVE  n <= 2 * (Len(x.bo) + Len(x.bn)) + 1
<1>1. PICK a, p : RI(x, c, a, p) /\ Rank(c, a, p) >= n BY DEF RankedAt
<1>2. a \in Nat /\ p \in Nat /\ p <= a /\ Received(x, a, p) BY <1>1 DEF RI, Received
<1>3. PICK l \in Nat, m \in Nat : l = Len(x.bo) /\ m = Len(x.bn) BY LensAre
<1>4. a <= l + m
  <2>1. CASE a = 0
    <3>1. \A i, j \in Nat : 0 <= i + j OBVIOUS
    <3> QED BY <1>3, <2>1, <3>1, Zenon
  <2>2. CASE a # 0
    <3>1. a \in 1..a BY <1>2, <2>2
    <3>2. a <= Len(Src(x, a)) BY <1>2, <3>1 DEF Received, Has
    <3>3. a <= l \/ a <= m BY <1>3, <3>2 DEF Src
    <3> QED BY <1>2, <3>3
  <2> QED BY <2>1, <2>2
<1>5. Rank(c, a, p) <= a + p + 1 BY <1>2 DEF Rank
<1>6. n <= 2 * (l + m) + 1
  <2>1. Rank(c, a, p) \in Nat BY <1>2 DEF Rank
  <2> QED BY <1>1, <1>2, <1>4, <1>5, <2>1
<1> QED BY <1>3, <1>6

LEMMA ReaderStarts == ASSUME NEW x, Situation(x) PROVE RankedAt(x, Reader, 0)
<1>1. PICK k \in Nat : k = x.k BY DEF Situation
<1>2. PICK bo, co, no : bo = x.bo /\ co = x.co /\ no = x.no OBVIOUS
<1>3. PICK s \in Nat : s = x.size /\ s >= 1 BY DEF Situation
<1>4. PICK c : c = Reader OBVIOUS
<1>5. /\ c \in RT /\ c.buf = <<>> /\ c.acc = 0 /\ c.pos = 0 /\ c.dirblocksize = 0 /\ c.at_eof = FALSE
      /\ c.names = <<>> /\ c.ended = FALSE /\ c.asked = 0
  <2>1. <<>> \in Seq(Seq(Item)) /\ <<>> \in Seq(Int) OBVIOUS
  <2>2. \A y : y = [buf |-> <<>>, acc |-> 0, pos |-> 0, dirblocksize |-> 0, at_eof |-> FALSE,
                    names |-> <<>>, ended |-> FALSE, asked |-> 0] =>
            /\ y \in RT /\ y.buf = <<>> /\ y.acc = 0 /\ y.pos = 0 /\ y.dirblocksize = 0 /\ y.at_eof = FALSE
            /\ y.names = <<>> /\ y.ended = FALSE /\ y.asked = 0
    BY <2>1 DEF RT
  <2> QED BY <1>4, <2>2, Zenon DEF Reader
<1>6. PICK z \in Nat : z = 0 OBVIOUS
<1>7. Received(x, z, z) BY <1>6 DEF Received
<1>8. Held(x, c, z, z)
  <2>1. Len(c.buf) = 0 BY <1>5
  <2>2. z - z = 0 /\ 1..0 = {} BY <1>6
  <2> QED BY <2>1, <2>2 DEF Held
<1>9. Counted(x, c, z, z)
  <2>1. Upto(x, z) = 0 /\ First(x, z) = 0 BY <1>6 DEF Upto, First
  <2>2. 0 - z * s = 0
    <3>1. 0 * s = 0 /\ 0 - 0 = 0 OBVIOUS
    <3> QED BY <1>6, <3>1
  <2> QED BY <1>3, <1>5, <2>1, <2>2 DEF Counted
<1>10. Eof(x, c, z) BY <1>5, <1>6 DEF Eof
<1>11. ReadTo(x, c.names, z)
  <2>1. Formed(bo, no, s, co) /\ no \in Seq(Nat) BY <1>2, <1>3 DEF Situation
  <2>2. co[z] = 0 BY <1>6, <2>1, FormedStarts, Zenon
  <2>3. FrontOf(no, 0) = <<>> BY DEF FrontOf
  <2>4. z <= x.k BY <1>1, <1>6
  <2>5. c.names = FrontOf(x.no, x.co[z]) BY <1>2, <1>5, <2>2, <2>3
  <2> QED BY <2>4, <2>5, Zenon DEF ReadTo
<1>12. RI(x, c, z, z) BY <1>5, <1>6, <1>7, <1>8, <1>9, <1>10, <1>11 DEF RI
<1>13. Rank(c, z, z) >= 0 BY <1>5, <1>6 DEF Rank
<1> QED BY <1>4, <1>12, <1>13 DEF RankedAt

(* get_dir_blk() comes to an end and has read all, or it has met a short   *)
(* listing that grew.                                                      *)
LEMMA AllIsRead ==
    ASSUME NEW x, Situation(x)
    PROVE  ReadAll(x, GetDirBlk(Dir(x))) \/ (Grows(x) /\ GetDirBlk(Dir(x)) = Endless)
<1> DEFINE dir == Dir(x)
           M == Rounds(dir)
           IsAt(c, n) == HasRead(x, c) \/ RankedAt(x, c, n) \/ Stuck(x, c)
           S == {c \in RT : IsAt(c, 0)}
           T == [n \in 1..M |-> [c \in S |-> Reading(dir, c)]]
           Is(f) == f = [n \in 0..M |-> IF n = 0 THEN Reader ELSE Reading(dir, f[n - 1])]
           reader == CHOOSE f : Is(f)
<1>1. M \in Nat /\ M > 2 * (Len(x.bo) + Len(x.bn)) + 1
  <2>1. PICK l \in Nat, m \in Nat : l = Len(x.bo) /\ m = Len(x.bn) BY LensAre
  <2>2. PICK ch, sz : ch = x.k /\ sz = x.size OBVIOUS
  <2>3. \A d : d = [old |-> x.bo, new |-> x.bn, change |-> ch, dirblocksize |-> sz] => d.old = x.bo /\ d.new = x.bn
    OBVIOUS
  <2>4. dir = [old |-> x.bo, new |-> x.bn, change |-> ch, dirblocksize |-> sz] BY <2>2 DEF Dir, Changing
  <2>5. dir.old = x.bo /\ dir.new = x.bn BY <2>3, <2>4, Zenon
  <2> HIDE DEF dir
  <2>6. M = 2 * (l + m) + 2 BY <2>1, <2>5 DEF Rounds
  <2> HIDE DEF M
  <2>7. M \in Nat /\ M > 2 * (l + m) + 1 BY <2>6
  <2> QED BY <2>1, <2>7
<1>2. ASSUME NEW c, HasRead(x, c) PROVE Reading(dir, c) = c
  <2>1. c.ended = TRUE BY <1>2 DEF HasRead
  <2> QED BY <2>1, Zenon DEF Reading
<1>3. ASSUME NEW c, NEW n \in Nat, IsAt(c, n) PROVE IsAt(Reading(dir, c), n + 1)
  <2>1. CASE HasRead(x, c) BY <1>2, <2>1
  <2>2. CASE RankedAt(x, c, n) BY <2>2, ReadingStep
  <2>3. CASE Stuck(x, c) BY <2>3 DEF Stuck
  <2> QED BY <1>3, <2>1, <2>2, <2>3
<1>4. ASSUME NEW c, NEW n \in Nat, IsAt(c, n) PROVE c \in S
  <2>1. c \in RT BY <1>4 DEF HasRead, RankedAt, RI, Stuck
  <2>2. RankedAt(x, c, n) => RankedAt(x, c, 0)
    <3>1. SUFFICES ASSUME NEW a, NEW p, RI(x, c, a, p), Rank(c, a, p) >= n PROVE RankedAt(x, c, 0)
      BY DEF RankedAt
    <3>2. Rank(c, a, p) \in Nat BY <3>1 DEF Rank, RI
    <3>3. Rank(c, a, p) >= 0 BY <3>2
    <3> QED BY <3>1, <3>3 DEF RankedAt
  <2> QED BY <1>4, <2>1, <2>2
<1>5. Reader \in S
  <2>1. 0 \in Nat /\ RankedAt(x, Reader, 0) BY ReaderStarts
  <2> QED BY <1>4, <2>1
<1>6. \A c \in S : Reading(dir, c) \in S
  <2> SUFFICES ASSUME NEW c \in S PROVE Reading(dir, c) \in S OBVIOUS
  <2>1. 0 \in Nat /\ 0 + 1 \in Nat OBVIOUS
  <2>2. IsAt(c, 0) OBVIOUS
  <2>3. IsAt(Reading(dir, c), 0 + 1) BY <1>3, <2>1, <2>2
  <2> HIDE DEF S, dir
  <2> QED BY <1>4, <2>1, <2>3
<1> HIDE DEF S, dir
<1>7. T \in [1..M -> [S -> S]] /\ \A n \in 1..M, c \in S : T[n][c] = Reading(dir, c) BY <1>6
<1> HIDE DEF M, T
<1>8. PICK r : Iterates(r, M, S, Reader, T) BY <1>1, <1>5, <1>7, Iterated
<1>9. ASSUME NEW n \in 1..M PROVE r[n] = Reading(dir, r[n - 1])
  <2>1. n - 1 \in 0..M BY <1>1
  <2>2. r[n - 1] \in S /\ r[n] = T[n][r[n - 1]] BY <1>8, <2>1 DEF Iterates
  <2> QED BY <1>7, <2>2
<1>10. Is(r)
  <2>1. \A n \in 0..M : r[n] = IF n = 0 THEN Reader ELSE Reading(dir, r[n - 1])
    BY <1>1, <1>8, <1>9 DEF Iterates
  <2> QED BY <1>8, <2>1 DEF Iterates
<1>11. Is(reader) BY <1>10, Zenon
<1>12. GetDirBlk(dir) = IF reader[M].ended THEN reader[M].names ELSE Endless BY DEF GetDirBlk, M
<1> HIDE DEF reader
<1>13. reader[0] = Reader /\ \A n \in 1..M : reader[n] = Reading(dir, reader[n - 1]) BY <1>1, <1>11
<1> DEFINE Q == {n \in 0..M : IsAt(reader[n], n)}
<1>14. 0 \in Q BY <1>1, <1>13, ReaderStarts
<1>15. ASSUME NEW n \in 0..M - 1, n \in Q PROVE n + 1 \in Q
  <2>1. PICK m \in 1..M : m = n + 1 /\ m - 1 = n /\ n \in Nat /\ m \in 0..M BY <1>1
  <2>2. PICK c, d : c = reader[n] /\ d = reader[m] OBVIOUS
  <2>3. d = Reading(dir, c) BY <1>13, <2>1, <2>2
  <2>4. IsAt(c, n) BY <1>15, <2>2
  <2>5. IsAt(d, n + 1) BY <1>3, <2>1, <2>3, <2>4
  <2> QED BY <2>1, <2>2, <2>5
<1>16. M \in Q
  <2> HIDE DEF Q
  <2>1. 0..M \subseteq Q BY <1>1, <1>14, <1>15, Induction
  <2>2. M \in 0..M BY <1>1
  <2> QED BY <2>1, <2>2
<1>17. HasRead(x, reader[M]) \/ Stuck(x, reader[M])
  <2>1. ASSUME RankedAt(x, reader[M], M) PROVE FALSE
    <3>1. PICK c : c = reader[M] OBVIOUS
    <3>2. M <= 2 * (Len(x.bo) + Len(x.bn)) + 1 BY <1>1, <2>1, <3>1, RankIsBounded
    <3>3. PICK l \in Nat, m \in Nat : l = Len(x.bo) /\ m = Len(x.bn) BY LensAre
    <3>4. M <= 2 * (l + m) + 1 /\ M > 2 * (l + m) + 1 BY <1>1, <3>2, <3>3
    <3>5. PICK k \in Nat : k = 2 * (l + m) + 1 OBVIOUS
    <3>6. M <= k /\ M > k BY <3>4, <3>5
    <3> QED BY <1>1, <3>6
  <2> QED BY <1>16, <2>1
<1>18. CASE HasRead(x, reader[M])
  <2>1. reader[M].ended = TRUE /\ ReadAll(x, reader[M].names) BY <1>18 DEF HasRead
  <2>2. GetDirBlk(dir) = reader[M].names BY <1>12, <2>1, Zenon
  <2> QED BY <2>1, <2>2 DEF dir
<1>19. CASE Stuck(x, reader[M])
  <2>1. reader[M].ended = FALSE /\ Grows(x) BY <1>19 DEF Stuck
  <2>2. GetDirBlk(dir) = Endless BY <1>12, <2>1
  <2> QED BY <2>1, <2>2 DEF dir
<1> QED BY <1>17, <1>18, <1>19

(* Prefixes and suffixes.                                                  *)
LEMMA PartIs ==
    ASSUME NEW s \in Seq(Nat), NEW l \in 0..Len(s), NEW m \in l..Len(s)
    PROVE  /\ SubSeq(s, l + 1, m) \in Seq(Nat) /\ Len(SubSeq(s, l + 1, m)) = m - l
           /\ \A i \in 1..m - l : SubSeq(s, l + 1, m)[i] = s[l + i]
<1>1. PICK k \in Int : k = l + 1 OBVIOUS
<1>2. m \in Int /\ Len(s) \in Nat OBVIOUS
<1>3. \A i \in k..m : s[i] \in Nat BY <1>1
<1>4. PICK t : t = SubSeq(s, k, m) OBVIOUS
<1>5. /\ t \in Seq(Nat) /\ Len(t) = (IF k <= m THEN m - k + 1 ELSE 0)
      /\ \A i \in 1..m - k + 1 : t[i] = s[k + i - 1]
  BY <1>1, <1>2, <1>3, <1>4, SubSeqProperties
<1>6. m - k + 1 = m - l /\ (~(k <= m) => m - l = 0) BY <1>1
<1>7. Len(t) = m - l BY <1>5, <1>6
<1>8. \A i \in 1..m - l : k + i - 1 = l + i BY <1>1
<1>9. \A i \in 1..m - l : t[i] = s[l + i] BY <1>5, <1>6, <1>8
<1> QED BY <1>1, <1>4, <1>5, <1>7, <1>9

LEMMA FrontPart ==
    ASSUME NEW s \in Seq(Nat), NEW m \in 0..Len(s)
    PROVE  /\ SubSeq(s, 1, m) \in Seq(Nat) /\ Len(SubSeq(s, 1, m)) = m
           /\ \A i \in 1..m : SubSeq(s, 1, m)[i] = s[i]
<1>1. PICK k \in Int : k = 1 OBVIOUS
<1>2. m \in Int /\ Len(s) \in Nat OBVIOUS
<1>3. \A i \in k..m : s[i] \in Nat BY <1>1
<1>4. PICK t : t = SubSeq(s, k, m) OBVIOUS
<1>5. /\ t \in Seq(Nat) /\ Len(t) = (IF k <= m THEN m - k + 1 ELSE 0)
      /\ \A i \in 1..m - k + 1 : t[i] = s[k + i - 1]
  BY <1>1, <1>2, <1>3, <1>4, SubSeqProperties
<1>6. m - k + 1 = m /\ (~(k <= m) => m = 0) BY <1>1
<1>7. Len(t) = m BY <1>5, <1>6
<1>8. \A i \in 1..m : k + i - 1 = i BY <1>1
<1>9. \A i \in 1..m : t[i] = s[i] BY <1>5, <1>6, <1>8
<1> QED BY <1>1, <1>4, <1>5, <1>7, <1>9

Joined(c, a, b) ==
    /\ c \in Seq(Nat) /\ Len(c) = Len(a) + Len(b)
    /\ \A k \in 1..Len(a) + Len(b) : c[k] = IF k <= Len(a) THEN a[k] ELSE b[k - Len(a)]
LEMMA JoinedIs == ASSUME NEW a \in Seq(Nat), NEW b \in Seq(Nat) PROVE Joined(a \o b, a, b)
BY ConcatProperties DEF Joined

LEMMA PrefixIs ==
    ASSUME NEW s \in Seq(Nat), NEW i \in 0..Len(s)
    PROVE  IsPrefix(SubSeq(s, 1, i), s)
<1>1. PICK a : a = SubSeq(s, 1, i) OBVIOUS
<1>2. a \in Seq(Nat) /\ Len(a) = i
  <2>1. SubSeq(s, 1, i) \in Seq(Nat) /\ Len(SubSeq(s, 1, i)) = i BY FrontPart
  <2> QED BY <1>1, <2>1
<1>3. SubSeq(a, 1, Len(a)) = a BY <1>2, SubSeqFull
<1>4. SubSeq(a, 1, Len(a)) = SubSeq(s, 1, Len(a)) BY <1>1, <1>2, <1>3, Zenon
<1>5. Len(a) <= Len(s) BY <1>2
<1> QED BY <1>1, <1>4, <1>5 DEF IsPrefix

LEMMA ReverseIs ==
    ASSUME NEW s \in Seq(Nat)
    PROVE  /\ Reverse(s) \in Seq(Nat) /\ Len(Reverse(s)) = Len(s)
           /\ \A i \in 1..Len(s) : Reverse(s)[i] = s[(Len(s) - i) + 1]
<1> DEFINE n == Len(s)
           r == [i \in 1..n |-> s[(n - i) + 1]]
<1>1. n \in Nat OBVIOUS
<1>2. \A i \in 1..n : (n - i) + 1 \in 1..n OBVIOUS
<1>3. \A i \in 1..n : s[(n - i) + 1] \in Nat BY <1>2
<1> HIDE DEF n
<1>4. r \in [1..n -> Nat] BY <1>3
<1>5. r \in Seq(Nat) BY <1>1, <1>4, SeqDef
<1>6. Len(r) = n
  <2>1. Len(r) \in Nat /\ DOMAIN r = 1..Len(r) BY <1>5, LenProperties
  <2>2. DOMAIN r = 1..n OBVIOUS
  <2>3. 1..Len(r) = 1..n BY <2>1, <2>2
  <2> HIDE DEF r
  <2> QED BY <1>1, <2>1, <2>3, SameCount
<1>7. Reverse(s) = r BY DEF Reverse, n
<1> QED BY <1>5, <1>6, <1>7 DEF n

LEMMA SuffixIs ==
    ASSUME NEW t \in Seq(Nat), NEW j \in 0..Len(t)
    PROVE  IsSuffix(SubSeq(t, j + 1, Len(t)), t)
<1>1. PICK n \in j..Len(t) : n = Len(t) OBVIOUS
<1>2. PICK l \in Nat : l = n - j OBVIOUS
<1>3. PICK b \in Seq(Nat) : b = SubSeq(t, j + 1, Len(t)) /\ Len(b) = l /\ \A i \in 1..l : b[i] = t[j + i]
  BY <1>1, <1>2, PartIs
<1>4. PICK rb \in Seq(Nat) : rb = Reverse(b) /\ Len(rb) = l /\ \A i \in 1..l : rb[i] = b[(l - i) + 1]
  BY <1>3, ReverseIs
<1>5. PICK rt \in Seq(Nat) : rt = Reverse(t) /\ Len(rt) = n /\ \A i \in 1..n : rt[i] = t[(n - i) + 1]
  BY <1>1, ReverseIs
<1>6. l \in 0..n /\ l <= n BY <1>2
<1>7. PICK c \in Seq(Nat) : c = SubSeq(rt, 1, l) /\ Len(c) = l /\ \A i \in 1..l : c[i] = rt[i]
  <2>1. l \in 0..Len(rt) BY <1>5, <1>6
  <2> QED BY <2>1, FrontPart
<1>8. rb = c
  <2>1. ASSUME NEW i \in 1..l PROVE rb[i] = c[i]
    <3>1. (l - i) + 1 \in 1..l /\ i \in 1..n /\ j + ((l - i) + 1) = (n - i) + 1 BY <1>2
    <3>2. rb[i] = t[j + ((l - i) + 1)] BY <1>3, <1>4, <3>1
    <3>3. c[i] = t[(n - i) + 1] BY <1>5, <1>7, <3>1
    <3> QED BY <3>1, <3>2, <3>3
  <2>2. Len(rb) = Len(c) BY <1>4, <1>7
  <2>3. \A i \in 1..Len(rb) : rb[i] = c[i] BY <1>4, <2>1
  <2> QED BY <2>2, <2>3, SameSeq
<1>9. SubSeq(rb, 1, l) = rb BY <1>4, SubSeqFull
<1>10. IsPrefix(rb, rt)
  <2>1. SubSeq(rb, 1, l) = SubSeq(rt, 1, l) BY <1>7, <1>8, <1>9, Zenon
  <2> QED BY <1>4, <1>5, <1>6, <2>1 DEF IsPrefix
<1> QED BY <1>3, <1>4, <1>5, <1>10 DEF IsSuffix

(* Names of one listing and then names of another.                         *)
Mixed(names, old, new) ==
    \E i \in 0..Len(names) : /\ IsPrefix(SubSeq(names, 1, i), old)
                             /\ IsSuffix(SubSeq(names, i + 1, Len(names)), new)
LEMMA BothMixed ==
    ASSUME NEW s \in Seq(Nat), NEW i \in 0..Len(s), NEW t \in Seq(Nat), NEW j \in 0..Len(t)
    PROVE  Mixed(Both(s, i, t, j, Len(t)), s, t)
<1>1. PICK n \in j..Len(t) : n = Len(t) OBVIOUS
<1>2. PICK a \in Seq(Nat) : a = SubSeq(s, 1, i) /\ Len(a) = i BY FrontPart
<1>3. PICK l \in Nat : l = n - j OBVIOUS
<1>4. PICK b \in Seq(Nat) : b = SubSeq(t, j + 1, Len(t)) /\ Len(b) = l BY <1>1, <1>3, PartIs
<1>5. PICK c : c = a \o b OBVIOUS
<1>6. /\ c \in Seq(Nat) /\ Len(c) = i + l
      /\ \A k \in 1..i + l : c[k] = IF k <= i THEN a[k] ELSE b[k - i]
  <2>1. Joined(a \o b, a, b) BY JoinedIs
  <2>2. Joined(c, a, b) BY <1>5, <2>1, Zenon
  <2> QED BY <1>2, <1>4, <2>2 DEF Joined
<1>7. PICK m \in Nat : m = i + l /\ m = Len(c) BY <1>6
<1>8. SubSeq(c, 1, i) = a
  <2>1. PICK d \in Seq(Nat) : d = SubSeq(c, 1, i) /\ Len(d) = i /\ \A k \in 1..i : d[k] = c[k]
    <3>1. i \in 0..Len(c) BY <1>7
    <3> QED BY <1>6, <3>1, FrontPart
  <2>2. \A k \in 1..i : k \in 1..i + l /\ k <= i OBVIOUS
  <2>3. \A k \in 1..i : d[k] = a[k] BY <1>6, <2>1, <2>2
  <2>4. d = a BY <1>2, <2>1, <2>3, SameSeq
  <2> QED BY <2>1, <2>4
<1>9. SubSeq(c, i + 1, Len(c)) = b
  <2>1. i \in 0..Len(c) /\ m \in i..Len(c) /\ m - i = l BY <1>7
  <2>2. PICK d \in Seq(Nat) : d = SubSeq(c, i + 1, m) /\ Len(d) = l /\ \A k \in 1..l : d[k] = c[i + k]
    BY <1>6, <2>1, PartIs
  <2>3. \A k \in 1..l : i + k \in 1..i + l /\ ~(i + k <= i) /\ (i + k) - i = k OBVIOUS
  <2>4. \A k \in 1..l : d[k] = b[k] BY <1>6, <2>2, <2>3
  <2>5. d = b BY <1>4, <2>2, <2>4, SameSeq
  <2> QED BY <1>7, <2>2, <2>5
<1>10. IsPrefix(a, s) BY <1>2, PrefixIs
<1>11. IsSuffix(b, t) BY <1>4, SuffixIs
<1>12. i \in 0..Len(c) BY <1>7
<1>13. Mixed(c, s, t) BY <1>8, <1>9, <1>10, <1>11, <1>12, Zenon DEF Mixed
<1> QED BY <1>2, <1>4, <1>5, <1>13, Zenon DEF Both

(* Reading a directory: what get_dir_blk() returns, when no block was      *)
(* written beyond its end.                                                 *)
ReadsSome(old, new, k, names) ==
    \E i \in 0..Len(old), j \in 0..Len(new) : /\ names = Both(old, i, new, j, Len(new))
                                              /\ k = 0 => i = 0 /\ j = 0
ReadsOrGrows(old, new, was, is, size, k, names) ==
    ReadsSome(old, new, k, names) \/ (names = Endless /\ k = 1 /\ GrowsShort(was, is, size))
LEMMA ListingIsRead ==
    ASSUME NEW old \in Seq(Nat), NEW new \in Seq(Nat), NEW size \in Nat, size >= RDHSIZE, NEW k \in Nat,
           NEW was, was = Build(old, size), NEW is, is = Build(new, size), was.over = FALSE, is.over = FALSE
    PROVE  ReadsOrGrows(old, new, was, is, size, k, GetDirBlk(Changing(was.blocks, is.blocks, k, size)))
<1>1. size >= 1 BY ListingAssumption
<1>2. PICK bo, bn : bo = was.blocks /\ bn = is.blocks OBVIOUS
<1>3. PICK co : Formed(bo, old, size, co) BY <1>2, BuildIs
<1>4. PICK cn : Formed(bn, new, size, cn) BY <1>2, BuildIs
<1>5. PICK x : x = [bo |-> bo, bn |-> bn, co |-> co, cn |-> cn, no |-> old, nn |-> new, k |-> k, size |-> size]
  OBVIOUS
<1>6. x.bo = bo /\ x.bn = bn /\ x.co = co /\ x.cn = cn /\ x.no = old /\ x.nn = new /\ x.k = k /\ x.size = size
  BY <1>5
<1>7. Situation(x) BY <1>1, <1>3, <1>4, <1>6, Zenon DEF Situation
<1>8. Dir(x) = Changing(bo, bn, k, size) BY <1>6, Zenon DEF Dir
<1>9. ReadAll(x, GetDirBlk(Dir(x))) \/ (Grows(x) /\ GetDirBlk(Dir(x)) = Endless) BY <1>7, AllIsRead
<1>10. PICK names : names = GetDirBlk(Dir(x)) OBVIOUS
<1>11. ReadAll(x, names) => ReadsSome(old, new, k, names) BY <1>6, Zenon DEF ReadAll, ReadsSome
<1>12. Grows(x) => k = 1 /\ GrowsShort(was, is, size) BY <1>2, <1>6, Zenon DEF Grows, GrowsShort
<1>13. ReadsOrGrows(old, new, was, is, size, k, names) BY <1>9, <1>10, <1>11, <1>12, Zenon DEF ReadsOrGrows
<1> QED BY <1>2, <1>8, <1>10, <1>13, Zenon

LEMMA SomeIsMixed ==
    ASSUME NEW old \in Seq(Nat), NEW new \in Seq(Nat), NEW k, NEW names, ReadsSome(old, new, k, names)
    PROVE  Mixed(names, old, new) /\ (k = 0 => names = new)
<1>1. PICK i \in 0..Len(old), j \in 0..Len(new) : /\ names = Both(old, i, new, j, Len(new))
                                                  /\ k = 0 => i = 0 /\ j = 0
  BY DEF ReadsSome
<1>2. Mixed(names, old, new) BY <1>1, BothMixed
<1>3. ASSUME k = 0 PROVE names = new
  <2>1. i = 0 /\ j = 0 BY <1>1, <1>3
  <2>2. SubSeq(old, 1, 0) = <<>> OBVIOUS
  <2>3. SubSeq(new, 1, Len(new)) = new BY SubSeqFull
  <2>4. <<>> \o new = new BY ConcatEmptySeq
  <2>5. 0 + 1 = 1 OBVIOUS
  <2>6. Both(old, 0, new, 0, Len(new)) = new BY <2>2, <2>3, <2>4, <2>5, Zenon DEF Both
  <2> QED BY <1>1, <2>1, <2>6
<1> QED BY <1>2, <1>3

LEMMA SaneParts ==
    ASSUME NEW old \in Seq(Nat), NEW new \in Seq(Nat), NEW size, Sane(size, old \o new)
    PROVE  Sane(size, old) /\ Sane(size, new)
<1>1. PICK c : c = old \o new OBVIOUS
<1>2. Joined(c, old, new)
  <2>1. Joined(old \o new, old, new) BY JoinedIs
  <2> QED BY <1>1, <2>1, Zenon
<1>3. Sane(size, c) BY <1>1, Zenon
<1>4. PICK l \in Nat, m \in Nat : l = Len(old) /\ m = Len(new) OBVIOUS
<1>5. c \in Seq(Nat) /\ Len(c) = l + m /\ \A k \in 1..l + m : c[k] = IF k <= l THEN old[k] ELSE new[k - l]
  BY <1>2, <1>4 DEF Joined
<1>6. DOMAIN c = 1..l + m /\ DOMAIN old = 1..l /\ DOMAIN new = 1..m BY <1>4, <1>5
<1>7. ASSUME NEW i \in 1..l PROVE Padded(Needs(old[i])) <= size
  <2>1. i \in 1..l + m /\ i <= l OBVIOUS
  <2>2. c[i] = old[i] BY <1>5, <2>1
  <2> QED BY <1>3, <1>6, <2>1, <2>2 DEF Sane
<1>8. ASSUME NEW i \in 1..m PROVE Padded(Needs(new[i])) <= size
  <2>1. PICK n \in 1..l + m : n = l + i /\ ~(n <= l) /\ n - l = i OBVIOUS
  <2>2. c[n] = new[i] BY <1>5, <2>1
  <2> QED BY <1>3, <1>6, <2>1, <2>2 DEF Sane
<1>9. size % 4 = 0 BY <1>3 DEF Sane
<1> QED BY <1>6, <1>7, <1>8, <1>9 DEF Sane

(* What a client has read, whatever the directory was and became.          *)
LEMMA ReadsIs ==
    ASSUME Reads
    PROVE  \E old, new \in Seq(Nat), size \in Nat, k \in Nat :
               /\ call'.old = old /\ call'.new = new /\ call'.k = k /\ call'.size = size
               /\ call'.over \in BOOLEAN
               /\ Sane(size, old \o new) => call'.over = FALSE
               /\ call'.over = FALSE =>
                     ReadsOrGrows(old, new, Build(old, size), Build(new, size), size, k, call'.names)
<1> DEFINE Result(old, new, size, k) ==
        LET was == Build(old, size)
            is == Build(new, size)
            dir == Changing(was.blocks, is.blocks, k, size)
        IN  [op |-> "get_dir_blk", old |-> old, new |-> new, k |-> k, size |-> size,
             over |-> is.over \/ was.over,
             names |-> IF is.over \/ was.over THEN <<>> ELSE GetDirBlk(dir)]
<1>1. PICK old \in SeqOf(Names, MaxNames), new \in SeqOf(Names, MaxNames), size \in PacketSizes, k \in 0..MaxNames + 2 :
          call' = Result(old, new, size, k)
  BY Zenon DEF Reads
<1>2. old \in Seq(Nat) /\ new \in Seq(Nat)
  <2>1. SeqOf(Names, MaxNames) \subseteq Seq(Nat)
    <3>1. \A m \in Nat : \A f \in [1..m -> Names] : f \in Seq(Nat)
      <4>1. Names \subseteq Nat BY PureAssumption
      <4>2. \A m \in Nat : \A f \in [1..m -> Names] : f \in [1..m -> Nat] BY <4>1
      <4> QED BY <4>2, SeqDef
    <3>2. \A m \in 0..MaxNames : m \in Nat BY PureAssumption
    <3> QED BY <3>1, <3>2 DEF SeqOf
  <2> QED BY <2>1
<1>3. size \in Nat /\ size >= RDHSIZE /\ k \in Nat BY PureAssumption
<1>4. PICK was, is : was = Build(old, size) /\ is = Build(new, size) OBVIOUS
<1>5. /\ was.over \in BOOLEAN /\ is.over \in BOOLEAN
      /\ Sane(size, old) => was.over = FALSE
      /\ Sane(size, new) => is.over = FALSE
  BY <1>2, <1>3, <1>4, BuildIs
<1> DEFINE over == is.over \/ was.over
           names == IF over THEN <<>> ELSE GetDirBlk(Changing(was.blocks, is.blocks, k, size))
<1>6. call' = [op |-> "get_dir_blk", old |-> old, new |-> new, k |-> k, size |-> size, over |-> over, names |-> names]
  BY <1>1, <1>4, Zenon
<1>7. over \in BOOLEAN /\ (over = FALSE <=> was.over = FALSE /\ is.over = FALSE) BY <1>5
<1>8. over = FALSE => ReadsOrGrows(old, new, was, is, size, k, names)
  <2>1. SUFFICES ASSUME over = FALSE PROVE ReadsOrGrows(old, new, was, is, size, k, names) OBVIOUS
  <2>2. was.over = FALSE /\ is.over = FALSE BY <1>7, <2>1
  <2>3. ReadsOrGrows(old, new, was, is, size, k, GetDirBlk(Changing(was.blocks, is.blocks, k, size)))
    BY <1>2, <1>3, <1>4, <2>2, ListingIsRead
  <2> HIDE DEF over
  <2> QED BY <2>1, <2>3, Zenon
<1>9. Sane(size, old \o new) => over = FALSE BY <1>2, <1>5, <1>7, SaneParts
<1> HIDE DEF over, names
<1>10. PICK o \in BOOLEAN : o = over BY <1>7, Zenon
<1>11. call' = [op |-> "get_dir_blk", old |-> old, new |-> new, k |-> k, size |-> size, over |-> o, names |-> names]
  BY <1>6, <1>10, Zenon
<1>12. /\ call'.old = old /\ call'.new = new /\ call'.k = k /\ call'.size = size
       /\ call'.over = o /\ call'.names = names
  BY <1>11
<1> QED BY <1>2, <1>3, <1>4, <1>8, <1>9, <1>10, <1>12, Zenon

(* A client reads from a listing the names in the directory, in order, and *)
(* no block is written beyond its end: build_dir_listing() and             *)
(* get_dir_blk().                                                          *)
THEOREM ListingsAreRead == Spec => []ListingRead
<1>1. Init => ListingRead BY DEF Init, ListingRead
<1>2. ListingRead /\ [Next]_call => ListingRead'
  <2> SUFFICES ASSUME ListingRead, [Next]_call PROVE ListingRead'
    OBVIOUS
  <2>1. CASE UNCHANGED call BY <2>1 DEF ListingRead
  <2>2. CASE Next /\ call'.op # "get_dir_blk" BY <2>2 DEF ListingRead
  <2>3. CASE Next /\ call'.op = "get_dir_blk"
    <3>1. Reads BY <2>3, OneCall
    <3>2. PICK old \in Seq(Nat), new \in Seq(Nat), size \in Nat, k \in Nat :
              /\ call'.old = old /\ call'.new = new /\ call'.k = k /\ call'.size = size
              /\ call'.over \in BOOLEAN
              /\ Sane(size, old \o new) => call'.over = FALSE
              /\ call'.over = FALSE =>
                    ReadsOrGrows(old, new, Build(old, size), Build(new, size), size, k, call'.names)
      BY <3>1, ReadsIs
    <3>3. ASSUME Sane(size, old \o new) PROVE ~call'.over /\ (k = 0 => call'.names = new)
      BY <3>2, <3>3, SomeIsMixed DEF ReadsOrGrows
    <3> QED BY <3>2, <3>3, Zenon DEF ListingRead
  <2> QED BY <2>1, <2>2, <2>3
<1> QED BY <1>1, <1>2, PTL DEF Spec

(* Read while it changes, after whatever number of replies, a directory    *)
(* shows names of the old listing and then names of the new one; or it was *)
(* shorter than a block and grew before the second request.                *)
THEOREM ListingsAreMixed == Spec => []ListingMixed
<1>1. Init => ListingMixed BY DEF Init, ListingMixed
<1>2. ListingMixed /\ [Next]_call => ListingMixed'
  <2> SUFFICES ASSUME ListingMixed, [Next]_call PROVE ListingMixed'
    OBVIOUS
  <2>1. CASE UNCHANGED call BY <2>1 DEF ListingMixed
  <2>2. CASE Next /\ call'.op # "get_dir_blk" BY <2>2 DEF ListingMixed
  <2>3. CASE Next /\ call'.op = "get_dir_blk"
    <3>1. Reads BY <2>3, OneCall
    <3>2. PICK old \in Seq(Nat), new \in Seq(Nat), size \in Nat, k \in Nat :
              /\ call'.old = old /\ call'.new = new /\ call'.k = k /\ call'.size = size
              /\ call'.over \in BOOLEAN
              /\ Sane(size, old \o new) => call'.over = FALSE
              /\ call'.over = FALSE =>
                    ReadsOrGrows(old, new, Build(old, size), Build(new, size), size, k, call'.names)
      BY <3>1, ReadsIs
    <3>3. ASSUME ~call'.over
          PROVE  \/ Mixed(call'.names, old, new)
                 \/ call'.names = Endless /\ k = 1 /\ GrowsShort(Build(old, size), Build(new, size), size)
      <4>1. PICK names : names = call'.names OBVIOUS
      <4>2. call'.over = FALSE BY <3>2, <3>3
      <4>3. ReadsOrGrows(old, new, Build(old, size), Build(new, size), size, k, names) BY <3>2, <4>1, <4>2
      <4>4. ReadsSome(old, new, k, names) => Mixed(names, old, new) BY SomeIsMixed
      <4> QED BY <4>1, <4>3, <4>4, Zenon DEF ReadsOrGrows
    <3> QED BY <3>2, <3>3, Zenon DEF ListingMixed, Mixed
  <2> QED BY <2>1, <2>2, <2>3
<1> QED BY <1>1, <1>2, PTL DEF Spec
=============================================================================
