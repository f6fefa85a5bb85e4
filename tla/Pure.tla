-------------------------------- MODULE Pure --------------------------------
(***************************************************************************)
(* Calls of the functions of Path, Access, Listing and Settings, one at a  *)
(* time with inputs from small sets, and what their results must be.  The  *)
(* inputs are those the callers can pass.                                  *)
(***************************************************************************)
EXTENDS Path, Access, Listing, Settings

CONSTANTS
    MaxArg, MaxText,    \* bounds on the lengths of arguments and of paths
    Names,              \* lengths of file names
    MaxNames,           \* bound on the files of a directory
    PacketSizes         \* settings of packetsize

(* packetsize is at least 64, see StartsSane; the header of an entry is shorter. *)
ASSUME PureAssumption ==
    /\ MaxArg \in Nat \ {0} /\ MaxText \in Nat /\ MaxNames \in Nat
    /\ Names \subseteq Nat
    /\ PacketSizes \subseteq {size \in Nat : size >= RDHSIZE}

VARIABLE call           \* the last call and its result

Strings(chars, n) == UNION {[1..k -> chars] : k \in 0..n}

Init == call = [op |-> "none"]

(* A client makes the path of a request. *)
MakesPath ==
    \E env_dir \in Strings({"/", ".", "a"}, MaxArg - 1), s2 \in Strings({"/", ".", "b"}, MaxArg),
       env_passwd \in {<<>>, <<"p">>} :
        call' = [op |-> "abs_path", env_dir |-> env_dir, s2 |-> s2, env_passwd |-> env_passwd,
                 path |-> AbsPath(env_dir, s2, env_passwd)]

(* The server is sent a path, by whatever client. *)
GetsPath ==
    \E str \in Strings({"/", ".", "\\", "a", NL}, MaxText) \cup {<<"a", CTL>>, <<TOP>>} :
        call' = [op |-> "parse_path", str |-> str, pp |-> ParsePath(str)]

(* A table of addresses of one numerical line is made, and an address is   *)
(* looked up.                                                              *)
Fields == {<<>>, <<-1>>, <<0>>, <<1>>, <<0, 1>>, <<1, 0>>}
LooksUp ==
    \E n \in 1..3, type \in {NoType, "O"} : \E fields \in [1..n -> Fields], ip \in Address :
        LET line == [named |-> FALSE, fields |-> fields, type |-> type]
        IN  call' = [op |-> "check_ip_table", fields |-> fields, ip |-> ip, type |-> type,
                     answer |-> CheckTable(ip, Table(<<line>>, TRUE))]

(* Somebody asks for rights in a directory. *)
Passwords == {None, "owner's", "public", "wrong"}
DirInfos == [owner_password : {None, "owner's"}, public_password : {None, "public"},
             protection : SUBSET {"GET", "DEL"}]
Asks ==
    \E di \in DirInfos, rights \in SUBSET {"GET", "OWNER"}, acc \in {NoType, "I", "D", "O", "N"},
       passwd \in Passwords, permit \in BOOLEAN :
        call' = [op |-> "require_access_rights", di |-> di, rights |-> rights, acc |-> acc,
                 passwd |-> passwd, permit |-> permit,
                 answer |-> RequireRights(di, rights, acc, passwd, permit)]

(* A client reads a directory, whose listing is another one after k of its *)
(* requests, any number of them.                                           *)
Reads ==
    \E old, new \in SeqOf(Names, MaxNames), size \in PacketSizes, k \in 0..MaxNames + 2 :
        LET was == Build(old, size)
            is == Build(new, size)
            dir == Changing(was.blocks, is.blocks, k, size)
        IN  call' = [op |-> "get_dir_blk", old |-> old, new |-> new, k |-> k, size |-> size,
                     over |-> is.over \/ was.over,
                     names |-> IF is.over \/ was.over THEN <<>> ELSE GetDirBlk(dir)]

(* The server is started, with a file that may name another, and an option *)
(* or none.                                                                *)
Text(command, text) == [command |-> command, text |-> text, number |-> 0, words |-> <<>>]
Number(command, n) == [command |-> command, text |-> "-", number |-> n, words |-> <<>>]
Log(words) == [command |-> "log", text |-> "-", number |-> 0, words |-> words]
Lines == {Text("homedir", "home"), Text("homedir", Unset), Text("tmpdir", "tmp"),
          Text("read_only", "yes"), Text("read_only", "no"), Text("read_only", "maybe"),
          Text("conf", "other"), Text("logfile", "log"), Text("debug", "yes"), Text("daemonize", "no"),
          Log(<< <<"all">>, <<"!", "transfers">> >>), Log(<< <<"errors">>, <<"none">>, <<"getfile">> >>),
          Number("statcache_timeout", 0)}
         \cup {Number(c, n) : c \in {"packetsize", "retry", "timeout", "statcache", "dircache", "filecache"},
                             n \in {0, 5, 100}}
Other == <<Text("homedir", "home"), Text("conf", "other"), Text("tmpdir", "tmp"), Number("thruput", 0)>>
Options == {Text("d", "home"), Text("T", "tmp"), Number("s", 63), Number("s", 65536 + 5000), Text("l", "log"),
            Text("X", "-"), Text("F", "-"), Text("i", "-"), Number("b", 1)}
Starts ==
    \E file \in SeqOf(Lines, 2), options \in SeqOf(Options, 1), usable \in SUBSET {"home", "tmp"} :
        call' = [op |-> "main", file |-> file, options |-> options, usable |-> usable,
                 set |-> Started(file, options, usable, [other |-> Other])]

Next == call.op = "none" /\ (MakesPath \/ GetsPath \/ LooksUp \/ Asks \/ Reads \/ Starts)

Spec == Init /\ [][Next]_call
-----------------------------------------------------------------------------
HasHidden(cs) == \E i \in DOMAIN cs : cs[i][1] \in {".", "\\"}

(* The path a client makes is the one meant, "." and ".." done away with,  *)
(* and the server finds in it that directory, or its directory and file,   *)
(* and the password.  Two exceptions: a name that begins with a dot is     *)
(* refused by the server, and a path that ends with a slash is sent        *)
(* without the password.                                                   *)
PathMeant ==
    call.op = "abs_path" =>
        LET merged == Merged(call.env_dir, call.s2)
            meant == Resolved(merged)
            pp == ParsePath(Tail(call.path))
        IN  /\ pp.refused <=> HasHidden(meant)
            /\ pp.refused \/ meant = <<>> \/
                  /\ Components(Work(pp)) = meant
                  /\ pp.file = Last(meant)
                  /\ Len(meant) > 1 => Components(pp.dir) = Front(meant)
            /\ pp.refused \/ pp.passwd = call.env_passwd \/ Last(merged) = "/"

(* Whatever path is sent, the server takes none with a component that      *)
(* begins with a dot or backslash, and looks at the rights of the          *)
(* directory that is named; but when a client sends two slashes, with      *)
(* which it looks at another one.                                          *)
PathGuarded ==
    call.op = "parse_path" /\ ~call.pp.refused =>
        LET pp == call.pp
        IN  /\ ~HasHidden(Components(Junked(call.str)))
            /\ Components(pp.fullp) = Components(Junked(call.str)) \/ pp.fullp = <<".">>
            /\ \/ Components(Work(pp)) = Components(pp.fullp)
               \/ \E i \in 1..Len(pp.fullp) - 1 : pp.fullp[i] = "/" /\ pp.fullp[i + 1] = "/"

(* An address is found in a table when it is one of those the line         *)
(* denotes: every octet one of its field, or the field not given.          *)
InField(n, f) == f = <<>> \/ (Len(f) = 1 /\ n = f[1]) \/ (Len(f) = 2 /\ f[1] <= n /\ n <= f[2])
AddressFound ==
    call.op = "check_ip_table" =>
        (call.answer = "O" <=> /\ call.type = "O"
                               /\ \A i \in DOMAIN call.fields : call.fields[i] # <<-1>>
                               /\ \A i \in DOMAIN call.fields : InField(call.ip[i], call.fields[i]))

(* The rights of an owner are for those who are in the table as one and    *)
(* know the password, or are not asked one; a host that is shut out stays  *)
(* out with any password; and neither does a wrong password give what none *)
(* does not, nor does it harm to be in the table as an owner.              *)
Granted(answer) == answer \in {"O", "N"}
Granting(di, rights, acc, passwd, permit) == Granted(RequireRights(di, rights, acc, passwd, permit))
RightsProved ==
    call.op = "require_access_rights" /\ Granted(call.answer) =>
        LET di == call.di
            rights == call.rights
        IN  /\ "OWNER" \in rights =>
                   /\ call.acc = "O"
                   /\ call.passwd = di.owner_password \/ (call.permit /\ di.owner_password = None)
            /\ call.acc \notin {"I", "D"}
            /\ call.passwd = "wrong" => Granting(di, rights, call.acc, None, call.permit)
            /\ call.acc = "N" => Granting(di, rights, "O", call.passwd, call.permit)

(* A client reads from a listing the names in the directory, in order, and *)
(* no block is written beyond its end, for a packetsize that is a multiple *)
(* of four and has room for every name.                                    *)
Sane(size, names) == size % 4 = 0 /\ \A i \in DOMAIN names : Padded(Needs(names[i])) <= size
ListingRead ==
    call.op = "get_dir_blk" /\ Sane(call.size, call.old \o call.new) =>
        /\ ~call.over
        /\ call.k = 0 => call.names = call.new

(* When the listing is made anew in between, whatever the number of        *)
(* replies it comes after, reading it ends, with names of the old listing  *)
(* and then names of the new.  One exception: a listing shorter than a     *)
(* block that grows between the first reply and the second request, which  *)
(* asks at a position that is no multiple of a block; the error that       *)
(* answers it is thrown away, and the request repeated.                    *)
GrowsShort(old, new, size) == Total(old.blocks) < size /\ Total(old.blocks) < Total(new.blocks)
ListingMixed ==
    call.op = "get_dir_blk" /\ ~call.over =>
        \/ /\ call.names = Endless
           /\ call.k = 1 /\ GrowsShort(Build(call.old, call.size), Build(call.new, call.size), call.size)
        \/ \E i \in 0..Len(call.names) : /\ IsPrefix(SubSeq(call.names, 1, i), call.old)
                                         /\ IsSuffix(SubSeq(call.names, i + 1, Len(call.names)), call.new)

(* A server that starts has settings it can work with, whatever the files, *)
(* the command line and the file system: one that takes uploads has a      *)
(* directory to put them in, and numbers that were too small are replaced. *)
(* One exception: statcache_timeout sets the timeout of sessions, and to   *)
(* anything.                                                               *)
StartsSane ==
    call.op = "main" /\ call.set.exit = 0 =>
        /\ ~call.set.read_only => call.set.tmp_dir \in call.usable
        /\ call.set.packetsize \in 64..MAXSPACE
        /\ call.set.fp_cache_limit >= 10 /\ call.set.dir_cache_limit >= 16 /\ call.set.stat_cache_limit >= 10
        /\ call.set.retry_timeout >= 1 /\ call.set.stat_cache_timeout >= 1
        /\ \/ call.set.session_timeout >= 7
           \/ \E i \in DOMAIN call.file : call.file[i].command = "statcache_timeout"
        /\ ~(call.set.dbug /\ (call.set.daemonize \/ call.set.inetd_mode))
=============================================================================
