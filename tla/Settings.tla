------------------------------ MODULE Settings ------------------------------
(***************************************************************************)
(* How the settings of the server come about: load_configuration(), the    *)
(* command line, check_required_vars() and init_home_dir().                *)
(*                                                                         *)
(* A line of a file is a command and its argument, as a text, a number or  *)
(* words; a file is a sequence of lines, an option is like a line.  Of     *)
(* settings that are only stored, tmpdir and homedir stand for all texts,  *)
(* read_only for all booleans.                                             *)
(***************************************************************************)
EXTENDS Integers, Sequences

MAXSPACE == 4380
DEFAULT_SPACE == 1452
Unset == "unset"

Defaults ==
    [session_timeout |-> 60, retry_timeout |-> 3, stat_cache_timeout |-> 25,
     fp_cache_limit |-> 20, dir_cache_limit |-> 100, stat_cache_limit |-> 30,
     packetsize |-> DEFAULT_SPACE, maxthcallowed |-> 0, logging |-> {},
     home_dir |-> Unset, tmp_dir |-> Unset, read_only |-> FALSE, logname |-> Unset,
     daemonize |-> TRUE, dbug |-> FALSE, inetd_mode |-> FALSE, exit |-> 0]
-----------------------------------------------------------------------------
(* conf.c *)

Flags == {"errors", "getfile", "install", "readonly"}
FlagsOf(name) == IF name = "transfers" THEN {"getfile", "install"} ELSE {name} \cap Flags

(* The words after "log": "!word" is <<"!", word>>; "none" ends the line.  *)
Worded(logging, w) == IF w = <<"all">> THEN Flags
                      ELSE IF w[1] = "!" THEN logging \ FlagsOf(w[2]) ELSE logging \cup FlagsOf(w[1])
Logged(logging, words) ==
    LET logged[n \in 0..Len(words)] == IF n = 0 THEN logging ELSE Worded(logged[n - 1], words[n])
    IN  IF \E i \in DOMAIN words : words[i] = <<"none">> THEN {} ELSE logged[Len(words)]

(* A number that is too small is replaced. *)
AtLeast(n, least, otherwise) == IF n < least THEN otherwise ELSE n

Booleans == {"yes", "no"}

(* One command of a file, whose argument is well formed; "conf" and        *)
(* unknown ones change nothing here.                                       *)
Obeyed(c, line) ==
    LET n == line.number
        text == line.text
    IN  CASE line.command = "homedir" -> [c EXCEPT !.home_dir = text]
          [] line.command = "tmpdir" -> [c EXCEPT !.tmp_dir = text]
          [] line.command = "logfile" -> [c EXCEPT !.logname = text]
          [] line.command = "log" -> [c EXCEPT !.logging = Logged(@, line.words)]
          [] line.command = "packetsize" -> [c EXCEPT !.packetsize = n % 65536]
          [] line.command = "thruput" -> [c EXCEPT !.maxthcallowed = n]
          [] line.command = "filecache" -> [c EXCEPT !.fp_cache_limit = AtLeast(n, 10, 10)]
          [] line.command = "dircache" -> [c EXCEPT !.dir_cache_limit = AtLeast(n, 16, 100)]
          [] line.command = "statcache" -> [c EXCEPT !.stat_cache_limit = AtLeast(n, 10, 30)]
          [] line.command = "retry" -> [c EXCEPT !.retry_timeout = AtLeast(n, 1, 3)]
          [] line.command = "timeout" -> [c EXCEPT !.session_timeout = AtLeast(n, 7, 60)]
          [] line.command = "statcache_timeout" ->
                 [c EXCEPT !.session_timeout = n, !.stat_cache_timeout = AtLeast(@, 1, 20)]
          [] line.command = "read_only" -> [c EXCEPT !.read_only = (text = "yes")]
          [] line.command = "daemonize" -> [c EXCEPT !.daemonize = (text = "yes")]
          [] line.command = "debug" -> [c EXCEPT !.dbug = (text = "yes")]
          [] OTHER -> c

(* The program ends at a line without an argument, or with a bogus boolean. *)
Bogus(line) ==
    \/ line.text = Unset
    \/ line.command \in {"read_only", "daemonize", "debug"} /\ line.text \notin Booleans
Configured(c, line) ==
    IF c.exit # 0 THEN c ELSE IF Bogus(line) THEN [c EXCEPT !.exit = 1] ELSE Obeyed(c, line)

(* The lines read: the rest of a file is not read after a "conf", which    *)
(* names another; in that one a "conf" is skipped.                         *)
LinesRead(file, Files) ==
    LET conf == {i \in DOMAIN file : file[i].command = "conf"}
        first == CHOOSE i \in conf : \A j \in conf : i <= j
    IN  IF conf = {} \/ file[first].text = Unset THEN file
        ELSE SubSeq(file, 1, first - 1) \o Files[file[first].text]

(* read_configuration(): line by line. *)
LoadConfiguration(c, file, Files) ==
    LET lines == LinesRead(file, Files)
        loaded[n \in 0..Len(lines)] == IF n = 0 THEN c ELSE Configured(loaded[n - 1], lines[n])
    IN  loaded[Len(lines)]
-----------------------------------------------------------------------------
(* main.c *)

(* An option of the command line; they come after the files. *)
Optioned(c, o) ==
    CASE o.command = "d" -> [c EXCEPT !.home_dir = o.text]
      [] o.command = "T" -> [c EXCEPT !.tmp_dir = o.text]
      [] o.command = "s" -> [c EXCEPT !.packetsize = o.number % 65536]
      [] o.command = "b" -> [c EXCEPT !.maxthcallowed = o.number]
      [] o.command = "l" -> [c EXCEPT !.logname = o.text, !.logging = Flags \ {"readonly"}]
      [] o.command = "X" -> [c EXCEPT !.dbug = TRUE]
      [] o.command = "F" -> [c EXCEPT !.daemonize = FALSE]
      [] o.command = "i" -> [c EXCEPT !.inetd_mode = TRUE]
Commanded(c, options) ==
    LET asked[n \in 0..Len(options)] == IF n = 0 THEN c ELSE Optioned(asked[n - 1], options[n])
    IN  asked[Len(options)]

PacketSize(n) == IF n > MAXSPACE THEN MAXSPACE
                 ELSE IF n = 0 THEN DEFAULT_SPACE
                 ELSE IF n < 64 THEN 64 ELSE n

(* check_required_vars() *)
Checked(c) ==
    IF c.home_dir = Unset THEN [c EXCEPT !.exit = 1]
    ELSE LET packets == PacketSize(c.packetsize)
             single == c.inetd_mode /\ c.dbug
         IN  [c EXCEPT !.packetsize = packets,
                       !.logging = IF c.logname = Unset THEN {} ELSE @,
                       !.daemonize = @ /\ ~c.dbug,
                       !.dbug = @ /\ ~single,
                       !.read_only = @ \/ c.tmp_dir = Unset]

(* Faulty variant: a tmpdir that cannot be used is forgotten. *)
Homed_Writable(c, usable) == IF c.tmp_dir = Unset \/ c.tmp_dir \in usable THEN c ELSE [c EXCEPT !.tmp_dir = Unset]

(* init_home_dir(): directories must be there; without the one for         *)
(* uploads nothing is written.                                             *)
Homed(c, usable) ==
    IF c.home_dir \notin usable THEN [c EXCEPT !.exit = 6]
    ELSE IF c.tmp_dir = Unset \/ c.tmp_dir \in usable THEN c
    ELSE [c EXCEPT !.tmp_dir = Unset, !.read_only = TRUE]

(* What main() goes on with, or ends with. *)
Started(file, options, usable, Files) ==
    LET loaded == LoadConfiguration(Defaults, file, Files)
        asked == IF loaded.exit # 0 THEN loaded ELSE Commanded(loaded, options)
        checked == IF asked.exit # 0 THEN asked ELSE Checked(asked)
    IN  IF checked.exit # 0 THEN checked ELSE Homed(checked, usable)
=============================================================================
