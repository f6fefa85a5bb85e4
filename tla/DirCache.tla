------------------------------ MODULE DirCache ------------------------------
(***************************************************************************)
(* What the server knows of its directories: dirstatcache, the access      *)
(* rights of directories as validate_path() loads them; dirlistcache and   *)
(* the .FSP_CONTENT files, listings as server_get_dir() builds them; and   *)
(* the commands that read, change and overrule them, while others on the   *)
(* server's machine change the directories too.                            *)
(*                                                                         *)
(* The home directory and directories in it.  Times are in seconds, as the *)
(* server and the file system tell them.  Of the access rights the flag    *)
(* files are modelled, of the content of a directory its version.          *)
(***************************************************************************)
EXTENDS Integers, FiniteSets

CONSTANTS
    Subdirs,                \* names of directories in the home directory
    Home,                   \* the home directory
    Listed,                 \* directories whose content is asked for
    Flags,                  \* flag files of access rights, "DEL", "ADD", ...
    StatSize, ListSize,     \* sizes of the caches
    stat_cache_timeout,
    use_directory_mtime,
    use_prebuild_dirlists,
    MaxTime,                \* bound on the clock
    MaxVersion              \* bound on the changes of directories

NoPath == ""        \* of an empty slot

ASSUME DirCacheAssumption ==
    /\ Home \notin Subdirs /\ NoPath \notin Subdirs \cup {Home}
    /\ Listed \subseteq Subdirs \cup {Home}
    /\ StatSize \in Nat \ {0} /\ ListSize \in Nat \ {0}
    /\ stat_cache_timeout \in Nat \ {0}
    /\ use_directory_mtime \in BOOLEAN /\ use_prebuild_dirlists \in BOOLEAN
    /\ MaxTime \in Nat /\ MaxTime >= stat_cache_timeout
    /\ MaxVersion \in Nat \ {0}

VARIABLES
    now,         \* cur_time
    version,     \* changes so far
    disk,        \* the directory under each path
    stats,       \* dirstatcache
    lists        \* dirlistcache

vars == <<now, version, disk, stats, lists>>

Paths == {Home} \cup Subdirs
Times == 0..MaxTime
None == -1

(* A directory: its flag files, the version of its content, its mtime, its *)
(* .FSP_CONTENT.  History: by the path and version it was made with what   *)
(* it is; when its flag files, and when its content changed last.          *)
NoFile == [of |-> <<>>, version |-> 0, mtime |-> None]
Directory(p, v, rights, time) ==
    [of |-> <<p, v>>, rights |-> rights, version |-> v, mtime |-> time, file |-> NoFile,
     rightsAt |-> time, contentAt |-> time]
Gone == [Directory("", 0, {}, 0) EXCEPT !.of = <<>>]

(* A DIRINFO.  History: the directory it was loaded from; missed, what is  *)
(* at its path was changed since the last check, not through this entry;   *)
(* masked, it was then changed through it, or another directory taken for  *)
(* the one loaded.                                                         *)
Info(p, d, mtime) == [path |-> p, rights |-> d.rights, mtime |-> mtime, lastcheck |-> now,
                      of |-> d.of, missed |-> FALSE, masked |-> FALSE]
NoInfo == [path |-> NoPath, rights |-> {}, mtime |-> 0, lastcheck |-> 0,
           of |-> <<>>, missed |-> FALSE, masked |-> FALSE]

(* A DIRLISTING, or a .FSP_CONTENT: the version it shows, and when it was  *)
(* built; history as above.                                                *)
Listing(p, l) == [path |-> p, of |-> l.of, version |-> l.version, mtime |-> l.mtime]
NoListing == Listing(NoPath, NoFile)

EmptyCache(n, e) == [slots |-> [i \in 0..n - 1 |-> e], next |-> 0]

(* The clock has run for longer than the caches keep what they know. *)
Init ==
    /\ now = stat_cache_timeout
    /\ version = 1
    /\ \E P \in SUBSET Subdirs :
           disk = [p \in Paths |-> IF p \in P THEN Gone ELSE Directory(p, 1, {}, 0)]
    /\ stats = EmptyCache(StatSize, NoInfo)
    /\ lists = EmptyCache(ListSize, NoListing)
-----------------------------------------------------------------------------
(* The FIFO caches (see FifoCache). *)
Found(c, p) == LET I == {i \in DOMAIN c.slots : c.slots[i].path = p}
               IN  IF I = {} THEN None ELSE CHOOSE i \in I : \A j \in I : i <= j
Put_NoWrap(c, e) == [slots |-> [c.slots EXCEPT ![c.next] = e], next |-> c.next + 1]   \* faulty variant
Put(c, e) == [slots |-> [c.slots EXCEPT ![c.next] = e],
              next |-> (c.next + 1) % Cardinality(DOMAIN c.slots)]

(* What the history of the entries says after a step to directories d; i   *)
(* is the entry the directory was changed through.                         *)
Noted(c, d, i) ==
    [c EXCEPT !.slots = [k \in DOMAIN c.slots |->
        LET e == c.slots[k]
        IN  IF e.path = NoPath \/ k = i THEN e
            ELSE [e EXCEPT !.missed = @ \/ d[e.path] # disk[e.path]]]]

(* A step from the caches s and l to directories d. *)
Becomes(s, l, d, i) ==
    /\ disk' = d
    /\ stats' = Noted(s, d, i)
    /\ lists' = l
    /\ UNCHANGED now

(* A directory with another content. *)
Changed(d) == [d EXCEPT !.version = version + 1, !.mtime = now, !.contentAt = now]
-----------------------------------------------------------------------------
(* validate_path() *)

Fresh(e) == e.lastcheck + stat_cache_timeout > now

(* di->lastcheck = cur_time, of an entry that has the directory's mtime. *)
Confirmed(e) == [e EXCEPT !.lastcheck = now, !.missed = FALSE, !.masked = @ \/ e.of # disk[e.path].of]

(* Faulty variant: an entry that has become stale is good enough. *)
Validated_NoRecheck(c, p) ==
    LET i == Found(c, p)
    IN  IF i # None THEN [at |-> i, cache |-> c]
        ELSE IF disk[p] = Gone THEN [at |-> None, cache |-> c]
        ELSE [at |-> c.next, cache |-> Put(c, Info(p, disk[p], disk[p].mtime))]

(* The cache c after validate_path(), and the slot *di points to: a fresh  *)
(* entry; an error; an entry whose mtime is that of the directory; another *)
(* one, loaded.                                                            *)
Validated(c, p) ==
    LET i == Found(c, p)
        cleared == IF i = None THEN c ELSE [c EXCEPT !.slots[i] = NoInfo]
    IN  IF i # None /\ Fresh(c.slots[i]) THEN [at |-> i, cache |-> c]
        ELSE IF disk[p] = Gone THEN [at |-> None, cache |-> c]
        ELSE IF i # None /\ use_directory_mtime /\ c.slots[i].mtime = disk[p].mtime
             THEN [at |-> i, cache |-> [c EXCEPT !.slots[i] = Confirmed(@)]]
        ELSE [at |-> c.next,
              cache |-> Put(cleared, Info(p, disk[p], IF use_directory_mtime THEN disk[p].mtime ELSE now))]

(* The right f, when f is one of the modelled. *)
Allows(e, f) == f \in Flags => f \in e.rights

(* di->mtime = di->lastcheck = cur_time *)
Altered(e) == [e EXCEPT !.mtime = now, !.lastcheck = now,
                        !.masked = @ \/ e.missed \/ disk[e.path] = Gone
                                     \/ disk[e.path].rights # e.rights]
Touched(c, i) == [c EXCEPT !.slots[i] = Altered(@)]
-----------------------------------------------------------------------------
(* CC_GET_PRO: the rights are looked at. *)
GetPro(p) ==
    /\ Becomes(Validated(stats, p).cache, lists, disk, None)
    /\ UNCHANGED version

(* CC_STAT: what is not there is not validated. *)
Stat(p) ==
    /\ disk[p] # Gone
    /\ Becomes(Validated(stats, p).cache, lists, disk, None)
    /\ UNCHANGED version

(* Faulty variant: only the age of the entry is looked at. *)
Expired_ByCheck(l, di) == l.mtime < di.lastcheck - stat_cache_timeout

Expired(l, di) == l.mtime < di.mtime

(* A new file in the directory changes its mtime. *)
Written(d, l) == [d EXCEPT !.file = l, !.mtime = IF d.file = NoFile THEN now ELSE @]

(* CC_GET_DIR: server_get_dir(). *)
GetDir(p) ==
    LET v == Validated(stats, p)
        di == v.cache.slots[v.at]
        d == disk[p]
        k == Found(lists, p)
        expired == k # None /\ Expired(lists.slots[k], di)
        cleared == IF expired THEN [lists EXCEPT !.slots[k] = NoListing] ELSE lists
        prebuilt == use_prebuild_dirlists /\ d # Gone /\ d.file # NoFile /\ ~Expired(d.file, di)
        built == [of |-> d.of, version |-> d.version, mtime |-> now]
        written == IF use_prebuild_dirlists THEN [disk EXCEPT ![p] = Written(@, built)] ELSE disk
    IN  /\ v.at # None /\ Allows(di, "LIST")
        /\ IF k # None /\ ~expired THEN Becomes(v.cache, lists, disk, None)         \* hit
           ELSE IF d = Gone THEN Becomes(v.cache, cleared, disk, None)              \* "can't list"
           ELSE IF prebuilt THEN Becomes(v.cache, Put(cleared, Listing(p, d.file)), disk, None)
           ELSE Becomes(v.cache, Put(cleared, Listing(p, built)), written, None)
        /\ UNCHANGED version

(* CC_INSTALL, CC_DEL_FILE, CC_GRAB_FILE: a file of the directory appears  *)
(* or goes, and the entry takes the time of it.                            *)
Alter(p) ==
    LET v == Validated(stats, p)
    IN  /\ v.at # None /\ disk[p] # Gone /\ version < MaxVersion
        /\ Becomes(Touched(v.cache, v.at), lists, [disk EXCEPT ![p] = Changed(@)], v.at)
        /\ version' = version + 1
-----------------------------------------------------------------------------
(* save_access_rights(): the flag files are unlinked and created anew.     *)
(* They are part of the directory, but not of its listing.                 *)
Saved(d, rights) ==
    [d EXCEPT !.rights = rights, !.file = NoFile,
              !.rightsAt = IF d.rights = rights THEN @ ELSE now,
              !.mtime = IF d.rights = {} /\ rights = {} /\ d.file = NoFile THEN @ ELSE now]

(* CC_SET_PRO: server_set_pro().  When the directory is gone chdir() fails *)
(* and the rights are saved where the server is, in the home directory.    *)
SetPro(p, f, on) ==
    LET v == Validated(stats, p)
        rights == IF on THEN v.cache.slots[v.at].rights \cup {f} ELSE v.cache.slots[v.at].rights \ {f}
        target == IF disk[p] = Gone THEN Home ELSE p
    IN  /\ v.at # None
        /\ Becomes([Touched(v.cache, v.at) EXCEPT !.slots[v.at].rights = rights], lists,
                   [disk EXCEPT ![target] = Saved(@, rights)], v.at)
        /\ UNCHANGED version

(* CC_MAKE_DIR: server_make_dir() copies the rights of the home directory  *)
(* as they are cached, whose own entry does not learn of the change.       *)
MakeDir(p) ==
    LET v == Validated(stats, Home)
        di == v.cache.slots[v.at]
        made == Saved(Directory(p, version + 1, {}, now), di.rights)
    IN  /\ v.at # None /\ Allows(di, "MKDIR") /\ disk[p] = Gone /\ version < MaxVersion
        /\ Becomes(Put(v.cache, Info(p, made, now)), lists,
                   [disk EXCEPT ![p] = made, ![Home] = Changed(@)], v.cache.next)
        /\ version' = version + 1

(* CC_DEL_DIR: server_del_dir() removes the flag files; if the directory   *)
(* cannot be removed it puts those there that the entry has.               *)
DelDir(p, empty) ==
    LET v == Validated(stats, p)
        di == v.cache.slots[v.at]
        stripped == Saved(disk[p], {})
    IN  /\ v.at # None /\ Allows(di, "DEL") /\ disk[p] # Gone /\ version < MaxVersion
        /\ IF empty
           THEN Becomes([v.cache EXCEPT !.slots[v.at].lastcheck = 0], lists,
                        [disk EXCEPT ![p] = Gone, ![Home] = Changed(@)], None)
           ELSE Becomes(v.cache, lists, [disk EXCEPT ![p] = Saved(stripped, di.rights)], None)
        /\ version' = version + 1

(* CC_RENAME of a directory: both paths are in the home directory.  The    *)
(* entries of the two names do not learn of it.                            *)
RenameDir(p, q) ==
    LET v == Validated(stats, Home)
    IN  /\ v.at # None /\ Allows(v.cache.slots[v.at], "RENAME")
        /\ disk[p] # Gone /\ disk[q] = Gone /\ version < MaxVersion
        /\ Becomes(Touched(v.cache, v.at), lists,
                   [disk EXCEPT ![q] = disk[p], ![p] = Gone, ![Home] = Changed(@)], v.at)
        /\ version' = version + 1

(* CC_RENAME of a file, from directory p to q.  di of the source is kept   *)
(* while the target is validated, which may put another entry in its slot; *)
(* the two are then compared as pointers, and one is the other.            *)
RenameFile(p, q) ==
    LET v == Validated(stats, p)
        w == Validated(v.cache, q)
    IN  /\ v.at # None /\ Allows(v.cache.slots[v.at], "RENAME") /\ version < MaxVersion
        /\ IF w.at = v.at /\ disk[p] # Gone /\ disk[q] # Gone
           THEN /\ Becomes(Touched(w.cache, w.at), lists,
                           [disk EXCEPT ![p] = Changed(@), ![q] = Changed(@)], w.at)
                /\ version' = version + 1
           ELSE /\ Becomes(w.cache, lists, disk, None)        \* "Cross-directory renames ..."
                /\ UNCHANGED version
-----------------------------------------------------------------------------
Flagged(d, rights) == [Changed(d) EXCEPT !.rights = rights,
                                         !.rightsAt = IF d.rights = rights THEN @ ELSE now]

(* Others change a directory: its content, its flag files; remove or make  *)
(* one.                                                                    *)
Outside(p) ==
    /\ version < MaxVersion
    /\ version' = version + 1
    /\ \/ /\ disk[p] # Gone
          /\ \E rights \in SUBSET Flags :
               Becomes(stats, lists, [disk EXCEPT ![p] = Flagged(@, rights)], None)
       \/ /\ p # Home
          /\ Becomes(stats, lists,
                     [disk EXCEPT ![p] = IF @ = Gone THEN Directory(p, version + 1, {}, now) ELSE Gone,
                                  ![Home] = Changed(@)], None)

(* A second passes. *)
Tick == /\ now < MaxTime
        /\ now' = now + 1
        /\ UNCHANGED <<version, disk, stats, lists>>

(* The server is started anew: the caches are empty, the files stay. *)
Restart == /\ Becomes(EmptyCache(StatSize, NoInfo), EmptyCache(ListSize, NoListing), disk, None)
           /\ UNCHANGED version

Next == \/ \E p \in Paths : \/ GetPro(p) \/ Stat(p) \/ Alter(p) \/ Outside(p)
                            \/ \E f \in Flags, on \in BOOLEAN : SetPro(p, f, on)
        \/ \E p \in Listed : GetDir(p)
        \/ \E p \in Paths : \E q \in Paths \ {p} : RenameFile(p, q)
        \/ \E p \in Subdirs : \/ MakeDir(p)
                              \/ \E empty \in BOOLEAN : DelDir(p, empty)
                              \/ \E q \in Subdirs : RenameDir(p, q)
        \/ Tick \/ Restart

Spec == Init /\ [][Next]_vars
-----------------------------------------------------------------------------
TypeOK ==
    /\ now \in Times /\ version \in 1..MaxVersion
    /\ \A p \in Paths : /\ disk[p].rights \subseteq Flags
                        /\ disk[p].version \in 0..version
                        /\ disk[p].mtime \in Times /\ disk[p].mtime <= now
                        /\ disk[p].file.mtime \in Times \cup {None}
    /\ \A i \in 0..StatSize - 1 : LET e == stats.slots[i]
                                  IN  /\ e.path \in Paths \cup {NoPath} /\ e.rights \subseteq Flags
                                      /\ e.mtime \in 0..now /\ e.lastcheck \in 0..now
    /\ \A i \in 0..ListSize - 1 : /\ lists.slots[i].path \in Paths \cup {NoPath}
                                  /\ lists.slots[i].version \in 0..version
    /\ stats.next \in 0..StatSize - 1 /\ lists.next \in 0..ListSize - 1

(* Commands are judged by the rights the directory has, or had at the last *)
(* check, less than stat_cache_timeout ago.  There are two exceptions: the *)
(* rights changed last in the second of the mtime by which the entry is    *)
(* known; the entry is masked: a change through it followed one it missed, *)
(* or another directory of the same mtime was taken for the one loaded.    *)
RightsKnown ==
    \A p \in Paths :
        LET v == Validated(stats, p)
            e == v.cache.slots[v.at]
        IN  v.at # None => \/ /\ disk[p] # Gone
                              /\ e.rights = disk[p].rights \/ e.mtime = disk[p].rightsAt
                           \/ e.missed /\ Fresh(e)
                           \/ e.masked

(* A cached listing that is handed out shows what is in the directory, or  *)
(* was at the last check; but for a change in the second in which it was   *)
(* built, for a masked entry, and for another directory in the place of    *)
(* the one listed.                                                         *)
ListingKnown ==
    \A p \in Listed :
        LET v == Validated(stats, p)
            e == v.cache.slots[v.at]
            k == Found(lists, p)
            l == lists.slots[k]
        IN  v.at # None /\ k # None /\ ~Expired(l, e) =>
                \/ /\ disk[p] # Gone
                   /\ l.of = disk[p].of => l.version = disk[p].version \/ l.mtime = disk[p].contentAt
                \/ e.missed /\ Fresh(e)
                \/ e.masked

(* Not so: a file is not renamed into another directory.  server_rename()  *)
(* answers "Cross-directory renames are not implemented yet."; a client    *)
(* needs no right to create files in the target.                           *)
NoCrossRename == [][\A p \in Paths : \A q \in Paths \ {p} :
                        RenameFile(p, q) => UNCHANGED version]_vars
=============================================================================
