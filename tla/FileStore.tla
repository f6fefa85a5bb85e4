----------------------------- MODULE FileStore -----------------------------
(***************************************************************************)
(* The file commands of server/file.c over the file system and the cache   *)
(* of open files.  A command is an operator from the server's state to the *)
(* set of its possible results: the server does nothing else meanwhile.    *)
(*                                                                         *)
(* The state is a record:                                                  *)
(*   dir      the file each path is linked to                              *)
(*   data     the blocks of each file, those an open FILE buffers excluded *)
(*   slots, next   fpcache                                                 *)
(*   deleters users with DIR_DEL in the directory of the name, or owners   *)
(*   damaged  a FILE was used or closed after it had been closed           *)
(*                                                                         *)
(* One published name (Target) and, for each user, that is each host and   *)
(* port, the temporary files .T and .G.  A file is a sequence of blocks, a *)
(* block what one packet carries; positions count blocks.                  *)
(***************************************************************************)
EXTENDS Integers, Sequences, FiniteSets

CONSTANTS
    Users, NoUser,
    Size,       \* fp_cache_limit
    Buffer      \* blocks that the buffer of a FILE holds

ASSUME FileStoreAssumption ==
    /\ NoUser \notin Users
    /\ IsFiniteSet(Users)
    /\ Size \in Nat \ {0}
    /\ Buffer \in Nat \ {0}

Slots == 0..Size - 1
Target == <<"F", NoUser>>
Temp(u) == <<"T", u>>       \* .T<host><port>
Grabbed(u) == <<"G", u>>    \* .G<host><port>
Paths == {Target} \cup ({"T", "G"} \X Users)
NoFile == 0
Files == 1..1 + 2 * Cardinality(Users) + Size

(* An entry of fpcache: its path and user as one key, the file, and the    *)
(* FILE: where it stands on disk, the blocks written and not yet flushed,  *)
(* and whether it is open.                                                 *)
Empty == [key |-> <<"", NoUser>>, file |-> NoFile, at |-> 0, pend |-> <<>>, open |-> FALSE]
Opened(k, f, pos) == [key |-> k, file |-> f, at |-> pos, pend |-> <<>>, open |-> TRUE]

Result(s, kind, block) == [srv |-> s, reply |-> [kind |-> kind, block |-> block]]
Ok(s) == Result(s, "ok", <<>>)
Error(s) == Result(s, "error", <<>>)
-----------------------------------------------------------------------------
(* The file system. *)

Unused(s) == Files \ ({s.dir[p] : p \in Paths} \cup {s.slots[i].file : i \in Slots})
Exists(s, p) == s.dir[p] # NoFile
Unlink(s, p) == [s EXCEPT !.dir[p] = NoFile]

(* The file fopen(p, "wb") writes: a new one, or the old one cut to nothing. *)
Written(s, p) == IF Exists(s, p) THEN s.dir[p]
                 ELSE CHOOSE f \in Unused(s) : \A g \in Unused(s) : f <= g
Write(s, p, blocks) == [s EXCEPT !.dir[p] = Written(s, p), !.data[Written(s, p)] = blocks]

(* A file neither linked nor open is gone. *)
Reclaimed(s) == [s EXCEPT !.data = [f \in Files |-> IF f \in Unused(s) THEN <<>> ELSE @[f]]]

Overwritten(old, at, new) ==
    [i \in 1..(IF at + Len(new) > Len(old) THEN at + Len(new) ELSE Len(old)) |->
        IF i \in at + 1..at + Len(new) THEN new[i - at] ELSE old[i]]
-----------------------------------------------------------------------------
(* The cache of open files.  "room" is whether the disk has room.          *)

Cached(s, k) == {i \in Slots : s.slots[i].key = k}
Slot(s, k) == CHOOSE i \in Cached(s, k) : \A j \in Cached(s, k) : i <= j

(* ftello() *)
Tell(s, i) == s.slots[i].at + Len(s.slots[i].pend)

(* What stdio has buffered goes to the disk, or is lost when that is full. *)
Flush(s, i, room) ==
    LET e == s.slots[i]
    IN  IF e.pend = <<>> THEN s
        ELSE [s EXCEPT !.data[e.file] = IF room THEN Overwritten(@, e.at, e.pend) ELSE @,
                       !.slots[i] = [e EXCEPT !.at = Tell(s, i), !.pend = <<>>]]

(* fpcache_free_entry() by way of f_cache_delete_entry() or f_cache_put(): *)
(* fclose(), whose result nobody looks at.                                 *)
Close(s, i, room) ==
    IF s.slots[i] = Empty THEN s
    ELSE [Flush(s, i, room) EXCEPT !.slots[i] = Empty,
                                   !.damaged = @ \/ ~s.slots[i].open]

CloseCached(s, k, room) == IF Cached(s, k) = {} THEN s ELSE Close(s, Slot(s, k), room)

(* Faulty variant: no roll over. *)
Keep_NoRollOver(s, e, room) ==
    [Close(s, s.next, room) EXCEPT !.slots[s.next] = e, !.next = s.next + 1]

(* f_cache_put() *)
Keep(s, e, room) ==
    [Close(s, s.next, room) EXCEPT !.slots[s.next] = e, !.next = (s.next + 1) % Size]

(* Faulty variant: the server ends without clearing the cache. *)
ShutDown_Unflushed(s) == [s EXCEPT !.slots = [i \in Slots |-> Empty], !.next = 0]

(* shutdown_caches(), followed by init_caches() of the next server.        *)
ShutDown(s) ==
    LET closed[n \in 0..Size] == IF n = 0 THEN s ELSE Close(closed[n - 1], n - 1, TRUE)
    IN  [closed[Size] EXCEPT !.next = 0]
-----------------------------------------------------------------------------
(* serve_file(): the block at pos, none past the end.                      *)
Block(s, f, pos) == IF pos < Len(s.data[f]) THEN <<s.data[f][pos + 1]>> ELSE <<>>
Serve(s, i, pos) == Result(s, "data", Block(s, s.slots[i].file, pos))

(* server_get_file() and serve_file().  A FILE in the cache is served      *)
(* whatever has become of the name since.                                  *)
GetFile(s, u, pos) ==
    LET k == <<"F", u>>
        t == Keep(s, Opened(k, s.dir[Target], 0), TRUE)
    IN  IF Cached(s, k) # {} THEN {Serve(s, Slot(s, k), pos)}
        ELSE IF Exists(s, Target) THEN {Serve(t, s.next, pos)}
        ELSE {Error(s)}

(* server_del_file() behind CHECK_ACCESS_RIGHTS(DIR_DEL) *)
DelFile(s, u) ==
    IF u \in s.deleters /\ Exists(s, Target) THEN {Ok(Unlink(s, Target))} ELSE {Error(s)}

(* fseeko(), when the position is not where the last block ended           *)
Seek(s, i, pos) ==
    IF pos = Tell(s, i) THEN s ELSE [Flush(s, i, TRUE) EXCEPT !.slots[i].at = pos]

(* fwrite() of one block, which is buffered *)
Put(s, i, block) == [s EXCEPT !.slots[i].pend = Append(@, block)]

(* Faulty variant: no seek in an open file ("the file is only appended     *)
(* to", doc/HISTORY:351).                                                  *)
AppendBlock_NoSeek(s, i, pos, block, room) == {Ok(Put(Flush(s, i, TRUE), i, block))}

(* server_up_load(), from fseeko() on.  What is buffered goes to the disk  *)
(* before a seek and when the buffer is full; when the disk is full, too,  *)
(* the entry is deleted.                                                   *)
AppendBlock(s, i, pos, block, room) ==
    LET t == Seek(s, i, pos)
        full == Len(t.slots[i].pend) = Buffer
        writes == full \/ (pos # Tell(s, i) /\ s.slots[i].pend # <<>>)
    IN  IF writes /\ ~room THEN {Error(Close(s, i, FALSE))}
        ELSE {Ok(Put(IF full THEN Flush(t, i, TRUE) ELSE t, i, block))}

(* server_up_load().  A first block begins a new file, except that an open *)
(* one of at most a block is written over; a later block must lie at the   *)
(* end of the file or be its last one.                                     *)
UpLoad(s, u, pos, block, room) ==
    LET p == Temp(u)
        open == Cached(s, p) # {}
        end == IF open THEN Tell(s, Slot(s, p)) ELSE Len(s.data[s.dir[p]])
        without == Unlink(CloseCached(s, p, room), p)
        new == Write(without, p, <<>>)
        kept == IF open THEN s ELSE Keep(s, Opened(p, s.dir[p], pos), room)
    IN  IF pos = 0 /\ (~open \/ end > 1)
        THEN AppendBlock(Keep(new, Opened(p, new.dir[p], 0), room), new.next, pos, block, room)
        ELSE IF ~open /\ ~Exists(s, p) THEN {Error(s)}
        ELSE IF pos > end \/ pos + 1 < end THEN {Error(without)}
        ELSE AppendBlock(kept, Slot(kept, p), pos, block, room)

(* copy_file(): when the disk fills up, either fwrite() notices and the    *)
(* copy is removed, or only the unchecked fclose() could have.             *)
Copy(s, from, to, room) ==
    LET whole == s.data[s.dir[from]]
    IN  IF ~Exists(s, from) THEN {Error(s)}
        ELSE IF room \/ whole = <<>> THEN {Ok(Write(s, to, whole))}
        ELSE {Error(Unlink(s, to))} \cup
             {Ok(Write(s, to, SubSeq(whole, 1, n))) : n \in 0..Len(whole) - 1}

(* server_install() with a zero length name: the upload is cancelled.      *)
Cancel(s, u) == {Ok(Unlink(CloseCached(s, Temp(u), TRUE), Temp(u)))}

(* Faulty variant: the open temporary file is left in the cache. *)
Install_Unflushed(s, u, room) ==
    LET without(r) == [r EXCEPT !.srv = Unlink(@, Temp(u))]
    IN  IF Exists(s, Target) /\ u \notin s.deleters THEN {Error(Unlink(s, Temp(u)))}
        ELSE {without(r) : r \in Copy(Unlink(s, Target), Temp(u), Target, room)}

(* Faulty variant: the target is written over instead of unlinked. *)
Install_InPlace(s, u, room) ==
    LET closed == CloseCached(s, Temp(u), room)
        without(r) == [r EXCEPT !.srv = Unlink(@, Temp(u))]
    IN  IF Exists(s, Target) /\ u \notin s.deleters THEN {Error(Unlink(closed, Temp(u)))}
        ELSE {without(r) : r \in Copy(closed, Temp(u), Target, room)}

(* server_install().  The target is unlinked before the copy, whether or   *)
(* not there is anything to copy.                                          *)
Install(s, u, room) ==
    LET closed == CloseCached(s, Temp(u), room)
        without(r) == [r EXCEPT !.srv = Unlink(@, Temp(u))]
    IN  IF Exists(s, Target) /\ u \notin s.deleters THEN {Error(Unlink(closed, Temp(u)))}
        ELSE {without(r) : r \in Copy(Unlink(closed, Target), Temp(u), Target, room)}

(* Faulty variant: the original stays where it is. *)
SecureFile_Copies(s, u, room) ==
    IF ~Exists(s, Target) THEN {Error(s)}
    ELSE Copy(Unlink(s, Grabbed(u)), Target, Grabbed(u), room)

(* server_secure_file() *)
SecureFile(s, u, room) ==
    LET taken(r) == IF r.reply.kind = "ok" THEN [r EXCEPT !.srv = Unlink(@, Target)] ELSE r
    IN  IF ~Exists(s, Target) THEN {Error(s)}
        ELSE {taken(r) : r \in Copy(Unlink(s, Grabbed(u)), Target, Grabbed(u), room)}

(* server_grab_file(), serve_file() and the handler's fclose(fp), which    *)
(* leaves the closed FILE in the cache.  Reading from a FILE that is       *)
(* closed gives nothing, or a block of the file that now has its memory.   *)
GrabFile(s, u, pos) ==
    LET k == Grabbed(u)
        closed == [Opened(k, s.dir[k], 0) EXCEPT !.open = FALSE]
        served == Block(s, s.dir[k], pos)
        others == {s.slots[i].file : i \in {j \in Slots : s.slots[j].open}}
    IN  IF Cached(s, k) # {}
        THEN {Result([s EXCEPT !.damaged = TRUE], "data", b) :
                 b \in {<<>>} \cup {Block(s, f, pos) : f \in others}}
        ELSE IF Exists(s, k) THEN {Result(Keep(s, closed, TRUE), "data", served)}
        ELSE {Error(s)}

(* The handler of CC_GRAB_FILE: a first request secures the file, but not  *)
(* when it is a repetition ("old").                                        *)
Grab(s, u, pos, old, room) ==
    IF u \notin s.deleters THEN {Error(s)}
    ELSE IF old \/ pos # 0 THEN GrabFile(s, u, pos)
    ELSE UNION {IF r.reply.kind = "ok" THEN GrabFile(r.srv, u, pos) ELSE {r} :
                    r \in SecureFile(s, u, room)}

(* server_grab_done() behind CHECK_ACCESS_RIGHTS(DIR_DEL) *)
GrabDone(s, u) ==
    IF u \in s.deleters /\ Exists(s, Grabbed(u))
    THEN {Ok(Unlink(CloseCached(s, Grabbed(u), TRUE), Grabbed(u)))}
    ELSE {Error(s)}
=============================================================================
