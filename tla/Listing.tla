------------------------------- MODULE Listing -------------------------------
(***************************************************************************)
(* The format of directory listings: build_dir_listing() on the server,    *)
(* CC_GET_DIR handing out pieces of it, and get_dir_blk() putting them     *)
(* together on the client.                                                 *)
(*                                                                         *)
(* Of the names in a directory their lengths matter; of a listing, its     *)
(* items in order: entries, fillings and the end.                          *)
(***************************************************************************)
EXTENDS Integers, Sequences

CONSTANTS
    RDHSIZE,            \* bytes of an entry before its name
    UBUF_MAXSPACE       \* bytes the client wants to have before it looks at them

ASSUME ListingAssumption == RDHSIZE \in Nat \ {0} /\ UBUF_MAXSPACE \in Nat \ {0}

(* "pad to 4byte boundary" *)
Padded(n) == ((n + 3) \div 4) * 4

(* An entry needs its header, its name and a zero. *)
Needs(name) == RDHSIZE + name + 1

Entry(name) == [type |-> "entry", name |-> name, size |-> Padded(Needs(name))]
Skip(n) == [type |-> "skip", name |-> 0, size |-> n]
End == [type |-> "end", name |-> 0, size |-> RDHSIZE]
-----------------------------------------------------------------------------
(* build_dir_listing() *)

(* The blocks so far, the block at work on, and what is left of it; over:  *)
(* it was written beyond its end (rem is unsigned, all fits from then on). *)
Start(dirblocksize) == [blocks |-> <<>>, block |-> <<>>, rem |-> dirblocksize, over |-> FALSE]

(* Faulty variant: the buffer is written on where it was. *)
Closed_Kept(dl, dirblocksize) ==
    [dl EXCEPT !.blocks = Append(@, Append(dl.block, Skip(dl.rem))), !.rem = dirblocksize]

(* append_dir_listing(), after the rest has been filled. *)
Closed(dl, dirblocksize) ==
    [dl EXCEPT !.blocks = Append(@, IF dl.rem = 0 THEN dl.block ELSE Append(dl.block, Skip(dl.rem))),
               !.block = <<>>, !.rem = dirblocksize]

(* Faulty variant: the header is forgotten. *)
Fits_NameOnly(name, rem) == rem >= name + 1

Fits(name, rem) == rem >= Needs(name)

Written(dl, item) == [dl EXCEPT !.block = Append(@, item), !.rem = @ - item.size, !.over = @ \/ dl.rem < item.size]

(* An entry is written where it fits, else in a new block. *)
Added(dl, name, dirblocksize) ==
    IF dl.over THEN dl ELSE Written(IF Fits(name, dl.rem) THEN dl ELSE Closed(dl, dirblocksize), Entry(name))

(* The listing of a directory, in blocks of dirblocksize; the last one is  *)
(* as long as it is.                                                       *)
Build(names, dirblocksize) ==
    LET built[n \in 0..Len(names)] ==
            IF n = 0 THEN Start(dirblocksize) ELSE Added(built[n - 1], names[n], dirblocksize)
        all == built[Len(names)]
        last == Written(IF all.rem < RDHSIZE THEN Closed(all, dirblocksize) ELSE all, End)
    IN  [last EXCEPT !.blocks = Append(@, last.block)]
-----------------------------------------------------------------------------
(* CC_GET_DIR *)

(* The bytes of a block, and of a listing. *)
SumTo(f, n) == LET sum[i \in 0..n] == IF i = 0 THEN 0 ELSE sum[i - 1] + f[i] IN sum[n]
Size(block) == SumTo([i \in DOMAIN block |-> block[i].size], Len(block))
Total(blocks) == SumTo([i \in DOMAIN blocks |-> Size(blocks[i])], Len(blocks))

(* The reply to CC_GET_DIR at pos: nothing beyond the end; "Invalid        *)
(* directory seek offset"; a block.                                        *)
Reply(blocks, dirblocksize, pos) ==
    IF pos >= Total(blocks) THEN <<>>
    ELSE IF pos % dirblocksize # 0 THEN <<[type |-> "error", name |-> 0, size |-> 0]>>
    ELSE blocks[(pos \div dirblocksize) + 1]

(* A directory that changes while it is read: the first requests, change   *)
(* of them, are answered from the old listing, the rest from the new.      *)
Changing(old, new, change, dirblocksize) ==
    [old |-> old, new |-> new, change |-> change, dirblocksize |-> dirblocksize]
Answer(dir, c) == Reply(IF c.asked < dir.change THEN dir.old ELSE dir.new, dir.dirblocksize, c.pos)
-----------------------------------------------------------------------------
(* get_dir_blk() *)

(* The blocks received and not looked at, their bytes, where to go on, the *)
(* length of the first reply (0: none yet), whether the end was met, the   *)
(* names so far, and the requests that were answered.                      *)
Reader == [buf |-> <<>>, acc |-> 0, pos |-> 0, dirblocksize |-> 0, at_eof |-> FALSE,
           names |-> <<>>, ended |-> FALSE, asked |-> 0]

(* The inner loop: replies are asked for until there are UBUF_MAXSPACE     *)
(* bytes or no more.  An error is a reply for position 0, and the only one *)
(* there is here is about another: client_interact() throws it away, and   *)
(* repeats the request.                                                    *)
AskDir(dir, c) ==
    LET reply == Answer(dir, c)
        rlen == Size(reply)
    IN  IF reply # <<>> /\ reply[1].type = "error" THEN c
        ELSE [c EXCEPT !.buf = IF reply = <<>> THEN @ ELSE Append(@, reply),
                       !.acc = @ + rlen, !.pos = @ + rlen, !.asked = @ + 1,
                       !.at_eof = c.dirblocksize # 0 /\ rlen < c.dirblocksize,
                       !.dirblocksize = IF @ = 0 THEN rlen ELSE @]

(* The names of a block are those of the entries before a filling or the   *)
(* end.                                                                    *)
Entries(block) ==
    CHOOSE n \in 0..Len(block) : /\ n = Len(block) \/ block[n + 1].type # "entry"
                                 /\ \A i \in 1..n : block[i].type = "entry"
NamesIn(block) == [i \in 1..Entries(block) |-> block[i].name]
HasEnd(block) == \E i \in DOMAIN block : block[i].type = "end"

(* The outer loop: a block is read; the last one is one with an end or     *)
(* that is short.                                                          *)
ReadBlock(c) ==
    LET block == IF c.buf = <<>> THEN <<>> ELSE c.buf[1]
        read == c.names \o NamesIn(block)
    IN  IF HasEnd(block) \/ c.acc < c.dirblocksize THEN [c EXCEPT !.names = read, !.ended = TRUE]
        ELSE [c EXCEPT !.names = read, !.buf = Tail(@), !.acc = @ - c.dirblocksize]

Reading(dir, c) ==
    IF c.ended THEN c
    ELSE IF c.acc < UBUF_MAXSPACE /\ ~c.at_eof THEN AskDir(dir, c)
    ELSE ReadBlock(c)

(* get_dir_blk(): every block is received and read once, a further reply   *)
(* meets the end.  A reading that has not ended then repeats a request     *)
(* without end, until CLIENT_TIMEOUT ends the program.                     *)
Rounds(dir) == 2 * (Len(dir.old) + Len(dir.new)) + 2
Endless == <<-1>>
GetDirBlk(dir) ==
    LET reader[n \in 0..Rounds(dir)] == IF n = 0 THEN Reader ELSE Reading(dir, reader[n - 1])
        last == reader[Rounds(dir)]
    IN  IF last.ended THEN last.names ELSE Endless
=============================================================================
