----------------------------- MODULE Transfer -----------------------------
(***************************************************************************)
(* Programs that put, print, get, grab and delete the file of one name, as *)
(* client/util.c and clients/ do, against the file commands of the server  *)
(* (FileStore), while answers are lost, programs are killed or             *)
(* interrupted, and the server is restarted.                               *)
(*                                                                         *)
(* Requests and answers are those of Session: a request is run once, and   *)
(* repeated as "old" when its answer was lost; a restarted server does not *)
(* know it and runs it again.  Copies of earlier requests of a program do  *)
(* not arrive here.                                                        *)
(***************************************************************************)
EXTENDS FileStore

CONSTANTS
    JobKinds,    \* what programs do, of "put", "cat", "get", "grab", "del"
    Lengths,     \* lengths of files, in blocks
    MaxJobs,     \* bound on the programs started
    Faults,      \* "stop": SIGTERM, "crash", "full": no room on disk
    MaxFaults    \* bound on their number

ASSUME TransferAssumption ==
    /\ JobKinds \subseteq {"put", "cat", "get", "grab", "del"}
    /\ Lengths \subseteq Nat \ {0}
    /\ MaxJobs \in Nat
    /\ Faults \subseteq {"stop", "crash", "full"}
    /\ MaxFaults \in Nat

VARIABLES
    srv,         \* the server's state, see FileStore
    job,         \* the program of each user
    started,     \* programs started
    faults,      \* faults so far
    published,   \* versions that were under the name (history)
    acked,       \* versions whose put was told of success (history)
    handed       \* <<user, version>> for files handed out to grabs (history)

vars == <<srv, job, started, faults, published, acked, handed>>

(* Version v of the file, n blocks long.  The number of the program that   *)
(* puts it names it, 0 the version there at first.                         *)
Version(v, n) == [i \in 1..n |-> [version |-> v, block |-> i, of |-> n]]
Versions == {Version(v, n) : v \in 0..MaxJobs, n \in Lengths}

(* A program: what it does; the version it puts; pos; whether it has seen  *)
(* the end of the file; whether the server has run its request; the        *)
(* answers under way; the blocks received; whether a request of it failed; *)
(* and whether its open file stayed in the cache (the last two history).   *)
Idle == [kind |-> "none", file |-> <<>>, pos |-> 0, eof |-> FALSE, ran |-> FALSE,
         replies |-> {}, got |-> <<>>, failed |-> FALSE, steady |-> TRUE]

Init ==
    \E n \in Lengths, D \in SUBSET Users :
        /\ srv = [deleters |-> D,
                  dir |-> [p \in Paths |-> IF p = Target THEN 1 ELSE NoFile],
                  data |-> [f \in Files |-> IF f = 1 THEN Version(0, n) ELSE <<>>],
                  slots |-> [i \in Slots |-> Empty], next |-> 0, damaged |-> FALSE]
        /\ job = [u \in Users |-> Idle]
        /\ started = 0
        /\ faults = 0
        /\ published = {Version(0, n)}
        /\ acked = {}
        /\ handed = {}
-----------------------------------------------------------------------------
(* The request a program waits for an answer to.  get_file() is compiled   *)
(* with util_grab_file() whatever the program is called as: COMMAND_GET is *)
(* a variable, and #ifdef does not see it.                                 *)
Command(j) == CASE j.kind = "put" -> IF j.pos < Len(j.file) THEN "UP_LOAD" ELSE "INSTALL"
                [] j.kind = "cancel" -> "CANCEL"
                [] j.kind = "cat" -> "GET_FILE"
                [] j.kind \in {"get", "grab"} -> IF j.eof THEN "GRAB_DONE" ELSE "GRAB_FILE"
                [] j.kind = "del" -> "DEL_FILE"

Waiting(u) == job[u].kind # "none" /\ ~(job[u].kind = "cat" /\ job[u].eof)

(* server_process_packet(), the first copy of a request *)
Run(u, room) ==
    LET j == job[u]
    IN  CASE Command(j) = "UP_LOAD" -> UpLoad(srv, u, j.pos, j.file[j.pos + 1], room)
          [] Command(j) = "INSTALL" -> Install(srv, u, room)
          [] Command(j) = "CANCEL" -> Cancel(srv, u)
          [] Command(j) = "GET_FILE" -> GetFile(srv, u, j.pos)
          [] Command(j) = "GRAB_FILE" -> Grab(srv, u, j.pos, FALSE, room)
          [] Command(j) = "GRAB_DONE" -> GrabDone(srv, u)
          [] Command(j) = "DEL_FILE" -> DelFile(srv, u)

(* Another copy, "old": what changes something is answered with success,   *)
(* whatever the first copy was answered.                                   *)
RunOld(u) ==
    LET j == job[u]
    IN  CASE Command(j) = "GET_FILE" -> GetFile(srv, u, j.pos)
          [] Command(j) = "GRAB_FILE" -> Grab(srv, u, j.pos, TRUE, TRUE)
          [] OTHER -> {Ok(srv)}

HeldOpen(s, u) == Cached(s, <<"F", u>>) # {}
Named(s) == IF Exists(s, Target) THEN {s.data[s.dir[Target]]} ELSE {}

(* A result reaches the network, the server's state and the history. *)
Answer(u, r) ==
    LET s == Reclaimed(r.srv)
    IN  /\ srv' = s
        /\ job' = [w \in Users |->
              LET j == job[w]
                  held == j.kind = "cat" => j.steady /\ (HeldOpen(srv, w) => HeldOpen(s, w))
                  failed == j.kind = "put" /\ r.reply.kind = "error"
              IN  IF w # u THEN [j EXCEPT !.steady = held]
                  ELSE [j EXCEPT !.ran = TRUE, !.replies = @ \cup {r.reply},
                                 !.failed = @ \/ failed, !.steady = held]]
        /\ published' = published \cup (Named(s) \cap Versions)
        /\ handed' = IF Command(job[u]) = "GRAB_FILE" /\ r.reply.block # <<>> /\ ~s.damaged
                     THEN handed \cup {<<u, r.reply.block[1].version>>} ELSE handed
        /\ UNCHANGED <<started, acked>>

(* Once a closed FILE was used nothing is known of the server any more, so *)
(* it takes no more steps here; the answer it gave last may still arrive.  *)
ServerRun(u) ==
    \E room \in BOOLEAN :
        /\ ~srv.damaged /\ Waiting(u) /\ ~job[u].ran
        /\ room \/ ("full" \in Faults /\ faults < MaxFaults)
        /\ \E r \in Run(u, room) : Answer(u, r)
        /\ faults' = IF room THEN faults ELSE faults + 1

ServerRepeat(u) ==
    /\ ~srv.damaged /\ Waiting(u) /\ job[u].ran
    /\ \E r \in RunOld(u) : Answer(u, r)
    /\ UNCHANGED faults

(* The server ends, in order or not, and another is started.  The host     *)
(* table is lost: the requests clients wait for are new to it.             *)
ServerRestart ==
    /\ ~srv.damaged /\ faults < MaxFaults
    /\ \E end \in Faults \ {"full"} :
          srv' = Reclaimed(IF end = "stop" THEN ShutDown(srv)
                           ELSE [srv EXCEPT !.slots = [i \in Slots |-> Empty], !.next = 0])
    /\ job' = [u \in Users |-> [job[u] EXCEPT !.ran = FALSE, !.steady = job[u].kind # "cat"]]
    /\ faults' = faults + 1
    /\ UNCHANGED <<started, published, acked, handed>>
-----------------------------------------------------------------------------
(* client_interact() ignores an error whose position, always 0, is not the *)
(* one asked for.                                                          *)
Accepted(j, reply) ==
    reply.kind # "error" \/ j.pos = 0 \/ Command(j) \notin {"UP_LOAD", "GET_FILE", "GRAB_FILE"}

(* The next request of a program, or its end, after an answer. *)
Continued(j, reply) ==
    LET next == [j EXCEPT !.ran = FALSE, !.replies = {}]
    IN  IF reply.kind = "error" THEN Idle
        ELSE IF Command(j) = "UP_LOAD" THEN [next EXCEPT !.pos = @ + 1]
        ELSE IF reply.kind = "data"
        THEN [next EXCEPT !.pos = @ + Len(reply.block), !.got = @ \o reply.block,
                          !.eof = reply.block = <<>>]
        ELSE Idle

(* A program starts: put, cat, get, grab or rm. *)
Start(u) ==
    /\ ~srv.damaged /\ job[u].kind = "none" /\ started < MaxJobs
    /\ \E k \in JobKinds, n \in Lengths :
          job' = [job EXCEPT ![u] = [Idle EXCEPT
                    !.kind = k, !.file = IF k = "put" THEN Version(started + 1, n) ELSE <<>>]]
    /\ started' = started + 1
    /\ UNCHANGED <<srv, faults, published, acked, handed>>

(* util_upload() and util_download_main() go round their loops. *)
Receive(u) ==
    \E reply \in job[u].replies :
        /\ Accepted(job[u], reply)
        /\ job' = [job EXCEPT ![u] = Continued(@, reply)]
        /\ acked' = IF reply.kind = "ok" /\ Command(job[u]) = "INSTALL" /\ ~job[u].failed
                    THEN acked \cup {job[u].file} ELSE acked
        /\ UNCHANGED <<srv, started, faults, published, handed>>

(* A program has printed all, or is killed. *)
Leave(u) ==
    /\ job[u].kind # "none"
    /\ job' = [job EXCEPT ![u] = Idle]
    /\ UNCHANGED <<srv, started, faults, published, acked, handed>>

(* upload_cleanup(), when a put is interrupted.  It uses the key of the    *)
(* request that was under way: if the server has run that one, the         *)
(* cancellation passes for a copy of it.                                   *)
Interrupt(u) ==
    /\ job[u].kind = "put"
    /\ job' = [job EXCEPT ![u] = [@ EXCEPT !.kind = "cancel", !.replies = {}]]
    /\ UNCHANGED <<srv, started, faults, published, acked, handed>>

Next ==
    \/ \E u \in Users : \/ ServerRun(u)
                        \/ ServerRepeat(u)
                        \/ Start(u)
                        \/ Receive(u)
                        \/ Leave(u)
                        \/ Interrupt(u)
    \/ ServerRestart

Spec == Init /\ [][Next]_vars
-----------------------------------------------------------------------------
Blocks == UNION {{f[i] : i \in DOMAIN f} : f \in Versions}
Keys == {Empty.key} \cup ({"F", "T", "G"} \X Users)

TypeOK ==
    /\ srv.dir \in [Paths -> Files \cup {NoFile}]
    /\ srv.data \in [Files -> Seq(Blocks)]
    /\ srv.next \in Slots
    /\ srv.deleters \subseteq Users
    /\ \A i \in Slots : /\ srv.slots[i].key \in Keys
                        /\ srv.slots[i].file \in Files \cup {NoFile}
                        /\ srv.slots[i].pend \in Seq(Blocks)
    /\ \A u \in Users : /\ job[u].pos \in 0..Len(job[u].file) + Len(job[u].got)
                        /\ job[u].replies \subseteq
                              [kind : {"ok", "error", "data"}, block : {<<>>} \cup {<<b>> : b \in Blocks}]
    /\ published \subseteq Versions
    /\ acked \subseteq Versions

(* What a user's temporary file will hold when it is closed. *)
Uploaded(u) ==
    LET p == Temp(u)
        e == srv.slots[Slot(srv, p)]
    IN  IF Cached(srv, p) = {} THEN srv.data[srv.dir[p]]
        ELSE Overwritten(srv.data[e.file], e.at, e.pend)

(* While a put sends its blocks its temporary file is the version up to    *)
(* the block asked for, with that block when the server has run the        *)
(* request: repeated, restarted, after an upload that was given up on the  *)
(* same port, and with its open file thrown out of the cache by others.    *)
UploadTracked ==
    ~srv.damaged =>
    \A u \in Users :
        LET j == job[u]
            upto == (IF j.ran THEN {} ELSE {j.pos}) \cup {j.pos + 1}
        IN  j.kind = "put" /\ j.pos < Len(j.file) /\ (j.pos > 0 \/ j.ran) /\ ~j.failed
                => /\ Exists(srv, Temp(u))
                   /\ Uploaded(u) \in {SubSeq(j.file, 1, n) : n \in upto}

(* A put none of whose requests failed and that was told of success has    *)
(* put its whole version under the name.  (Without room on the disk this   *)
(* is what ChangeLog:532 says: "server detects i/o errors when uploading   *)
(* (out of diskspace)".)                                                   *)
AckPublished == acked \subseteq published

(* What is read of a file that stays open in the cache from the first      *)
(* block to the last is one whole version, although others install, delete *)
(* and grab the name meanwhile.                                            *)
ReadsWhole ==
    \A u \in Users : job[u].kind = "cat" /\ job[u].eof /\ job[u].steady => job[u].got \in Versions

(* "If there are multiple grabs for the same file, only one will succeed"  *)
(* (doc/PROTOCOL:511).                                                     *)
OnlyOneGrab == \A a, b \in handed : a[2] = b[2] => a[1] = b[1]

(* The name goes from whole version to whole version: puts and grabs in    *)
(* any order, repeated, given up, or divided by a restart, never leave a   *)
(* mixture or a part of a file there, nor bring an old version back.       *)
Content == IF ~Exists(srv, Target) THEN <<>> ELSE srv.data[srv.dir[Target]]
Store == INSTANCE StoreSpec WITH Values <- Versions, Nothing <- <<>>,
                                 content <- Content, past <- published
StoreRefined == Store!Spec

(* Not so: a grab that has come to the end of the file has all of it; only *)
(* then does it have the server delete the file ("file is deleted after    *)
(* successful transfer is done", doc/PROTOCOL:510).                        *)
GrabComplete ==
    \A u \in Users : job[u].kind \in {"get", "grab"} /\ job[u].eof => job[u].got \in Versions
=============================================================================
