# TLA+ models of fsp

fsp is a UDP file service: a single-threaded server (`server/`), a client library (`client/`)
and command line programs (`clients/`). These modules model the parts where ordering, loss,
restarts and bounded tables make the code hard to test, TLC checks them on small instances, and
TLAPS proves the central invariants for all values of the constants. Paths below are those of
the repository.

## 1. Inventory

| component | state | operations | talks to | what is hard | what makes it correct |
|---|---|---|---|---|---|
| sessions: `server/server.c`, `client/lib.c` | per host `next_key`, `last_key`, `active`, `last_acc`; client `key`, `myseq` | one request, one reply; retransmission; `CC_BYE` | network, host table, all handlers | lost, duplicated, late, damaged datagrams; 3 s and 60 s timeouts; vanished programs; restart | a command is not run twice; a success means it ran; keys never diverge; a call returns |
| client data base: `server/host.c` | sorted array, count, room | `find_host`, `init_htab`, `dump_htab` | server loop keeps a pointer into it | binary search between sentinels; growth | one entry per host, the right one returned, none lost |
| FIFO cache: `server/fifocache.c` | ring of slots, next slot | put, find, three deletions, clear | three caches of `server/file.c` | holes, roll over, ownership of what the slots hold | nothing leaked or freed twice; the oldest is overwritten |
| throughput control: `server_reply()` | ring of 10 buckets, `thcbase`, `cur_time` | book, wait | clock read by the server loop | shifting by elapsed seconds; a clock that stands still | bounded rate |
| transfers: `server/file.c` | temporary files per host and port, open-file cache | `CC_UP_LOAD`, `CC_INSTALL`, `CC_GRAB_FILE`, `CC_GRAB_DONE`, `CC_GET_FILE` | FIFO cache, file system | retried commands, restarts, buffered data | a file installed is the file uploaded; a grab loses nothing |
| directory caches: `server/file.c` | directory information and listings with time stamps | `validate_path`, `server_get_dir`, del, mkdir, set_pro, rename | FIFO cache, file system, access rights | staleness by seconds; pointers into the ring | rights and listings no older than the time stamps promise |
| access rights: `server/acl.c` | `.OWN`-style files of a directory | `require_access_rights`, `save_access_rights` | directory caches | passwords, owners, public rights together | only the rights granted |
| listing format: `file.c`, `client/util.c` | blocks of a listing | `build_dir_listing`, `get_dir_blk` | `CC_GET_DIR` | entries that must not cross a block | what is read is what was written |
| path validation: `server/path.c` | none | `parse_path` | every handler | dots, slashes, passwords | no path leaves the root |
| IP table: `server/iprange.c` | list of ranges | `check_ip_table` | server loop, owners of directories | masks and ranges | first match decides |
| server process: `server/main.c`, `server_loop()`, `pidfile.c` | `dump`, `shutdowning` | signals, select | all | signal between test and select | a signal is acted on |
| key sharing: `client/lock.c` | a file or shared memory with the key | `client_get_key`, `client_set_key` | several client processes | processes that die with the lock | one request of a host at a time |
| client transfers: `client/util.c`, `clients/` | position, buffers, directory cache | download, upload, grab, readdir | sessions | restart of a transfer | the whole file, once |
| configuration: `server/conf.c` | settings | one per command, the command line, the checks after it | start-up | order of commands, other files | a server that starts can work |
| retransmission timing: `client_interact()` | delays | double, cap, reset | sessions | when to give up | decides when, not whether |
| `fspscan` | none | one request a host | network | none beyond a session's | none |

Left aside: `bsd_src/` (BSD `ls`, `find`, `glob`), `server/log.c`, `common/` (system call
wrappers), the build files, and the test programs (read as documentation: `tests/cachecheck.c`
exercises the FIFO cache, `tests/parsecheck.c` the paths).

A datagram goes through the components in this order: `server_loop()` receives it and looks its
sender up in the IP table and the host table, checks its key and then its checksum;
`server_process_packet()` renews the keys, validates the path and the rights, and runs the command on the
caches and files; `server_reply()` waits for the throughput control and sends. `hazards` in
`PROJECT.json` lists where each step can go wrong, at its line.

## 2. The modules

| module | models | checked by | proved in |
|---|---|---|---|
| `Session` (implements `RpcSpec`) | the request/reply protocol | `session_*` | `SessionProofs` |
| `HostTable` (implements `HostMap`) | `find_host()` and its caller | `hosttable` | `HostTableProofs` |
| `FifoCache` (implements `FifoSpec`) | `fifocache.c` | `fifocache` | `FifoCacheProofs` |
| `FileStore` | the file commands of `server/file.c` and the cache of open files | with `Transfer` | `TransferProofs` (lemmas) |
| `Transfer` (implements `StoreSpec`) | programs that put, cat, get, grab and delete, with restarts | `transfer_*` | `TransferProofs` |
| `Throughput` | the limiter of `server_reply()` | with `ServerLoop` | `ServerLoopProofs` |
| `ServerLoop` | the server as a process: start, pid file, signals, `select()`, end | `server` | `ServerLoopProofs` |
| `DirCache` | directory information, rights and listings as the server caches them | `dircache_*` | `DirCacheProofs` |
| `KeyLock` | `client/lock.c` in its five variants | `keylock` | `KeyLockProofs` |
| `Path`, `Access`, `Listing`, `Settings` | pure functions: paths, IP tables and rights, the listing format, the configuration | with `Pure` | `PureProofs` |
| `Pure` | calls of those functions over bounded inputs | `pure` | `PureProofs` |

`MC_*` modules give the constants values for TLC. A definition whose comment begins "Faulty
variant" is the definition after it with a plausible mistake; none is part of a specification.
Each is there to show that a property notices the mistake.

### Session

One client host, its programs one after the other, the server's entry for that host, and the
network between them as a set of datagrams.

- `host` is the `HTAB` entry; `idle` is `cur_time - last_acc`, stopped at `SessionTimeout`.
  `client` is the process in `client_interact()`. `net` holds the datagrams; each ages and is gone
  after `Lifetime`. A datagram is lost by growing old, duplicated by being received and kept, and
  reordered because any of them may be received next.
- `ServerRun`, `ServerRetry` and `ServerDrop` are the three ways a request takes through the key check
  (`TakesNew`, `TakesRetry`), with the renewal of keys, the command and the reply as one action:
  the server is single-threaded and does nothing else in between. `ServerChecksumError` is a damaged request: the
  entry has already changed when the checksum is looked at. `ServerRestart` forgets the host.
- `ClientCall`, `ClientBye`, `ClientResend`, `ClientAccept`, `ClientDiscard` are the stretches of
  `client_interact()` between two system calls that matter; `ClientQuit` is a program that ends
  without `CC_BYE`: killed, interrupted, or out of patience.
- Commands are of two kinds: `read` stands for those a repetition runs again, `write` for those with
  an `if(!old)` around the work. What they do is not modelled, only that they ran: `ran`, `twice` and
  `runs` are history.
- `id` in a datagram is no field of the packet: it names the request for the properties.
- A key just drawn differs from all keys still in use (`GenNextKey`). The code draws 16 random bits; a
  collision can make an old request pass for a new one and is excluded. The same holds for the first
  key of a program, its process id. Sequence numbers are treated likewise in the safety runs
  (`SeqsRepeat = FALSE`); `session_live` lets all but the last one used come up again.
- The three retry bits of the sequence number, packet sizes and the exact retransmission times are
  left out. A client waits at least `MIN_DELAY` (a second) before it repeats.

`RpcSpec` is what a program may rely on: from its first request to its goodbye each request runs
at most once, and not after its call has returned. `Session` implements it as long as the server is not restarted
(`RpcRefined`); the mapping shows the program in its session and hides the key machinery.

### HostTable

`find_host()` step by step: `Lookup` sets the interval, `Halve` and `Hit` are one round of the search each,
`Insert` is the miss, and `Serve` and `RefuseUnnamed` what `server_loop()` does with the entry before the next
lookup. `session` stands for the fields the server stores. Addresses are the integers they are compared as,
strictly between the sentinels 0 and `~0U`: no datagram is sent from 0.0.0.0 or
255.255.255.255. `acc_cnt` wraps around as the 16-bit field does. Running out of memory, which ends the
server, is not modelled. `HostMap` is the map from hosts to records the server loop thinks it has.

### FifoCache

The ring of slots in the configuration of the server's three caches: both keys and entries present,
destructors for both. An object stands for what a slot owns (a copied string, a listing, an open
`FILE`); `live` is the heap. `age` and `filled` are history. Deleting through a pointer as old as can be is
`DeleteEntry` of any slot. `FifoSpec` is the sliding window of the last `Size` insertions.

### Throughput and ServerLoop

`Throughput`: the ring of bytes per second, `gap` = `cur_time - thcbase`, `lag` = now - `cur_time`, both stopped
just above `THCCOUNT` where nothing in the code tells larger values apart, so time itself is
unbounded. `Receive` reads the clock, `Refuse` answers a refused host without reading it
(`server_loop()` reads it only after the checks of the host), `Send` and `Wait` are the two outcomes of a round of the loop in
`server_reply()`. `sent` is history in seconds as they really pass.

`ServerLoop` puts it into the process. `pc` goes from `pidfile()` (`WritePid`) over `signal()` (`Arm`) and
`fork()` (`Fork`) to the loop: `Top` looks at the flags, `Dump` and `Enter` are what lies between that and `select()`,
`Packet`, `Reply` and `Sleep` a packet and its answer, `End` what follows the loop. `Term` and `Usr1` are the handlers; they
run between any two steps, end the process before `Arm`, and wake a `select()` the server is in, not one it is about to call.
The window between the look at the flags and `select()` is a state of its own (`"entering"`), because that is
where a signal is missed. `Die` is SIGKILL or `exit(7)`; `PidFails` a pid file that cannot be written;
`Again` one more start. `setuid()`, the logs and the socket come before and either succeed or end the program. The parent that forks
ends at once and is not modelled apart from its pid in the file. Two servers at a time are not modelled: an inetd server that
ends removes the pid file of a daemon beside it (`server/main.c:395`).

### DirCache

The two caches of directories, as rings of the same kind as `FifoCache`, and the directories on the disk.

- `Validated` is `validate_path()` from the look-up on: a fresh entry, an error, an entry confirmed by the mtime, a
  newly loaded one. Each command is then one action: `GetPro`, `Stat`, `GetDir`, `SetPro`, `MakeDir`, `DelDir`, `RenameDir`,
  `RenameFile`, and `Alter` for those that add or remove a file and touch the entry (`CC_INSTALL`, `CC_DEL_FILE`, `CC_GRAB_FILE`).
- `Outside` is somebody on the server's machine who changes a directory, its flag files or its existence; `Tick` a
  second; `Restart` empties the caches.
- A directory has its flag files as a set, a version for its content, an mtime, and its `.FSP_CONTENT`. `of` names which
  directory it is, since a name may come to stand for another one.
- The rest is history. Of a directory, `rightsAt` and `contentAt`: when its flag files and its content changed last. Of an entry, `missed`: the
  directory at its path was changed since the entry was checked, and not through it; `masked`: such a change was
  followed by one through the entry, which gives the entry the present time and so hides the one before
  (`server/file.c:599`), or another directory with the same mtime was taken for the one loaded (`Confirmed`,
  `server/file.c:286`). The exceptions in `RightsKnown` and `ListingKnown` are stated with them; there are no others.
- The clock starts at `stat_cache_timeout`: it has run for longer than that, so the `lastcheck = 0` of `server_del_dir()` forces a check.
- Directories in directories, symbolic links (`homedir_restricted`), passwords and owners (see `Access`) are left out.

### KeyLock

The programs of a host, each from `open(key_string)` to its end. Each system call another program can come between is an
action: `Open`, `Attach`, `SemGet`, `SemCreate`, `SemSet`, `SetShare`, `Count`, then `Acquire`, `Store`, and for `fbye` `Destroy`,
`RemoveSem`, `RemoveShm`, `Unlink`. Between `Acquire` and `Store` the server gives a key (`Give`); that is a step of its own,
because a program may end after it and before `client_set_key()`. `variant` is drawn at the start and stays.

- `file` is the inode the name stands for, `shmOf` and `semOf` the segment and the semaphores an inode's `ftok()` key stands for. Inodes
  and identifiers are used again once nobody has them. `Free` is the kernel's lock: of the file a program has open, or of its semaphore.
- `Ends` is what the kernel does for a program that ends: `SEM_UNDO` for both semaphores; closed files lose their
  lock. `Leave` ends with `exit()` while waiting for the server, whether or not the server has answered; `Kill` anywhere.
- The key is the number of the answer it came with; 0 is a key a program makes up. `given` and `last` are the server's `next_key` and
  `last_key`: a request that carries `last_key` is taken for a repetition (`Repeats`) and is given the same key once more.
  A request that reaches the server after its program has ended is taken as if it had come just before, since the next program finds the
  same word either way; one that comes later still, after a `CC_BYE`, and opens a session of its own is left out. What else the server makes of a key is `Session`'s subject, which models one program at a time: `OneHolder` and `LastKeyUsed`
  are what lets it.
- `lost`, `removed` and `raced` are history. `lost` is set when the program the server answered last ended before it stored the key. After an `fbye` has unlinked the file, or when a program meets a semaphore that exists but has
  no value yet, the variants concerned keep nobody apart; the properties say so.

### Path, Access, Listing, Settings, Pure

Functions of their arguments, written as such, with references to check them against. `Pure` is one call each,
with inputs from small sets, so that the properties are invariants over `call`.

- `Path`: `util_abs_path()` as the loop it is, over characters that are alike in the code taken as one;
  `parse_path()` as the scan it is; `Work` is the directory `validate_path()` looks at when the whole path is one. `Components` and `Resolved` say
  what a path means.
- `Access`: the lines of an IP table and its look-up, and `require_access_rights()`. What `gethostbyname()` finds is an input.
- `Listing`: of names the lengths, of a listing its items in order. `Build` is `build_dir_listing()`, `Reply` the answer to
  `CC_GET_DIR`, `AskDir` and `ReadBlock` the two loops of the client, `GetDirBlk` the whole. The listing may become another one
  between any two of its requests (`Changing`). An error reply is thrown away and the request repeated (disagreement 3), so a reading may
  not end (`Endless`).
- `Settings`: `load_configuration()` with a file that names another, the command line, `check_required_vars()`,
  `init_home_dir()`. Of settings that are only stored a few stand for all. The port, and a file that cannot be opened, are
  left out.

### FileStore and Transfer

`FileStore` has one operator per file command, from the server's state to the set of its results; `Transfer` is
the rest: the programs (`util_upload()`, `util_download_main()`, `util_grab_file()`, `upload_cleanup()`), the
answers under way, and the restarts.

- One published name, `Target`, and for each user (a host and port) the temporary files `.T` (upload) and `.G`
  (grab). Files are told apart from their names, because a `FILE` in the cache outlives its name: `dir` links names
  to files, `data` has their blocks. A block is what one packet carries, and positions count blocks.
- A slot of the cache has the blocks its `FILE` has buffered (`pend`, at most `Buffer`); they reach the file when
  the buffer is full, before a seek, and when it is closed. `Close` is `fclose()`: on a full disk what is
  buffered is lost and nobody looks.
- Directory rights are one set, `deleters`, drawn at the start. Who may add or read is not modelled.
- A request is run once (`ServerRun`), then answered as "old" (`ServerRepeat`), as `Session` shows; after a restart
  it is new again. Copies of a program's *earlier* requests are left to `Session`.
- `ServerRestart` in order (`"stop"`: SIGTERM, or the end of an inetd server that has been idle) closes the cache; a
  `"crash"` loses what is buffered. `"full"` lets one request meet a full disk.
- A `FILE` that is used after it was closed gives nothing, or a block of another open file. It sets
  `damaged`, after which the server takes no more steps: nothing is claimed about such a server. Since every
  grab leaves a closed `FILE` in the cache, this happens soon after a grab; what precedes it is checked.
- Empty files, resumed downloads and the time stamp of `CC_INSTALL` are left out. `get` and `grab` are the same
  program (see disagreement 6).

`StoreSpec` is what a name promises: from one whole version to the next in a step, and none twice.

## 3. The runs

| run | result | question |
|---|---|---|
| `session_safety` | holds, 236,906 states | two programs, one after the other, two requests; one duplicate, one damaged request, any loss and delay |
| `session_live` | holds, 407,311 states | does every call return, with damage or a restart, errors, and blocks at other positions; sequence numbers come up again |
| `hosttable` | holds, 32,629 states | four hosts in any order, room for one at a time |
| `fifocache` | holds, 364 states | four slots, five objects, two keys |
| `transfer_safety` | holds, 1,093,140 states | three programs of two users, two slots for open files, one restart in order |
| `transfer_grab` | violated | does a grab have the whole file before the server deletes it? |
| `server` | holds, 795,973 states | two modes, two signals, one death and restart; is the rate bounded, the pid file true, an order to end obeyed? |
| `dircache_rights` | holds, 127,916 states | a home directory and two in it, two slots; are commands judged by the rights there are? |
| `dircache_lists` | holds, 362,803 states | the same with listings, one slot for them; is what is listed there? |
| `dircache_rename` | violated | does a rename stay in its directory? |
| `keylock` | holds, 201,571 states | three programs, one of them `fbye`, one killed; all five variants |
| `pure` | holds, 116,865 states | paths of up to five characters, lines of up to three fields, all rights and passwords, listings of up to three names that change after any number of requests, files of two lines |

**Properties of Session.** `AtMostOncePerSession`: no request is run twice within a session of the server.
`AckImpliesRun`: a success is only told about a request that ran (a repetition of it is answered
without running anything). `KeyAgreement`: without a fault, the program's key is always one of the
two the server knows, so a lost reply costs a retransmission and not the 60 s of `session_timeout`.
`NeverPreviousReply`: a late reply is never taken for the reply to the next call.
`Answered`: every call returns or its program ends, but for one about a block at a position other than 0 that the server refuses for ever: the
refusal is discarded (disagreement 3). Without that exception the same run finds the call that is refused, discards the refusal and repeats.

**Properties of Transfer.** `UploadTracked`: during an upload the temporary file is the version up to the block asked
for, whatever was repeated, restarted, thrown out of the cache or left over on the port. `AckPublished`: a put that
was told of success, and none of whose requests failed, was under the name, whole. (When a request fails and its
error is lost or ignored, the repetition is answered with success; the property leaves that out because the code does
it.) `ReadsWhole`: blocks of two versions are not mixed while the file stays open, because installing makes a new file.
`OnlyOneGrab`: a version is handed to one user. `StoreRefined`: the name goes from whole version to whole version.

**Properties of ServerLoop.** `RateBounded`: in `THCCOUNT` seconds as they pass no more is sent than twice the setting and two
replies. `PidFileTrue`: outside inetd the file names the server while it runs and goes with it. `NoSleepOnOrder`: the server does not
call `select()` with an order to end pending, but for an order that came in the window before the call, or together with SIGUSR1 (`Top` looks at
one flag only). `OrderObeyed`: an order is obeyed in the end, but for a server that sleeps with no packet to wake
it, having missed the signal, or waits for ever for its average (disagreement 4).

**Properties of DirCache.** `RightsKnown`: commands are judged by the rights a directory has, or had at a check less than
`stat_cache_timeout` ago. `ListingKnown`: the same of a listing handed out. Both except a change in the very second by whose
number the entry or the listing is known, and masked entries; a listing also when another directory has taken the
place of the one listed. A directory that is gone is no exception: it is used until the next check only. `NoCrossRename` is violated.

**Properties of KeyLock.** `OneHolder`: one program at a time is between its request and the answer.
`LastKeyUsed`: its request carries the key the host was given last. One exception: when the program answered last was killed, or
gave up, before it stored the key, nobody has the new one, and the next request carries the key of the request that was answered.
The server takes that for a repetition and gives the key once more (`Session`'s `ServerRetry`; disagreement 15), unless
that request was `fbye`'s, which ends the session. `NobodyStuck`: no program waits for a lock whose
holder is gone, but for one whose semaphore was never given a value because its creator was killed.

**Properties of Pure.** `PathMeant`: the path a client makes is the one meant, and the server finds in it the directory, the file
and the password. `PathGuarded`: whatever is sent, no component begins with a dot or backslash and the rights looked at are those of the
directory named. `AddressFound`: a table has the addresses its line denotes. `RightsProved`: owner's rights need the table and
the password; a wrong password never gains anything. `ListingRead`: a client reads the names there are. `ListingMixed`: when the
listing changes under it, after whatever number of requests, it comes to an end, with names of the old and then of the new one, but for
a listing shorter than a block that grows between the first reply and the second request (disagreement 14). `StartsSane`: a server that
starts can take uploads if it says so and has settings within their limits. Exceptions are named at each; they are disagreements 9 to 12 and 14.

**Bounds.** Two requests are enough for a request to meet the one before it, which is all that two
keys can confuse; two programs, for a session taken over. Timeouts keep their order (`RetryTimeout` 1 <
`SessionTimeout` 2) and datagrams live long enough to arrive after either has passed in part.
The server draws among five interchangeable keys and never runs out of unused ones at these bounds; the safety
run makes them a symmetry set, the liveness runs instead draw the least unused one (`LeastOf`), of keys and of
sequence numbers, and have no symmetry. They have positions 0 and 1, and requests that succeed and that are refused. In `hosttable` a growth step of 1 above the sentinels makes the table grow at every size, and
four hosts give intervals of every kind. In `fifocache` there is one object more than slots, so a leak
shows. In `transfer_safety` files are two blocks long, so that an upload has a
first, a last and a buffered block; two slots make every third open file throw one out (the server has at least ten);
three programs give a put that meets what a put before it left, and a reader or a grab beside them; `MaxFaults` is 1.
In `server` two buckets stand for ten; a limit of 1 and replies of 1 and 4 give averages below,
at and above it; two signals are one of each kind or the same one twice. In `dircache_*` two slots and three directories
make the third look-up throw one out. In `dircache_rights` `stat_cache_timeout` is 1 and there are two seconds, so an entry is fresh
in its own and checked in the next; in `dircache_lists` it is 2 and there are three, so an entry is fresh, just stale, and
loaded anew; `MaxVersion` gives one change that hides another, as a change of flag files by `CC_SET_PRO` is not counted. Longer histories are
the theorems' part: a directory that is renamed away, changed in the second of its entry's mtime, replaced and renamed back takes
more changes than the runs have. In `keylock` two programs race and the third
comes when one has gone or removed the key; three answers are enough for a key to be stale, and one kill for it to be lost. In `pure` octets go to 2, so
that a range has an end below, inside and above; packets of 64 and 66 bytes and names of 2, 30 and 50 fill blocks exactly, nearly, and not at all; a directory of three names has up to three blocks, and changes after none to five requests.

**Fairness.** `Session!FairSpec`: time passes; a waiting client repeats (its `select` times out); and the network is
fair in that of a request repeated for ever some copy arrives, and so does a reply among those the server
goes on sending: strong fairness, because each copy may be lost. Nothing is assumed about what an arrival
leads to: that the server takes it is the code's doing. `HostTable!FairSpec`: sequential code runs on.
`ServerLoop!SFairSpec`: the server process runs; packets, signals and timeouts come or do not.
`KeyLock!FairSpec`: a program that has started goes on, a request is answered or given up after `env_timeout`, and the kernel
serves those who wait for a lock in turn (weak fairness for each program: a lock that stays free long enough is got).

**Disagreements found.** The first two are runs; the others were met while modelling and are in the models as the code
has them, or left out as said.

1. `transfer_grab`: the handler of `CC_GRAB_FILE` closes a `FILE` that stays in the cache (`server/server.c:858`);
   later blocks are read from it.
2. `dircache_rename`: `CC_RENAME` keeps a pointer to the source's `DIRINFO` while the target is validated
   (`server/server.c:927`). When the target takes the source's slot the two are equal and the file is renamed into the other directory.
3. `send_error()` writes position 0 into the reply (`server/server.c:160`), and
   `client_interact()` drops a reply to a block command whose position is not the request's
   (`client/lib.c:206`), errors included; `doc/PROTOCOL:202-203` says otherwise. The client repeats until its timeout, if it has one:
   the exception `Answered` makes.
4. The loop that waits for the average never reads the clock (`server/server.c:373`), so the average does
   not change and the server sleeps for ever (`fspd.conf:156-157` promises a limit).
5. `server_install()` unlinks the target before it looks for the temporary file
   (`server/file.c:933`). Repeated after a restart it deletes what it installed (`man/fspd.1:182-184`).
6. `#ifdef COMMAND_GET` tests a variable (`clients/fspcmd_get.c:104`), so `fspcmd get` grabs (`man/fgetcmd.1:25-27`).
7. The result of `fclose()` is ignored (`server/file.c:67`, `371`), so a file truncated by a full disk is
   installed with success (`ChangeLog:532`).
8. `lock.c`: a semaphore exists before it has its value (`client/lock.c:371-376`); a creator killed in between leaves a lock nobody gets, and one that
   is only slow writes its own key over one another program was given (`client/lock.c:381`, against `doc/fsp-faq.sgml:713` and `ChangeLog:272-273`).
9. `statcache_timeout` sets `session_timeout`, without a bound (`server/conf.c:198-201`, against `fspd.conf:104-106`); after
   a `conf` line the rest of a file is not read (`conf.c:108-110`).
10. A path with two slashes has the rights of another directory looked at (`server/file.c:253-258`); a path that ends with a slash is
    sent without the password (`client/util.c:64`).
11. A `packetsize` that is not a multiple of four lets an entry be padded beyond the block (`server/file.c:448-475`); an empty `.FSP_CONTENT`
    makes a client read for ever (`client/util.c:168-189`).
12. `add_ipline()` reallocates the first table when the second grows (`server/iprange.c:277`); `parse_hostname()` takes octets in the order of
    the machine.
13. `CC_SET_PRO` on a directory that has vanished writes its rights into the home directory (`server/file.c:779`).
14. A client asks a second time for a listing whose first reply was shorter than a block, at a position that is no multiple of
    one (`client/util.c:168-189`). If the directory has grown since, the answer is "Invalid directory seek offset"
    (`server/server.c:578-580`), which is discarded as in 3: the reading does not end, or the client times out.
15. A program that ends between the server's answer and `client_set_key()` (`client/lib.c:223`) leaves the old key to the next one, whose first
    request is then taken for a repetition (`server/server.c:273-280`): a command under `if(!old)` is answered with success and not run.

## 4. The proofs

All hold for every value of the constants under the named assumptions of the modules, which TLC evaluates in
every run. Each theorem is reached from an inductive invariant, given first.

- `SessionProofs`: `TypeCorrect` and `AtMostOnce`. At-most-once is not inductive. `SessionInv` adds that
  every request in flight or run carries a number already given out, and that the key of a request that ran is spent: it is
  not `next_key`, so that within the session its copies can only pass as repetitions. That a fresh key differs from all in flight
  (`FreshKeyUnused`) is what keeps it so. Restarts and damaged packets start a new session, for which nothing is claimed.
  There too, `LateReplyDiscarded`. `SeqsTell`: all in flight about the present call carries its sequence number, all about
  the call before another one. It holds with sequence numbers that are drawn again (`SeqsRepeat`), which is why the theorem
  speaks of the call before and of no older one.
  And `SuccessMeansRun`, for a server without faults and sequence numbers not drawn again in flight (`Calm`).
  `AckInv` says that whatever carries `last_key` has run (`RetryRan`), that a key names one request (`OneIdPerKey`), and that each key a program may
  use for its next call, the one it has and those offered by replies, is neither `last_key` nor on a request in flight
  (`NextCall`, `ThisCall`). A damaged packet can break that: it sets `next_key` to what it carries. `SuccessDespiteDamage` has the same
  property with damaged packets from `RpcInv`, below.
  `KeysAgree` and `SessionImplementsRpc` assume `Timely`: a datagram lives less than `session_timeout`, and no sequence number still in
  flight is drawn again. Neither can be dropped: a datagram that outlives `session_timeout` opens a session with an old key, and a
  reply to an old call with the present number would be taken for the answer. For `KeyAgreement`, `FirstInv` describes the first program of
  the host: nothing runs before its first request; then either its key is `next_key` and its present call has not run (`Unrun`), or its key is
  `last_key`, the call has run and each reply offers `next_key` (`Ran`). What keeps it so is age: a request with a key that is none of the two
  is at least as old as what the server heard last (`Known`), so none is left when silence would let it override the session.
  `SessionImplementsRpc`, that `Session` implements `RpcSpec`, also assumes that the server is not restarted (`Steady`), which forgets what has run;
  damaged packets are allowed. `RpcInv` extends the argument to every program, whoever had the address before it. As long as none of
  its calls has run, only its present request can be news (`Unknown`). From its first run on the session is `Fenced`: `next_key` is
  on no request but the present one, and all but copies of the last one and the present one, replies too, are at least as
  old as what the server heard last. Then a damaged packet can set `next_key` only once the network is empty of anything but these. A call is
  at any time not run and not answered (`Before`) or run once with each answer offering `next_key` (`After`), and a call returns only in the second state.
- `HostTableProofs`: `TableTypeCorrect`, `AlwaysSorted`, `NeverPastRoom`, `ReturnsOwnEntry`, and `TableRefinesMap`, that the table implements `HostMap`.
  The strengthening is `Bracket`, the
  address lies strictly between the ends of the interval; when the interval has no inside (`MiddleInside`) the
  new entry goes between its ends. For the refinement `MapTable` reads the map off the table: being sorted, no two entries
  stand for the same host, so an entry may move without its record being lost.
- `FifoCacheProofs`: `FifoTypeCorrect`, `NoLeakNoDoubleFree`, `PutEvictsOldest`, and `RingRefinesWindow`, that the ring implements `FifoSpec`.
  Eviction needs the ages of all slots (`Ages`): behind `next` those of this round, from `next` on those of the round before,
  if there was one. The refinement needs that a ring not yet full fills from slot 0 (`FillsInOrder`).
- `ServerLoopProofs`: `OrdersBeforeSleep` and `PidFileNamesServer`. `ControlInv` adds where an order may still be
  unseen (`OrdersSeen`) and who is named by the file at each `pc` (`PidWritten`).
  And `RateIsBounded`, by `RateInv`. The ring never holds more than one allowance and one reply (`Bound`), because a reply is sent only when the
  average allows it. What was really sent in the last `k` seconds is booked in buckets no older, but for what replies to hosts not served
  booked at an old clock reading: that is all in one bucket, hence once more `Bound` (`AllBooked`). What was sent since the second of the last reading is in
  the bucket of that reading (`SinceReading`). Sums are recursive functions of the number of buckets; what is needed of them (a bucket
  more, the ring shifted, a bucket increased) is proved by induction, as in `PureProofs`.
- `KeyLockProofs`: `LockKeepsApart`. `LockInv` has, for the variants that lock a file, that everybody past `Open` has the file
  the name stands for (`FileInv`); for the semaphore, that its value is 0 while a program waits
  for an answer, that the kernel would take it back from exactly who waits, and that a program initialising it is alone with it (`SemInv`). That a new inode or identifier is one nobody has (`Fresh`) is
  counted: there are as many numbers as programs.
  And `LastKeyInRequest`. `KeyInv`: the cell all use (`Cell`) has the last key the server gave, or the key of the request it answered
  last as long as the answer is to be stored or is lost (`Pending`), and who waits for an answer sent what the cell has; nothing was given
  before there is a cell, or while a program initialises it.
  And `TypesHold`, in all five variants, also after removals and races. Its bounds are sums over the programs, kept as cardinalities (`Tally`): the counter of
  semaphores that exist is the number of programs counted by them (`CountAt`); the value of the lock and the programs the kernel would give it back for are at most
  one more than the programs that gave it back twice or are gone (`ValAt`), `SETVAL` clears what is owed, and the kernel never takes the value below 0.
  Numbers suffice because segment and semaphores are always made of the same inode (`OneInode`), and what is being removed is not made again while a
  program still has it (`Removed`).
- `TransferProofs`: `TypesHold`, `UploadsTracked`, `AcksPublished`, `WholeRead`, `OneGrab`, and `TransferRefinesStore`, that the file
  commands and their programs implement `StoreSpec`. They assume `Orderly`: the disk has room and the server is ended in order, by SIGTERM
  or when idle. This is the assumption of the run, and it cannot be dropped: a crash loses what `fclose()` would have written and a full
  disk what it fails to write (disagreement 7), so that a put is told of success and the name has a part of a file. All else is open:
  any users, jobs, restarts, lengths, sizes of cache and buffers.
  Its lemmas on `FileStore`, one per file command, are about what users see of the server's state: what a temporary file will hold when it is
  closed (`Holds`), what is under a name (`Shows`), and what is open for a reader (`Reads`). They rest on `Sound`: no two names of one file, no two slots
  of one key, an open upload is the file under its temporary name, an open reader's file never is, and a `FILE` of a grab is closed with nothing
  buffered. Throwing an entry out of the cache, closing all of it and reclaiming files are then steps nobody sees (`Quiet`).
  `IInv` is inductive over that. Numbers name versions, and no two programs put the same one (`Numbered`). No two names show the
  same version, and what is shown or read was published (`NamesKnown`, `ReadsKnown`). Of each put, `PutOK` relates position, whether the request has run, by this server or
  the one before (`Done`), and temporary file: it holds the blocks up to the position, or one more; once all are sent it is the whole version or
  gone, and gone means published. The case that needs it is a restart between an `INSTALL` and its repetition. `CatOK` has what a reader got be a
  prefix of the file open for it, `HandedOK` a version handed to a grab be under no name but that grab's. `OneGrab` follows as an
  invariant of its own: who is handed a version has it under his `.G` name, so nobody else was.
- `DirCacheProofs`: `Invariance`, `TypesHold`, `RightsAreKnown`, and `ListingsAreKnown`, with no assumption but `DirCacheAssumption`.
  `RightsKnown` speaks of the directory now at the path, and a step can put another one there, with entries, listings and
  `.FSP_CONTENT` of both still about. So `IInv` speaks of directories by their marks (`of`) wherever they are: what exists has a mark nothing else has and its mtime is
  not before its last changes (`World`); a listing or `.FSP_CONTENT` that differs from the directory it is of was built no later than
  that changed (`Shows`); an entry not masked, whose rights differ from those of its directory, has an mtime no later than that change, and
  one that missed nothing is of the directory at its path, with its rights, or its mtime is the second they changed (`Tells`).
  What a command does to directories is one of few forms: some stay and age (`Heir`), one is new (`New`), two change names. `Follows`
  gathers them, and `StepKeeps` is proved once for all; what `validate_path()` makes of a cache (`ValidatedIs`) likewise.

- `PureProofs`: each property of `Pure`. The functions are recursive functions, so a value exists only if one shows that the equations have a
  solution: `Iterated` builds one round after round for a loop that stays within a set, `Kept` carries an invariant of the loop along it, and both rest on
  `Induction`, which is had from a least counterexample (well-foundedness of the natural numbers). So the theorems hold for arguments,
  paths, listings and files of every length, octets to any `MaxOctet`, and any packet size that holds an entry's header.
  `RightsAreProved` and `AddressIsFound` are case analyses, over a directory's files and passwords and over the octets of a line. `StartsAreSane` keeps a
  configuration within bounds over the lines of a file, those of the file it names, and the options.
  `PathsAreGuarded` follows `parse_path()` along the string side by side with a walk that collects the components as they are named: whatever is not
  refused, up to each character, has no hidden component (`Seen`), and the two lengths the loop remembers are those of directory and file.
  `PathsAreMeant` has two ends. On the client's, `Going` is the invariant of the loop of `util_abs_path()`: behind the position the path has no
  double slash, no "." and no "..", and with these done away with it still leads to what is meant. Taking a
  component back or dropping a detour keeps that (`DetourCut`); each round makes the rest of the path shorter (`Left`), so the loop
  ends, with the path meant (`Made`). On the server's, the password after the line feed is taken off (`PasswordIs`), a path with a hidden
  component is refused (`RefusedHidden`), and of one without double slashes directory and file are found whole (`ParsedMeant`).
  `ListingsAreRead` and `ListingsAreMixed` also have two ends. `build_dir_listing()` keeps `Filling`: the blocks closed are full, each shows its share of the
  names, and the one at work on shows the names since; so what it returns is `Formed`, or was written beyond a block, which does not happen as long as
  all that is written is a multiple of four that fits. `get_dir_blk()` keeps `RI`: of two `Formed` listings, the first asked for the first `k` requests, it
  has received the first `a` blocks, the `i`-th with its `i`-th request, and read `p` of them, its counters say where the `a`-th ends, and its names
  are those of the old listing up to the block where it changed and of the new one from there. Each round of its loops increases `Rank`, which
  the number of blocks bounds, so it ends: with a block that has an end, or at a listing that has become shorter than what was read. It comes to
  a position that is no multiple of the block size only after a first block that was the last (`AnswerShort`): the answer is empty, or the
  listing has grown in between (`Grows`) and each further round leaves the reader as it is (`Stuck`).

Only model-checked: liveness (`Answered`, `SearchEnds`, `OrderObeyed`, `NobodyStuck`), out of the prover's reach.
Every other property of a passing run is proved, under the assumptions named above: `Calm`, `Timely` or `Steady` for three of
`Session`, `Orderly` for `Transfer`, and none but those on the constants for the rest. The run `session_safety` satisfies `Timely`
and `Steady`. With restarts nothing is claimed of success: a restarted server has forgotten what ran.

## 5. Not modelled, and why

- `fspscan`: one request and a wait a host; nothing it keeps goes beyond `Session`.
- Retransmission delays of `client_interact()`: they decide when a request is repeated. `Session` lets a client repeat at any time
  after the least delay, which contains every schedule.
- `server/log.c`, the system call wrappers of `common/`: output and calls.
- `bsd_src/`: BSD `ls`, `find` and `glob`, adapted to the client library.
- `util_stat()`, `util_cd()` and `util_process_file()`, and the programs that are loops over one command: sequential code over calls
  modelled in `Session`.
- `symlinks` and `homedir_restricted`: what the file system resolves.

## 6. What is left

`KeyLock` composed with `Session`, programs at the same time instead of one after the other.
