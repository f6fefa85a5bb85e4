------------------------------ MODULE Session ------------------------------
(***************************************************************************)
(* The request/reply protocol between one client host and the server:      *)
(* client_interact() of client/lib.c against server_loop() and the key     *)
(* handling of server_process_packet() of server/server.c.                 *)
(*                                                                         *)
(* The network loses, duplicates, delays and reorders datagrams; a         *)
(* datagram lives at most Lifetime seconds.  Time is discrete (seconds, as *)
(* time() gives them to the server) and kept as ages: a packet's age, the  *)
(* seconds since the host entry was last accessed, the seconds since the   *)
(* client last sent.  Ages stop at the largest value a guard compares      *)
(* them with.                                                              *)
(*                                                                         *)
(* Client processes of the host follow one another; a process that has     *)
(* ended may leave datagrams behind.                                       *)
(***************************************************************************)
EXTENDS Integers, FiniteSets

CONSTANTS
    Keys,            \* the 16-bit keys
    ZeroKey,         \* the key in a fresh (zeroed) host entry
    SeqNums,         \* values of bb_seq without its three retry bits
    Draw(_),         \* Draw(S): what random() may draw from S
    SeqsRepeat,      \* may a sequence number still in flight be drawn again?
    Cmds,            \* subset of {"read", "write"}: what the programs ask for
    Positions,       \* subset of {0, 1}: bb_pos zero, or not
    Results,         \* subset of {"ok", "err"}: how commands may end
    RetryTimeout,    \* server's retry_timeout  (3 s)
    SessionTimeout,  \* server's session_timeout (60 s)
    Lifetime,        \* the longest a datagram stays in the network
    MaxId,           \* bound: requests made
    MaxOpens,        \* bound: client processes started
    MaxDups,         \* bound: datagrams the network duplicates
    Faults,          \* subset of {"damage", "restart"}: what else may go wrong
    MaxFaults        \* bound: how often it does

ASSUME SessionAssumption ==
    /\ ZeroKey \in Keys /\ SeqNums # {}
    /\ RetryTimeout \in Nat \ {0}
    /\ SessionTimeout \in Nat \ {0}
    /\ Lifetime \in Nat
    /\ MaxId \in Nat /\ MaxOpens \in Nat /\ MaxDups \in Nat /\ MaxFaults \in Nat
    /\ Faults \subseteq {"damage", "restart"}
    /\ SeqsRepeat \in BOOLEAN
    /\ Cmds \subseteq {"read", "write"}
    /\ Positions \subseteq {0, 1}
    /\ Results \subseteq {"ok", "err"}
    /\ \A S \in (SUBSET Keys) \cup (SUBSET SeqNums) : Draw(S) \subseteq S

VARIABLES
    host,     \* the HTAB entry of the client's address
    client,   \* the client process: key, myseq and the call in progress
    net,      \* the datagrams in flight
    ran,      \* requests run in the server's present session (history)
    twice,    \* requests run twice in one server session (history)
    runs,     \* runs[i]: how often request i was run, up to 2 (history)
    count     \* how much of each bound is used up

vars == <<host, client, net, ran, twice, runs, count>>
hist == <<ran, twice, runs>>

Ids == 1..MaxId
Min2(n) == IF n > 2 THEN 2 ELSE n

Hosts == [active : BOOLEAN, next_key : Keys, last_key : Keys, idle : 0..SessionTimeout]

(***************************************************************************)
(* A datagram.  "id" is the request it belongs to: no field of the packet, *)
(* it is there for the properties.  cmd of a reply is the command echoed,  *)
(* or "err" (CC_ERR).                                                      *)
(***************************************************************************)
Packets == [to : {"server", "client"}, key : Keys, seq : SeqNums, id : Ids,
            cmd : {"read", "write", "bye", "err"}, pos : {0, 1}, age : 0..Lifetime]

Clients == [st : {"off", "idle", "wait"}, key : Keys, seq : SeqNums,
            id : 0..MaxId, cmd : {"none", "read", "write", "bye"}, pos : {0, 1},
            waited : 0..1,         \* has w_delay (at least MIN_DELAY, 1 s) passed?
            result : {"none", "ok", "err"},  \* cmd of the reply returned
            from : 0..MaxId,       \* the request that reply answers (history)
            base : 0..MaxId]       \* requests made by earlier processes (history)

Counts == [id : 0..MaxId, opens : 0..MaxOpens, dups : 0..MaxDups, faults : 0..MaxFaults]

(* Faulty variant: the entry is not zeroed. *)
NewHost_NotZeroed == [active |-> FALSE, next_key |-> ZeroKey, last_key |-> ZeroKey,
                      idle |-> SessionTimeout + 1]

(* A zeroed entry: last_acc = 0 is long ago. *)
NewHost == [active |-> FALSE, next_key |-> ZeroKey, last_key |-> ZeroKey,
            idle |-> SessionTimeout]

(* The keys that can still matter: the server's two, the client's, those of *)
(* requests in flight and of replies whose key the client may go on with.   *)
Matters(p) == p.to = "server" \/ (p.id = client.id /\ p.cmd # "bye")
KeysInUse == {host.next_key, host.last_key, client.key}
                \cup {p.key : p \in {q \in net : Matters(q)}}

(* Faulty variant: the key is not renewed. *)
GenNextKey_Same == {host.next_key}

(***************************************************************************)
(* gen_next_key() draws 16 random bits and a program starts from its       *)
(* process id.  The model draws a key that nobody uses at the moment: a    *)
(* collision (one in 65536) is excluded.                                   *)
(***************************************************************************)
GenNextKey == Draw(Keys \ KeysInUse)

(* No client process. *)
NoClient == [st |-> "off", key |-> ZeroKey, seq |-> CHOOSE s \in SeqNums : TRUE, id |-> 0,
             cmd |-> "none", pos |-> 0, waited |-> 0, result |-> "none", from |-> 0,
             base |-> 0]

Init == /\ host = NewHost
        /\ client = NoClient
        /\ net = {}
        /\ ran = {} /\ twice = {}
        /\ runs = [i \in Ids |-> 0]
        /\ count = [id |-> 0, opens |-> 0, dups |-> 0, faults |-> 0]

-----------------------------------------------------------------------------
(* The server. *)

(* Faulty variant: after SessionTimeout a repetition counts as news. *)
TakesNew_Repeats(k) == host.next_key = k \/ ~host.active \/ host.idle >= SessionTimeout

(* Faulty variant: a session once begun is never overridden. *)
TakesNew_Never(k) == host.next_key = k \/ ~host.active

(* A request with key k passes the key check as a new one ... *)
TakesNew(k) == \/ host.next_key = k
               \/ ~host.active
               \/ host.last_key # k /\ host.idle >= SessionTimeout

(* ... or as a repetition of the last one ("old"). *)
TakesRetry(k) == /\ host.next_key # k
                 /\ host.active
                 /\ host.last_key = k
                 /\ host.idle >= RetryTimeout

(* Taking k begins a session: after BYE or a restart, or by overriding a   *)
(* session that was silent for SessionTimeout.                             *)
Begins(k) == ~host.active \/ host.next_key # k

(* One of the bounded faults happens. *)
Fault(kind) == /\ kind \in Faults
               /\ count.faults < MaxFaults
               /\ count' = [count EXCEPT !.faults = @ + 1]

Reply(m, key, out) ==
    [to |-> "client", key |-> key, seq |-> m.seq, id |-> m.id,
     cmd |-> IF out = "err" THEN "err" ELSE m.cmd,
     pos |-> IF out = "err" THEN 0 ELSE m.pos,           \* send_error() writes 0
     age |-> 0]

(* Receiving m leaves "rest" in the network: a duplicate of m may remain. *)
Received(m, rest) == \/ rest = net \ {m} /\ UNCHANGED count
                     \/ /\ count.dups < MaxDups
                        /\ rest = net
                        /\ count' = [count EXCEPT !.dups = @ + 1]

(* A command is refused or fails, or not; BYE does not fail.  (A command    *)
(* refused in silence is one whose reply is lost.)                         *)
Outcomes(cmd) == IF cmd = "bye" THEN {"ok"} ELSE Results

(* Faulty variant: last_key is left alone. *)
Renewed_Forgets(m, key) == [host EXCEPT !.active = m.cmd # "bye", !.next_key = key, !.idle = 0]

(* The entry after a new request: the key it used becomes last_key.  A BYE *)
(* ends the session.                                                       *)
Renewed(m, key) == [active |-> m.cmd # "bye", next_key |-> key, last_key |-> m.key, idle |-> 0]

(* A new request is run and answered with a new key. *)
ServerRun(m) ==
    /\ TakesNew(m.key)
    /\ \E rest \in {net, net \ {m}}, key \in GenNextKey, out \in Outcomes(m.cmd) :
         /\ Received(m, rest)
         /\ host' = Renewed(m, key)
         /\ net' = rest \cup {Reply(m, key, out)}
    /\ ran' = (IF Begins(m.key) THEN {} ELSE ran) \cup {m.id}
    /\ twice' = IF ~Begins(m.key) /\ m.id \in ran THEN twice \cup {m.id} ELSE twice
    /\ runs' = [runs EXCEPT ![m.id] = Min2(@ + 1)]
    /\ UNCHANGED client

(* "if(!old)": a repeated request that changes files is not run and is     *)
(* answered with success, or with an error where the checks before the     *)
(* command are made again; one that only reads is run again.               *)
RetryOutcomes(cmd) == IF cmd = "write" THEN {"ok"} \cup Results ELSE Outcomes(cmd)

ServerRetry(m) ==
    /\ TakesRetry(m.key)
    /\ host' = [host EXCEPT !.active = (m.cmd # "bye"), !.idle = 0]
    /\ \E rest \in {net, net \ {m}}, out \in RetryOutcomes(m.cmd) :
         /\ Received(m, rest)
         /\ net' = rest \cup {Reply(m, host.next_key, out)}
    /\ UNCHANGED <<client, hist>>

(* Too early a repetition, or a key of no session: no answer. *)
ServerDrop(m) ==
    /\ ~TakesNew(m.key) /\ ~TakesRetry(m.key)
    /\ net' = net \ {m}
    /\ UNCHANGED <<host, client, hist, count>>

(* Faulty variant: the keys advance before the checksum is looked at. *)
Touched_Advances(k) == [host EXCEPT !.active = TRUE, !.idle = 0, !.last_key = k]

(***************************************************************************)
(* A damaged request, its key possibly damaged too.  The checksum is       *)
(* looked at only after the entry has been brought up to date.             *)
(***************************************************************************)
Touched(k) == [host EXCEPT !.active = TRUE, !.idle = 0,
                           !.next_key = IF TakesNew(k) THEN k ELSE @]

ServerChecksumError(m) ==
    /\ Fault("damage")
    /\ \E k \in Keys : /\ TakesNew(k) \/ TakesRetry(k)
                       /\ host' = Touched(k)
                       /\ ran' = IF TakesNew(k) /\ Begins(k) THEN {} ELSE ran
    /\ net' = net \ {m}
    /\ UNCHANGED <<client, twice, runs>>

ServerReceive(m) == /\ m.to = "server"
                    /\ ServerRun(m) \/ ServerRetry(m) \/ ServerDrop(m)

(* The host table lives in memory only. *)
ServerRestart ==
    /\ Fault("restart")
    /\ host' = NewHost
    /\ ran' = {}
    /\ UNCHANGED <<client, net, twice, runs>>

-----------------------------------------------------------------------------
(* The client. *)

(* init_client(): a key and a sequence number of its own. *)
ClientOpen ==
    /\ client.st = "off"
    /\ count.opens < MaxOpens
    /\ \E k \in GenNextKey, s \in Draw(SeqNums) :
         client' = [client EXCEPT !.st = "idle", !.key = k, !.seq = s, !.cmd = "none",
                                  !.result = "none", !.from = 0, !.base = count.id]
    /\ count' = [count EXCEPT !.opens = @ + 1]
    /\ UNCHANGED <<host, net, hist>>

(* The request as it is on the wire; a repetition is the same packet but   *)
(* for the three bits that no one compares.                                *)
Request == [to |-> "server", key |-> client.key, seq |-> client.seq, id |-> client.id,
            cmd |-> client.cmd, pos |-> client.pos, age |-> 0]

(* Faulty variant: any random number will do. *)
NextSeqs_Any == Draw({s \in SeqNums : SeqsRepeat \/ \A p \in net : p.seq # s})

(* "if (u == myseq) myseq ^= 0x1080": never the number used last. *)
NextSeqs == Draw({s \in SeqNums : /\ s # client.seq
                                  /\ SeqsRepeat \/ \A p \in net : p.seq # s})

StartCall(cmd, pos) ==
    /\ client.st = "idle"
    /\ count.id < MaxId
    /\ \E s \in NextSeqs :
         client' = [client EXCEPT !.st = "wait", !.seq = s, !.id = count.id + 1, !.cmd = cmd,
                                  !.pos = pos, !.waited = 0, !.result = "none", !.from = 0]
    /\ net' = net \cup {Request'}
    /\ count' = [count EXCEPT !.id = @ + 1]
    /\ UNCHANGED <<host, hist>>

ClientCall == \E cmd \in Cmds, pos \in Positions : StartCall(cmd, pos)

(* client_done(): CC_BYE. *)
ClientBye == StartCall("bye", 0)

ClientResend ==
    /\ client.st = "wait" /\ client.waited = 1
    /\ net' = net \cup {Request}
    /\ client' = [client EXCEPT !.waited = 0]
    /\ UNCHANGED <<host, hist, count>>

(* Sequence number, command and position of a reply are compared with the *)
(* request's (the position for the commands that transfer blocks).         *)
Accepts(m) == /\ m.seq = client.seq
              /\ m.cmd \in {client.cmd, "err"}
              /\ m.pos = client.pos

ClientAccept(m) ==
    /\ Accepts(m)
    /\ client' = IF client.cmd = "bye"
                 THEN NoClient
                 ELSE [client EXCEPT !.st = "idle", !.key = m.key, !.waited = 0, !.from = m.id,
                                     !.result = IF m.cmd = "err" THEN "err" ELSE "ok"]
    /\ \E rest \in {net, net \ {m}} : Received(m, rest) /\ net' = rest

ClientDiscard(m) ==
    /\ ~Accepts(m)
    /\ net' = net \ {m}
    /\ UNCHANGED <<client, count>>

ClientReceive(m) ==
    /\ m.to = "client" /\ client.st = "wait"
    /\ ClientAccept(m) \/ ClientDiscard(m)
    /\ UNCHANGED <<host, hist>>

(* The process ends without BYE: killed, interrupted, or out of patience   *)
(* ("Remote server not responding").                                       *)
ClientQuit ==
    /\ client.st # "off"
    /\ client' = NoClient
    /\ UNCHANGED <<host, net, hist, count>>

-----------------------------------------------------------------------------
(* A second passes. *)
Tick == /\ host' = [host EXCEPT !.idle = IF @ < SessionTimeout THEN @ + 1 ELSE @]
        /\ client' = [client EXCEPT !.waited = IF client.st = "wait" THEN 1 ELSE @]
        /\ net' = {[p EXCEPT !.age = @ + 1] : p \in {q \in net : q.age < Lifetime}}
        /\ UNCHANGED <<hist, count>>

Next == \/ \E m \in net : ServerReceive(m) \/ ClientReceive(m)
        \/ \E m \in net : m.to = "server" /\ ServerChecksumError(m)
        \/ ServerRestart
        \/ ClientOpen \/ ClientCall \/ ClientBye \/ ClientResend \/ ClientQuit
        \/ Tick

Spec == Init /\ [][Next]_vars

(***************************************************************************)
(* Fairness: time passes, a waiting client resends, and the network is     *)
(* fair: of a request sent again and again copies arrive, and so do        *)
(* replies to it.  What the server and the client do with an arrival is    *)
(* up to the code.                                                         *)
(***************************************************************************)
RequestArrives == \E m \in net : m.id = client.id /\ ServerReceive(m)
ReplyArrives == \E m \in net : m.id = client.id /\ ClientReceive(m)

FairSpec == /\ Spec
            /\ WF_vars(Tick) /\ WF_vars(ClientResend)
            /\ SF_vars(RequestArrives) /\ SF_vars(ReplyArrives)
-----------------------------------------------------------------------------
TypeOK == /\ host \in Hosts
          /\ client \in Clients
          /\ net \subseteq Packets
          /\ ran \subseteq Ids /\ twice \subseteq Ids
          /\ runs \in [Ids -> 0..2]
          /\ count \in Counts

(* A program that has not yet begun to say goodbye. *)
InSession == client.st # "off" /\ client.cmd # "bye"

(* Within one server session no request is run twice, however often it is  *)
(* sent, duplicated or delayed: last_key tells a repetition from news.     *)
AtMostOncePerSession == twice = {}

(* A success the client is told is about a request the server did run:     *)
(* the "old" branch answers success without running anything, and must     *)
(* only ever do so for a request that ran before.                          *)
AckImpliesRun == client.result = "ok" => runs[client.from] >= 1

(* As long as the host's first program is in its session and nothing was   *)
(* damaged or restarted, its key is one the server takes, now or after     *)
(* retry_timeout: a lost reply never costs the 60 s of session_timeout     *)
(* (doc/HISTORY: "the client utility wait for a 1 minute timeout").        *)
KeyAgreement ==
    (/\ InSession /\ host.active
     /\ count.opens = 1 /\ count.faults = 0)
        => client.key \in {host.next_key, host.last_key}

(* The reply a call returns is never the reply to the program's call       *)
(* before it, however late it comes: client_interact() never uses the      *)
(* sequence number it used last.  (An older one may come up again.)        *)
NeverPreviousReply == client.from > client.base => client.from # client.id - 1

(* Call i has not returned; an error about it is on its way.                *)
Waits(i) == client.st = "wait" /\ client.id = i
ErrorComes(i) == \E m \in net : m.to = "client" /\ m.id = i /\ m.cmd = "err"

(* A call returns (or its program is killed), whatever got lost: neither   *)
(* retry_timeout, nor a key overwritten by a damaged packet, nor a session *)
(* left behind by a program that vanished keeps a program waiting forever. *)
(* One exception: send_error() writes position 0, so the refusal of a      *)
(* block command at another position is discarded ("wrong pos") and the    *)
(* request repeated; such a call goes on only if it is refused for ever.   *)
(* (doc/PROTOCOL: the server "MUST" send error messages back with CC_ERR.) *)
Answered ==
    \A i \in Ids : \/ Waits(i) ~> ~Waits(i)
                  \/ []<>(Waits(i) /\ client.pos # 0 /\ ErrorComes(i))

(* Session as a remote call. *)
Rpc == INSTANCE RpcSpec WITH
         open <- InSession,
         call <- IF InSession /\ client.st = "wait" THEN client.id ELSE 0,
         runs <- [i \in Ids |-> IF InSession /\ i > client.base THEN runs[i] ELSE 0]

(* Until it says BYE a program has its requests run at most once, and one  *)
(* that returned is not run again: provided the server does not restart.   *)
RpcRefined == Rpc!Spec
=============================================================================
