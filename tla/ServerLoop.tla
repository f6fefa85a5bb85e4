----------------------------- MODULE ServerLoop -----------------------------
(***************************************************************************)
(* The server as a process: its start, the pid file, the signals, the loop *)
(* around select() in server_loop(), with the throughput control of the    *)
(* replies (Throughput), and its end; started again after it has died.     *)
(*                                                                         *)
(* A signal handler runs between any two steps and sets a flag; a signal   *)
(* ends a select() the server sleeps in, not one it is about to call.      *)
(***************************************************************************)
EXTENDS Throughput

CONSTANTS
    Modes,          \* of "daemon", "foreground", "debug", "inetd"
    MaxSignals,     \* bounds on signals
    MaxDeaths       \* and on deaths of the server

ASSUME ServerLoopAssumption ==
    /\ Modes \subseteq {"daemon", "foreground", "debug", "inetd"}
    /\ MaxSignals \in Nat /\ MaxDeaths \in Nat

VARIABLES
    mode,
    pc,              \* where the server is
    dump,            \* SIGUSR1 has come
    shutdowning,     \* SIGINT or SIGTERM has come
    pidfile,         \* whom it names: "none", the "parent", the "server", one "dead"
    signals, deaths,
    raced            \* the signal to end came when the loop would not look (history)

control == <<mode, pc, dump, shutdowning, pidfile, signals, deaths, raced>>
allvars == <<vars, control>>

Loop == {"top", "dumping", "entering", "select", "served"}

SInit == /\ Init
         /\ mode \in Modes
         /\ pc = "start"
         /\ dump = FALSE /\ shutdowning = FALSE
         /\ pidfile = "none"
         /\ signals = 0 /\ deaths = 0 /\ raced = FALSE

Goes(to) == pc' = to
Keeps == UNCHANGED <<mode, dump, shutdowning, pidfile, signals, deaths, raced>>
-----------------------------------------------------------------------------
(* main() *)

(* pidfile() before the server forks; not under inetd. *)
WritePid ==
    /\ pc = "start"
    /\ Goes("unarmed")
    /\ pidfile' = CASE mode = "inetd" -> pidfile
                    [] mode = "daemon" -> "parent"
                    [] OTHER -> "server"
    /\ UNCHANGED <<vars, mode, dump, shutdowning, signals, deaths, raced>>

(* signal(), three times.  *)
Arm == /\ pc = "unarmed"
       /\ Goes(IF mode = "daemon" THEN "fork" ELSE "top")
       /\ Keeps
       /\ UNCHANGED vars

(* Faulty variant: the child leaves the pid file to its parent. *)
Fork_OnePid ==
    /\ pc = "fork"
    /\ Goes("top")
    /\ Keeps
    /\ UNCHANGED vars

(* fork(): the child is the server, and writes its own pid. *)
Fork == /\ pc = "fork"
        /\ Goes("top")
        /\ pidfile' = "server"
        /\ UNCHANGED <<vars, mode, dump, shutdowning, signals, deaths, raced>>

(* Either pidfile() cannot write: the file is removed, exit(8). *)
PidFails ==
    /\ pc \in {"start", "fork"} /\ mode # "inetd" /\ deaths < MaxDeaths
    /\ Goes("dead")
    /\ pidfile' = "none"
    /\ deaths' = deaths + 1
    /\ UNCHANGED <<vars, mode, dump, shutdowning, signals, raced>>

(* server_loop() has returned: pidfile_cleanup(), shutdown_caches(), exit. *)
End == /\ pc = "leaving"
       /\ Goes("ended")
       /\ pidfile' = "none"
       /\ UNCHANGED <<vars, mode, dump, shutdowning, signals, deaths, raced>>
-----------------------------------------------------------------------------
(* server_loop() *)

(* Faulty variant: the loop does not look at shutdowning. *)
Top_NoEnd == /\ pc = "top"
             /\ Goes(IF dump THEN "dumping" ELSE "entering")
             /\ Keeps
             /\ UNCHANGED vars

(* The flags are looked at; only one of them when dump is set. *)
Top == /\ pc = "top"
       /\ Goes(IF dump THEN "dumping" ELSE IF shutdowning THEN "leaving" ELSE "entering")
       /\ Keeps
       /\ UNCHANGED vars

(* dump_htab(), dump_iptab(), stat_caches(); dump = 0 *)
Dump == /\ pc = "dumping"
        /\ dump' = FALSE
        /\ Goes("entering")
        /\ UNCHANGED <<vars, mode, shutdowning, pidfile, signals, deaths, raced>>

Enter == /\ pc = "entering"
         /\ Goes("select")
         /\ Keeps
         /\ UNCHANGED vars

(* A packet: dropped or answered, before or after the clock is read. *)
Packet == /\ pc = "select"
          /\ Receive \/ Refuse \/ UNCHANGED vars
          /\ Goes("served")
          /\ Keeps

(* server_reply(), and once more around. *)
Reply == /\ pc = "served"
         /\ IF reply = 0 THEN UNCHANGED vars ELSE Send
         /\ Goes("top")
         /\ Keeps
Sleep == /\ pc = "served"
         /\ Wait
         /\ UNCHANGED control

(* A timeout is only set under inetd and for debugging. *)
Timeout == /\ pc = "select" /\ mode \in {"inetd", "debug"}
           /\ Goes("leaving")
           /\ Keeps
           /\ UNCHANGED vars
-----------------------------------------------------------------------------
(* Signals.  Before the handlers are there they end the process. *)

Died == /\ pc' = "dead"
        /\ pidfile' = IF pidfile \in {"server", "parent"} THEN "dead" ELSE pidfile

Woken == IF pc = "select" THEN "top" ELSE pc

(* server_interrupt() *)
Term == /\ pc \notin {"ended", "dead", "leaving"} /\ signals < MaxSignals
        /\ signals' = signals + 1
        /\ IF pc \in {"start", "unarmed"}
           THEN Died /\ UNCHANGED <<shutdowning, raced>>
           ELSE /\ Goes(Woken)
                /\ shutdowning' = TRUE
                /\ raced' = (raced \/ pc \in {"entering", "dumping"} \/ dump)
                /\ UNCHANGED pidfile
        /\ UNCHANGED <<vars, mode, dump, deaths>>

(* server_dump() *)
Usr1 == /\ pc \notin {"ended", "dead", "leaving"} /\ signals < MaxSignals
        /\ signals' = signals + 1
        /\ IF pc \in {"start", "unarmed"}
           THEN Died /\ UNCHANGED <<dump, raced>>
           ELSE /\ Goes(Woken)
                /\ dump' = TRUE
                /\ raced' = (raced \/ shutdowning)
                /\ UNCHANGED pidfile
        /\ UNCHANGED <<vars, mode, shutdowning, deaths>>

(* SIGKILL; a select() that fails, exit(7). *)
Die == /\ pc \in Loop \cup {"unarmed", "fork"} /\ deaths < MaxDeaths
       /\ Died
       /\ deaths' = deaths + 1
       /\ UNCHANGED <<vars, mode, dump, shutdowning, signals, raced>>

(* After a death the server is started once more, in any mode. *)
Again == /\ pc \in {"ended", "dead"} /\ deaths \in 1..MaxDeaths
         /\ mode' \in Modes
         /\ Goes("start")
         /\ dump' = FALSE /\ shutdowning' = FALSE /\ raced' = FALSE
         /\ thc' = [i \in Buckets |-> 0] /\ gap' = 0 /\ lag' = 0 /\ reply' = 0
         /\ sent' = [i \in Buckets |-> 0]
         /\ deaths' = MaxDeaths + 1
         /\ UNCHANGED <<pidfile, signals>>

(* A second passes where the server spends its time. *)
Second == /\ pc \in {"select", "served"}
          /\ Tick
          /\ UNCHANGED control

Server == WritePid \/ Arm \/ Fork \/ Top \/ Dump \/ Enter \/ Reply \/ Sleep \/ End
SNext == \/ Server \/ PidFails \/ Packet \/ Timeout
         \/ Term \/ Usr1 \/ Die \/ Again
         \/ Second

SSpec == SInit /\ [][SNext]_allvars

(* The server runs; packets and signals come or do not. *)
SFairSpec == SSpec /\ WF_allvars(Server)
-----------------------------------------------------------------------------
(* A server that can be stopped by its pid file is named in it; it goes    *)
(* with the server, and only one that died otherwise leaves it behind.     *)
PidFileTrue ==
    /\ pc \in Loop /\ mode # "inetd" => pidfile = "server"
    /\ pidfile = "dead" => deaths > 0 \/ signals > 0
    /\ pc = "ended" => pidfile = "none"

(* The server does not go to sleep with an order to end, unless the signal *)
(* came between the look at the flag and select(), or together with the    *)
(* other signal.                                                           *)
NoSleepOnOrder == pc = "select" /\ shutdowning => raced

(* A server ordered to end does, while packets arrive; or it sleeps with   *)
(* no packet to wake it, having missed the signal; or it waits for ever to *)
(* send a reply.                                                           *)
Asleep == pc = "select" /\ raced
Throttled == pc = "served" /\ reply # 0 /\ Total(Shifted) \div THCCOUNT > maxthcallowed
OrderObeyed == (<>shutdowning) => <>[](pc \in {"ended", "dead"} \/ Asleep \/ Throttled \/ ~shutdowning)
=============================================================================
