----------------------------- MODULE Throughput -----------------------------
(***************************************************************************)
(* The throughput control of server_reply(): a ring of the bytes sent in   *)
(* each of the last THCCOUNT seconds, by the server's clock reading        *)
(* cur_time.  Only server_loop() reads the clock, once for every packet it *)
(* accepts from a host it serves.                                          *)
(*                                                                         *)
(* Times are kept as differences, so that no bound on time is needed.      *)
(***************************************************************************)
EXTENDS Integers

CONSTANTS
    THCCOUNT,       \* seconds averaged over (10)
    maxthcallowed,  \* "thruput" of fspd.conf, bytes per second
    Sizes           \* sizes of replies, header included

ASSUME ThroughputAssumption ==
    /\ THCCOUNT \in Nat \ {0}
    /\ maxthcallowed \in Nat \ {0}      \* 0: no control
    /\ Sizes \subseteq Nat \ {0}
    /\ \E n \in Sizes : \A m \in Sizes : m <= n

VARIABLES
    thc,     \* thc[i]: bytes sent in the second thcbase - i
    gap,     \* cur_time - thcbase, THCCOUNT + 1 for more
    lag,     \* now - cur_time, THCCOUNT + 1 for more
    reply,   \* size of the reply server_reply() has to send, 0 for none
    sent     \* sent[i]: bytes sent i seconds ago (history)

vars == <<thc, gap, lag, reply, sent>>

Buckets == 0..THCCOUNT - 1
UpTo(n) == IF n > THCCOUNT THEN THCCOUNT + 1 ELSE n

(* The bytes of the first n places of a ring, and of all. *)
SumTo(f, n) == LET sum[i \in 0..THCCOUNT] == IF i = 0 THEN 0 ELSE sum[i - 1] + f[i - 1]
               IN  sum[n]
Total(f) == SumTo(f, THCCOUNT)

(* server_loop() clears the ring and reads thcbase. *)
Init == /\ thc = [i \in Buckets |-> 0]
        /\ gap = 0 /\ lag = 0
        /\ reply = 0
        /\ sent = [i \in Buckets |-> 0]

(* A second passes. *)
Tick == /\ lag' = UpTo(lag + 1)
        /\ sent' = [i \in Buckets |-> IF i = 0 THEN 0 ELSE sent[i - 1]]
        /\ UNCHANGED <<thc, gap, reply>>

(* server_loop() reads the clock; the packet is answered, or dropped. *)
Receive == /\ reply = 0
           /\ reply' \in Sizes \cup {0}
           /\ gap' = UpTo(gap + lag)
           /\ lag' = 0
           /\ UNCHANGED <<thc, sent>>

(* A host that is not served is answered before the clock is read. *)
Refuse == /\ reply = 0
          /\ reply' \in Sizes
          /\ UNCHANGED <<thc, gap, lag, sent>>

(* Faulty variant: the ring is cleared when the second changes. *)
Shifted_Clears == [i \in Buckets |-> IF gap > 0 THEN 0 ELSE thc[i]]

(* The ring brought up to cur_time, one place per second. *)
Shifted == [i \in Buckets |-> IF i < gap THEN 0 ELSE thc[i - gap]]

(* The average is no more than allowed: the reply is sent. *)
Send == /\ reply # 0
        /\ Total(Shifted) \div THCCOUNT <= maxthcallowed
        /\ thc' = [Shifted EXCEPT ![0] = @ + reply]
        /\ gap' = 0
        /\ reply' = 0
        /\ sent' = [sent EXCEPT ![0] = @ + reply]
        /\ UNCHANGED lag

(* "Throughput too high, waiting.": sleep(1), and once more around. *)
Wait == /\ reply # 0
        /\ Total(Shifted) \div THCCOUNT > maxthcallowed
        /\ thc' = Shifted
        /\ gap' = 0
        /\ UNCHANGED <<lag, reply, sent>>

-----------------------------------------------------------------------------
(* As much as the averages of one ring of buckets let pass. *)
Allowance == THCCOUNT * (maxthcallowed + 1) - 1
Biggest == CHOOSE n \in Sizes : \A m \in Sizes : m <= n

(* In THCCOUNT seconds as they pass no more is sent than twice what the    *)
(* setting allows and a reply each: once because a ring may be exceeded by *)
(* its last reply, twice because replies to hosts not served are booked at *)
(* an old clock reading.                                                   *)
RateBounded == Total(sent) <= 2 * (Allowance + Biggest)
=============================================================================
