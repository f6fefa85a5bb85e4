-------------------------- MODULE ServerLoopProofs --------------------------
(***************************************************************************)
(* Proofs about ServerLoop for every set of modes and reply sizes and any  *)
(* number of signals and deaths: whom the pid file names, and when the     *)
(* server may sleep with an order to end.                                  *)
(***************************************************************************)
EXTENDS ServerLoop, WellFoundedInduction, TLAPS

Places == {"start", "unarmed", "fork", "leaving", "ended", "dead"} \cup Loop

ControlType ==
    /\ pc \in Places
    /\ dump \in BOOLEAN /\ shutdowning \in BOOLEAN /\ raced \in BOOLEAN
    /\ pidfile \in {"none", "parent", "server", "dead"}
    /\ signals \in Nat /\ deaths \in Nat

(* From the look at the flags on, an order to end that is pending is one   *)
(* the loop did not see, or saw and put off because dump was set too.      *)
OrdersSeen ==
    /\ pc \in {"dumping", "entering", "select"} /\ shutdowning => raced
    /\ dump /\ shutdowning => raced

(* A server that does not fork is in the pid file before its handlers are  *)
(* armed; a daemon only after the fork.                                    *)
PidWritten == pc = "unarmed" /\ mode \notin {"inetd", "daemon"} => pidfile = "server"

ControlInv == ControlType /\ OrdersSeen /\ PidWritten /\ PidFileTrue

LEMMA ControlInit == SInit => ControlInv
<1> SUFFICES ASSUME SInit PROVE ControlInv
  OBVIOUS
<1>1. ControlType
  <2>1. pc \in Places /\ pidfile \in {"none", "parent", "server", "dead"}
    BY Zenon DEF SInit, Places
  <2>2. dump \in BOOLEAN /\ shutdowning \in BOOLEAN /\ raced \in BOOLEAN
    BY Zenon DEF SInit
  <2>3. signals \in Nat /\ deaths \in Nat
    BY SMT DEF SInit
  <2> QED BY <2>1, <2>2, <2>3 DEF ControlType
<1>2. OrdersSeen BY Zenon DEF SInit, OrdersSeen
<1>3. PidWritten BY DEF SInit, PidWritten
<1>4. PidFileTrue BY DEF SInit, PidFileTrue, Loop
<1> QED BY <1>1, <1>2, <1>3, <1>4 DEF ControlInv

(* The start of main(), up to the loop, and its end. *)
LEMMA StartStep ==
    ASSUME ControlInv, WritePid \/ Arm \/ Fork \/ PidFails \/ End
    PROVE  ControlInv'
<1> USE DEF ControlInv, ControlType, Places, Loop, OrdersSeen, PidWritten, PidFileTrue, Goes, Keeps
<1>1. CASE WritePid BY <1>1 DEF WritePid
<1>2. CASE Arm BY <1>2 DEF Arm
<1>3. CASE Fork BY <1>3 DEF Fork
<1>4. CASE PidFails BY <1>4 DEF PidFails
<1>5. CASE End BY <1>5 DEF End
<1> QED BY <1>1, <1>2, <1>3, <1>4, <1>5

(* The steps of server_loop(). *)
LEMMA LoopStep ==
    ASSUME ControlInv, Top \/ Dump \/ Enter \/ Packet \/ Reply \/ Timeout
    PROVE  ControlInv'
<1> USE DEF ControlInv, ControlType, Places, Loop, OrdersSeen, PidWritten, PidFileTrue, Goes, Keeps
<1>1. CASE Top BY <1>1 DEF Top
<1>2. CASE Dump BY <1>2 DEF Dump
<1>3. CASE Enter BY <1>3 DEF Enter
<1>4. CASE Packet BY <1>4 DEF Packet
<1>5. CASE Reply BY <1>5 DEF Reply
<1>6. CASE Timeout BY <1>6 DEF Timeout
<1> QED BY <1>1, <1>2, <1>3, <1>4, <1>5, <1>6

(* A signal between any two steps, a death, and the start after it. *)
LEMMA OutsideStep ==
    ASSUME ControlInv, Term \/ Usr1 \/ Die \/ Again
    PROVE  ControlInv'
<1> USE DEF ControlInv, ControlType, Places, Loop, PidWritten, PidFileTrue, Goes
<1>1. CASE Term
  <2>1. /\ pc' \in Places /\ pidfile' \in {"none", "parent", "server", "dead"}
        /\ signals' \in Nat /\ signals' > 0 /\ deaths' \in Nat
    BY <1>1, SMT DEF Term, Died, Woken
  <2>2. dump' \in BOOLEAN /\ shutdowning' \in BOOLEAN /\ raced' \in BOOLEAN
    BY <1>1, Zenon DEF Term
  <2>3. PidWritten' /\ PidFileTrue'
    BY <1>1, <2>1, SMT DEF Term, Died, Woken
  <2>4. OrdersSeen'
    <3>1. CASE pc \in {"start", "unarmed"}
      <4>1. pc' = "dead" /\ dump' = dump /\ shutdowning' = shutdowning /\ raced' = raced
        BY <1>1, <3>1, Zenon DEF Term, Died
      <4> QED BY <4>1 DEF OrdersSeen
    <3>2. CASE pc \notin {"start", "unarmed"}
      <4>1. /\ dump' = dump
            /\ pc' = IF pc = "select" THEN "top" ELSE pc
            /\ raced' <=> raced \/ pc \in {"entering", "dumping"} \/ dump
        BY <1>1, <3>2, Zenon DEF Term, Woken
      <4>2. pc' \in {"dumping", "entering", "select"} => pc \in {"entering", "dumping"}
        BY <4>1
      <4> QED BY <4>1, <4>2, Zenon DEF OrdersSeen
    <3> QED BY <3>1, <3>2
  <2> QED BY <2>1, <2>2, <2>3, <2>4, Zenon
<1>2. CASE Usr1
  <2>1. /\ pc' \in Places /\ pidfile' \in {"none", "parent", "server", "dead"}
        /\ signals' \in Nat /\ signals' > 0 /\ deaths' \in Nat
    BY <1>2, SMT DEF Usr1, Died, Woken
  <2>2. dump' \in BOOLEAN /\ shutdowning' \in BOOLEAN /\ raced' \in BOOLEAN
    BY <1>2, Zenon DEF Usr1
  <2>3. PidWritten' /\ PidFileTrue'
    BY <1>2, <2>1, SMT DEF Usr1, Died, Woken
  <2>4. OrdersSeen'
    <3>1. CASE pc \in {"start", "unarmed"}
      <4>1. pc' = "dead" /\ dump' = dump /\ shutdowning' = shutdowning /\ raced' = raced
        BY <1>2, <3>1, Zenon DEF Usr1, Died
      <4> QED BY <4>1 DEF OrdersSeen
    <3>2. CASE pc \notin {"start", "unarmed"}
      <4>1. shutdowning' = shutdowning /\ (raced' <=> raced \/ shutdowning)
        BY <1>2, <3>2, Zenon DEF Usr1
      <4> QED BY <4>1, Zenon DEF OrdersSeen
    <3> QED BY <3>1, <3>2
  <2> QED BY <2>1, <2>2, <2>3, <2>4, Zenon
<1>3. CASE Die BY <1>3 DEF Die, Died, OrdersSeen
<1>4. CASE Again
  <2>1. /\ pc' = "start" /\ pidfile' = pidfile /\ signals' = signals
        /\ deaths' \in Nat /\ deaths' > 0
    BY <1>4, ServerLoopAssumption, SMT DEF Again
  <2>2. ~dump' /\ ~shutdowning' /\ ~raced'
    BY <1>4, Zenon DEF Again
  <2>3. dump' \in BOOLEAN /\ shutdowning' \in BOOLEAN /\ raced' \in BOOLEAN
    BY <1>4, Zenon DEF Again
  <2>4. OrdersSeen'
    BY <2>1, <2>2, Zenon DEF OrdersSeen
  <2>5. PidWritten' /\ PidFileTrue'
    BY <2>1, SMT
  <2> QED BY <2>1, <2>3, <2>4, <2>5, Zenon
<1> QED BY <1>1, <1>2, <1>3, <1>4

(* What concerns the replies only. *)
LEMMA ControlStutter == ASSUME ControlInv, UNCHANGED control PROVE ControlInv'
BY DEF control, ControlInv, ControlType, OrdersSeen, PidWritten, PidFileTrue

LEMMA ControlNext == ControlInv /\ [SNext]_allvars => ControlInv'
<1> SUFFICES ASSUME ControlInv, [SNext]_allvars PROVE ControlInv'
  OBVIOUS
<1>1. CASE Server
  <2>1. CASE Sleep BY <2>1, ControlStutter DEF Sleep
  <2> QED BY <1>1, <2>1, StartStep, LoopStep DEF Server
<1>2. CASE PidFails BY <1>2, StartStep
<1>3. CASE Packet \/ Timeout BY <1>3, LoopStep
<1>4. CASE Term \/ Usr1 \/ Die \/ Again BY <1>4, OutsideStep
<1>5. CASE Second BY <1>5, ControlStutter DEF Second
<1>6. CASE UNCHANGED allvars BY <1>6, ControlStutter DEF allvars
<1> QED BY <1>1, <1>2, <1>3, <1>4, <1>5, <1>6 DEF SNext

(* The inductive invariant of the server process. *)
THEOREM ServerInvariant == SSpec => []ControlInv
BY ControlInit, ControlNext, PTL DEF SSpec

(* server_loop() calls select() with an order to end pending only when the *)
(* signal came between its look at shutdowning and the call, or together   *)
(* with SIGUSR1: every other order is obeyed before it sleeps.             *)
THEOREM OrdersBeforeSleep == SSpec => []NoSleepOnOrder
<1>1. ControlInv => NoSleepOnOrder BY DEF ControlInv, OrdersSeen, NoSleepOnOrder
<1> QED BY <1>1, ServerInvariant, PTL

(* pidfile() and pidfile_cleanup(): while server_loop() runs outside inetd *)
(* the file names the server, not the parent that forked it, and a server  *)
(* that ends as it should leaves none.                                     *)
THEOREM PidFileNamesServer == SSpec => []PidFileTrue
<1>1. ControlInv => PidFileTrue BY DEF ControlInv
<1> QED BY <1>1, ServerInvariant, PTL
-----------------------------------------------------------------------------
(* Sums over the ring.  Induction over the places of a ring is by the      *)
(* least place that a statement does not hold for.                         *)

LEMMA Induction ==
    ASSUME NEW N \in Nat, NEW S, 0 \in S, \A n \in 0..N - 1 : n \in S => n + 1 \in S
    PROVE  0..N \subseteq S
<1> DEFINE T == {n \in 0..N : n \notin S}
           R == OpToRel(<, Nat)
<1> SUFFICES ASSUME T # {} PROVE FALSE
  OBVIOUS
<1>1. IsWellFoundedOn(R, Nat) BY NatLessThanWellFounded
<1>2. T \subseteq Nat OBVIOUS
<1>3. PICK x \in T : \A y \in T : ~ (<<y, x>> \in R)
  <2> HIDE DEF R, T
  <2> QED BY <1>1, <1>2, WFMin, Zenon
<1>4. \A y \in T : ~ (y < x)
  BY <1>2, <1>3 DEF OpToRel
<1>5. x # 0 /\ x - 1 \in 0..N - 1 /\ x - 1 \notin T
  BY <1>4
<1> QED BY <1>5

Rings == [Buckets -> Nat]

(* The recursion of SumTo has a solution. *)
LEMMA SumDefined ==
    ASSUME NEW f \in Rings
    PROVE  \E s \in [0..THCCOUNT -> Nat] :
               s = [i \in 0..THCCOUNT |-> IF i = 0 THEN 0 ELSE s[i - 1] + f[i - 1]]
<1> DEFINE Solves(s, n) == s[0] = 0 /\ \A i \in 1..n : s[i] = s[i - 1] + f[i - 1]
           S == {n \in 0..THCCOUNT : \E s \in [0..THCCOUNT -> Nat] : Solves(s, n)}
<1>1. 0 \in S
  <2> DEFINE s == [i \in 0..THCCOUNT |-> 0]
  <2>1. s \in [0..THCCOUNT -> Nat] /\ Solves(s, 0) BY ThroughputAssumption
  <2> HIDE DEF s
  <2> QED BY <2>1, ThroughputAssumption
<1>2. ASSUME NEW n \in 0..THCCOUNT - 1, n \in S PROVE n + 1 \in S
  <2>1. PICK s \in [0..THCCOUNT -> Nat] : Solves(s, n) BY <1>2
  <2> DEFINE t == [s EXCEPT ![n + 1] = s[n] + f[n]]
  <2>2. n \in 0..THCCOUNT /\ n + 1 \in 0..THCCOUNT /\ n \in Buckets
    BY ThroughputAssumption DEF Buckets
  <2>3. t \in [0..THCCOUNT -> Nat] BY <2>2 DEF Rings
  <2>4. Solves(t, n + 1)
    <3>1. t[0] = 0 BY <2>1, <2>2
    <3>2. ASSUME NEW i \in 1..n + 1 PROVE t[i] = t[i - 1] + f[i - 1]
      <4>1. CASE i = n + 1 BY <4>1, <2>2
      <4>2. CASE i \in 1..n BY <4>2, <2>1, <2>2
      <4> QED BY <4>1, <4>2, <2>2
    <3> QED BY <3>1, <3>2
  <2> QED BY <2>2, <2>3, <2>4
<1>3. THCCOUNT \in S
  <2> HIDE DEF S
  <2> QED BY <1>1, <1>2, Induction, ThroughputAssumption
<1>4. PICK s \in [0..THCCOUNT -> Nat] : Solves(s, THCCOUNT) BY <1>3
<1>5. s = [i \in 0..THCCOUNT |-> IF i = 0 THEN 0 ELSE s[i - 1] + f[i - 1]]
  <2>1. \A i \in 0..THCCOUNT : s[i] = IF i = 0 THEN 0 ELSE s[i - 1] + f[i - 1]
    BY <1>4, ThroughputAssumption
  <2> QED BY <2>1
<1> QED BY <1>5

(* The two equations of a sum, and its type. *)
LEMMA SumEquations ==
    ASSUME NEW f \in Rings
    PROVE  /\ \A n \in 0..THCCOUNT : SumTo(f, n) \in Nat
           /\ SumTo(f, 0) = 0
           /\ \A n \in 0..THCCOUNT - 1 : SumTo(f, n + 1) = SumTo(f, n) + f[n]
<1> DEFINE Is(s) == s = [i \in 0..THCCOUNT |-> IF i = 0 THEN 0 ELSE s[i - 1] + f[i - 1]]
           sum == CHOOSE s : Is(s)
<1>1. \E s \in [0..THCCOUNT -> Nat] : Is(s) BY SumDefined, Zenon
<1>2. Is(sum) BY <1>1, Zenon
<1>3. \A n \in 0..THCCOUNT : SumTo(f, n) = sum[n] BY DEF SumTo
<1>4. \A n \in 0..THCCOUNT : sum[n] = IF n = 0 THEN 0 ELSE sum[n - 1] + f[n - 1]
  <2> HIDE DEF sum
  <2> QED BY <1>2
<1> HIDE DEF sum
<1>5. sum[0] = 0 BY <1>4, ThroughputAssumption
<1>6. \A n \in 0..THCCOUNT - 1 : sum[n + 1] = sum[n] + f[n]
  BY <1>4, ThroughputAssumption
<1>7. 0..THCCOUNT \subseteq {n \in 0..THCCOUNT : sum[n] \in Nat}
  <2> DEFINE S == {n \in 0..THCCOUNT : sum[n] \in Nat}
  <2>1. 0 \in S BY <1>5, ThroughputAssumption
  <2>2. \A n \in 0..THCCOUNT - 1 : n \in S => n + 1 \in S
    BY <1>6, ThroughputAssumption DEF Rings, Buckets
  <2> HIDE DEF S
  <2>3. 0..THCCOUNT \subseteq S BY <2>1, <2>2, Induction, ThroughputAssumption
  <2> QED BY <2>3 DEF S
<1> QED BY <1>3, <1>5, <1>6, <1>7, ThroughputAssumption
LEMMA SumMonotonic ==
    ASSUME NEW f \in Rings, NEW n \in 0..THCCOUNT, NEW m \in n..THCCOUNT
    PROVE  SumTo(f, n) <= SumTo(f, m)
<1> DEFINE S == {k \in 0..THCCOUNT : n <= k => SumTo(f, n) <= SumTo(f, k)}
<1>1. 0 \in S BY SumEquations, ThroughputAssumption
<1>2. ASSUME NEW k \in 0..THCCOUNT - 1, k \in S PROVE k + 1 \in S
  <2>1. SumTo(f, k + 1) = SumTo(f, k) + f[k] /\ f[k] \in Nat
    BY SumEquations DEF Rings, Buckets
  <2>2. k \in 0..THCCOUNT /\ k + 1 \in 0..THCCOUNT BY ThroughputAssumption
  <2>3. SumTo(f, k) \in Nat /\ SumTo(f, k + 1) \in Nat /\ SumTo(f, n) \in Nat
    BY <2>2, SumEquations
  <2> QED BY <1>2, <2>1, <2>2, <2>3
<1>3. 0..THCCOUNT \subseteq S
  <2> HIDE DEF S
  <2> QED BY <1>1, <1>2, Induction, ThroughputAssumption
<1> QED BY <1>3, ThroughputAssumption

LEMMA SumZero ==
    ASSUME NEW f \in Rings, NEW n \in 0..THCCOUNT, \A i \in 0..n - 1 : f[i] = 0
    PROVE  SumTo(f, n) = 0
<1> DEFINE S == {k \in 0..n : SumTo(f, k) = 0}
<1>1. 0 \in S BY SumEquations, ThroughputAssumption
<1>2. \A k \in 0..n - 1 : k \in S => k + 1 \in S
  BY SumEquations, ThroughputAssumption
<1>3. 0..n \subseteq S
  <2> HIDE DEF S
  <2> QED BY <1>1, <1>2, Induction, ThroughputAssumption
<1> QED BY <1>3

(* A ring d seconds later. *)
Later(f, d) == [i \in Buckets |-> IF i < d THEN 0 ELSE f[i - d]]

LEMMA SumLater ==
    ASSUME NEW f \in Rings, NEW d \in Nat
    PROVE  /\ Later(f, d) \in Rings
           /\ \A n \in 0..THCCOUNT : SumTo(Later(f, d), n) = IF n < d THEN 0 ELSE SumTo(f, n - d)
<1> DEFINE g == Later(f, d)
<1>1. g \in Rings
  <2>1. ASSUME NEW i \in Buckets PROVE g[i] \in Nat
    <3>1. i < d \/ i - d \in Buckets BY ThroughputAssumption DEF Buckets
    <3> QED BY <3>1 DEF Rings, Later
  <2> QED BY <2>1 DEF Rings, Later
<1> DEFINE S == {n \in 0..THCCOUNT : SumTo(g, n) = IF n < d THEN 0 ELSE SumTo(f, n - d)}
<1>2. 0 \in S BY <1>1, SumEquations, ThroughputAssumption
<1>3. ASSUME NEW n \in 0..THCCOUNT - 1, n \in S PROVE n + 1 \in S
  <2>1. SumTo(g, n + 1) = SumTo(g, n) + g[n] /\ n \in Buckets /\ SumTo(f, 0) = 0
    BY <1>1, SumEquations, ThroughputAssumption DEF Buckets
  <2>2. CASE n < d
    <3>1. SumTo(g, n + 1) = 0 BY <1>3, <2>1, <2>2 DEF Later
    <3> QED BY <2>1, <2>2, <3>1, ThroughputAssumption
  <2>3. CASE n >= d
    <3>1. SumTo(f, n - d + 1) = SumTo(f, n - d) + f[n - d]
      BY <2>3, SumEquations, ThroughputAssumption
    <3>2. g[n] = f[n - d] /\ SumTo(g, n) = SumTo(f, n - d) BY <1>3, <2>1, <2>3 DEF Later
    <3> QED BY <2>1, <2>3, <3>1, <3>2, ThroughputAssumption
  <2> QED BY <2>2, <2>3, ThroughputAssumption
<1>4. 0..THCCOUNT \subseteq S
  <2> HIDE DEF S
  <2> QED BY <1>2, <1>3, Induction, ThroughputAssumption
<1> QED BY <1>1, <1>4

(* A reply booked in the first place. *)
Plus(f, r) == [f EXCEPT ![0] = @ + r]

LEMMA SumBooked ==
    ASSUME NEW f \in Rings, NEW r \in Nat
    PROVE  /\ Plus(f, r) \in Rings
           /\ \A n \in 1..THCCOUNT : SumTo(Plus(f, r), n) = SumTo(f, n) + r
<1> DEFINE g == Plus(f, r)
<1>1. 0 \in Buckets BY ThroughputAssumption DEF Buckets
<1>2. g \in Rings /\ g[0] = f[0] + r /\ \A i \in Buckets \ {0} : g[i] = f[i]
  BY <1>1 DEF Rings, Plus
<1> HIDE DEF g
<1> DEFINE S == {n \in 0..THCCOUNT : n > 0 => SumTo(g, n) = SumTo(f, n) + r}
<1>3. 0 \in S BY ThroughputAssumption
<1>4. ASSUME NEW n \in 0..THCCOUNT - 1, n \in S PROVE n + 1 \in S
  <2>1. /\ SumTo(g, n + 1) = SumTo(g, n) + g[n] /\ SumTo(f, n + 1) = SumTo(f, n) + f[n]
        /\ SumTo(f, 0) = 0 /\ SumTo(g, 0) = 0
    BY <1>2, SumEquations
  <2>2. /\ n \in 0..THCCOUNT /\ n + 1 \in 0..THCCOUNT /\ n \in Buckets
        /\ f[n] \in Nat /\ g[n] \in Nat
    BY <1>2, ThroughputAssumption DEF Rings, Buckets
  <2>3. SumTo(f, n) \in Nat /\ SumTo(g, n) \in Nat BY <1>2, <2>2, SumEquations
  <2>4. CASE n = 0
    <3>1. SumTo(g, 1) = g[0] /\ SumTo(f, 1) = f[0] /\ f[0] \in Nat
      BY <2>1, <2>2, <2>4
    <3> QED BY <1>2, <2>2, <2>4, <3>1
  <2>5. CASE n # 0 BY <1>2, <1>4, <2>1, <2>2, <2>3, <2>5
  <2> QED BY <2>4, <2>5
<1>5. 0..THCCOUNT \subseteq S
  <2> HIDE DEF S
  <2> QED BY <1>3, <1>4, Induction, ThroughputAssumption
<1> QED BY <1>2, <1>5, ThroughputAssumption DEF g
-----------------------------------------------------------------------------
(* The rate.  Bound is what a ring holds at most.  A bucket of age lag +   *)
(* gap + i is thc[i].  What was sent in the last k seconds is booked in    *)
(* buckets no older than that, or, all that is not, in the one bucket of   *)
(* the clock reading before them; and what was sent since the second of a  *)
(* reading is in its bucket.                                               *)
Bound == Allowance + Biggest
Least(n, m) == IF n < m THEN n ELSE m
Booked(k) == SumTo(thc, IF k < lag + gap THEN 0 ELSE k - lag - gap)

RateType == /\ thc \in Rings /\ sent \in Rings
            /\ gap \in 0..THCCOUNT + 1 /\ lag \in 0..THCCOUNT + 1
            /\ reply \in Sizes \cup {0}
SinceReading == SumTo(sent, Least(lag, THCCOUNT)) <= IF gap = 0 THEN thc[0] ELSE 0
AllBooked == \A k \in 0..THCCOUNT : SumTo(sent, k) <= Booked(k) + Bound
RateInv == RateType /\ Total(thc) <= Bound /\ SinceReading /\ AllBooked
LEMMA BiggestIs == Biggest \in Sizes /\ Biggest \in Nat /\ \A m \in Sizes : m <= Biggest
BY ThroughputAssumption DEF Biggest

(* What the average lets pass. *)
LEMMA AverageAllows ==
    ASSUME NEW t \in Nat, t \div THCCOUNT <= maxthcallowed
    PROVE  t <= Allowance
<1> DEFINE q == t \div THCCOUNT
<1>1. THCCOUNT \in Nat /\ THCCOUNT > 0 /\ maxthcallowed \in Nat BY ThroughputAssumption
<1>2. q \in Nat /\ t = (THCCOUNT * q) + (t % THCCOUNT) /\ t % THCCOUNT \in 0..THCCOUNT - 1
  BY <1>1
<1>3. THCCOUNT * q <= THCCOUNT * maxthcallowed /\ THCCOUNT * q \in Nat /\ THCCOUNT * maxthcallowed \in Nat
  <2> HIDE DEF q
  <2>1. PICK d \in Nat : maxthcallowed = q + d
    <3>1. maxthcallowed - q \in Nat /\ maxthcallowed = q + (maxthcallowed - q) BY <1>1, <1>2 DEF q
    <3> QED BY <3>1
  <2>2. THCCOUNT * maxthcallowed = THCCOUNT * q + THCCOUNT * d BY <1>1, <1>2, <2>1
  <2>3. THCCOUNT * q \in Nat /\ THCCOUNT * d \in Nat /\ THCCOUNT * maxthcallowed \in Nat
    BY <1>1, <1>2, <2>1
  <2> QED BY <2>2, <2>3
<1>4. THCCOUNT * (maxthcallowed + 1) = THCCOUNT * maxthcallowed + THCCOUNT BY <1>1
<1> QED BY <1>1, <1>2, <1>3, <1>4 DEF Allowance

LEMMA BoundIs == Bound \in Nat /\ Allowance \in Nat
<1>1. THCCOUNT \in Nat \ {0} /\ maxthcallowed + 1 \in Nat \ {0} BY ThroughputAssumption
<1>2. THCCOUNT * (maxthcallowed + 1) \in Nat \ {0} BY <1>1
<1> QED BY <1>2, BiggestIs DEF Bound, Allowance

LEMMA RateInit == Init => RateInv
<1> SUFFICES ASSUME Init PROVE RateInv
  OBVIOUS
<1>1. RateType BY ThroughputAssumption DEF Init, RateType, Rings
<1>2. \A n \in 0..THCCOUNT : SumTo(thc, n) = 0 /\ SumTo(sent, n) = 0
  <2>1. \A i \in Buckets : thc[i] = 0 /\ sent[i] = 0 BY DEF Init
  <2> QED BY <1>1, <2>1, SumZero, ThroughputAssumption DEF RateType, Buckets
<1>3. Total(thc) <= Bound BY <1>2, BoundIs, ThroughputAssumption DEF Total
<1>4. SinceReading
  <2>1. 0 \in Buckets /\ Least(lag, THCCOUNT) = 0 BY ThroughputAssumption DEF Init, Least, Buckets
  <2> QED BY <1>2, <2>1, ThroughputAssumption DEF SinceReading, Init
<1>5. AllBooked
  <2>1. \A k \in 0..THCCOUNT : Booked(k) = SumTo(thc, k) BY DEF Booked, Init
  <2> QED BY <1>2, <2>1, BoundIs DEF AllBooked
<1> QED BY <1>1, <1>3, <1>4, <1>5 DEF RateInv
(* Tick: all is a second older. *)
LEMMA RateTick == ASSUME RateInv, Tick PROVE RateInv'
<1> USE DEF RateInv
<1>1. thc' = thc /\ gap' = gap /\ reply' = reply /\ sent' = Later(sent, 1)
  <2>1. \A i \in Buckets : (i = 0 <=> i < 1) BY DEF Buckets
  <2>2. sent' = Later(sent, 1) BY <2>1 DEF Tick, Later
  <2> QED BY <2>2 DEF Tick
<1>2. lag' \in 0..THCCOUNT + 1 /\ lag' = IF lag >= THCCOUNT THEN THCCOUNT + 1 ELSE lag + 1
  BY ThroughputAssumption DEF Tick, UpTo, RateType
<1>3. /\ sent' \in Rings
      /\ \A n \in 0..THCCOUNT : SumTo(sent', n) = IF n < 1 THEN 0 ELSE SumTo(sent, n - 1)
  BY <1>1, SumLater DEF RateType
<1>4. RateType' BY <1>1, <1>2, <1>3 DEF RateType
<1>5. Total(thc') <= Bound BY <1>1
<1>6. SinceReading'
  <2> DEFINE n == Least(lag, THCCOUNT)
             m == Least(lag', THCCOUNT)
  <2>1. m \in 1..THCCOUNT /\ m - 1 \in 0..n /\ n \in 0..THCCOUNT
    BY <1>2, ThroughputAssumption DEF Least, RateType
  <2>2. SumTo(sent', m) = SumTo(sent, m - 1) BY <1>3, <2>1
  <2>3. SumTo(sent, m - 1) <= SumTo(sent, n)
    BY <2>1, SumMonotonic, ThroughputAssumption DEF RateType
  <2>4. SumTo(sent, m - 1) \in Nat /\ SumTo(sent, n) \in Nat /\ thc[0] \in Nat
    <3>1. m - 1 \in 0..THCCOUNT BY <2>1, ThroughputAssumption
    <3>2. SumTo(sent, m - 1) \in Nat /\ SumTo(sent, n) \in Nat
      BY <2>1, <3>1, SumEquations, Zenon DEF RateType
    <3> QED BY <3>2, ThroughputAssumption DEF RateType, Rings, Buckets
  <2> HIDE DEF n, m
  <2>5. SumTo(sent, n) <= IF gap = 0 THEN thc[0] ELSE 0 BY DEF SinceReading, n
  <2>6. SumTo(sent', m) <= IF gap' = 0 THEN thc'[0] ELSE 0
    BY <1>1, <2>2, <2>3, <2>4, <2>5
  <2> QED BY <2>6 DEF SinceReading, m
<1>7. AllBooked'
  <2> SUFFICES ASSUME NEW k \in 0..THCCOUNT PROVE SumTo(sent', k) <= Booked(k)' + Bound
    BY DEF AllBooked
  <2>1. CASE k = 0
    <3>1. SumTo(sent', k) = 0 BY <1>3, <2>1
    <3>2. Booked(k)' \in Nat
      BY <1>1, <1>2, <2>1, SumEquations, ThroughputAssumption DEF Booked, RateType
    <3> QED BY <3>1, <3>2, BoundIs
  <2>2. CASE k # 0
    <3>1. k - 1 \in 0..THCCOUNT /\ ~ (k < 1) BY <2>2, ThroughputAssumption
    <3>4. SumTo(sent', k) = SumTo(sent, k - 1) BY <1>3, <3>1
    <3>2. SumTo(sent, k - 1) <= Booked(k - 1) + Bound BY <3>1 DEF AllBooked
    <3>3. Booked(k)' = Booked(k - 1)
      BY <1>1, <1>2, <2>2, ThroughputAssumption DEF Booked, RateType
    <3> QED BY <3>2, <3>3, <3>4
  <2> QED BY <2>1, <2>2
<1> QED BY <1>4, <1>5, <1>6, <1>7

(* Receive and Refuse: a reading of the clock moves nothing. *)
LEMMA RateReceive == ASSUME RateInv, Receive \/ Refuse PROVE RateInv'
<1> USE DEF RateInv
<1>1. thc' = thc /\ sent' = sent /\ reply' \in Sizes \cup {0} BY DEF Receive, Refuse
<1>2. CASE Refuse
  <2>1. gap' = gap /\ lag' = lag BY <1>2 DEF Refuse
  <2>2. RateType' /\ SinceReading' BY <1>1, <2>1 DEF RateType, SinceReading
  <2>3. \A k : Booked(k)' = Booked(k) BY <1>1, <2>1 DEF Booked
  <2> QED BY <1>1, <2>2, <2>3 DEF AllBooked
<1>3. CASE Receive
  <2>1. /\ lag' = 0 /\ gap' \in 0..THCCOUNT + 1
        /\ gap' = IF gap + lag > THCCOUNT THEN THCCOUNT + 1 ELSE gap + lag
    BY <1>3, ThroughputAssumption DEF Receive, UpTo, RateType
  <2>2. RateType'
    <3>1. thc' \in Rings /\ sent' \in Rings BY <1>1 DEF RateType
    <3>2. lag' \in 0..THCCOUNT + 1 BY <2>1, ThroughputAssumption
    <3> QED BY <1>1, <2>1, <3>1, <3>2, Zenon DEF RateType
  <2>3. SinceReading'
    <3>1. SumTo(sent', Least(lag', THCCOUNT)) = 0
      BY <1>1, <2>1, SumEquations, ThroughputAssumption DEF RateType, Least
    <3>2. thc'[0] \in Nat BY <2>2, ThroughputAssumption DEF RateType, Rings, Buckets
    <3> QED BY <3>1, <3>2 DEF SinceReading
  <2>4. \A k \in 0..THCCOUNT : Booked(k)' = Booked(k)
    BY <1>1, <2>1, ThroughputAssumption DEF Booked, RateType
  <2> QED BY <1>1, <2>2, <2>3, <2>4 DEF AllBooked
<1> QED BY <1>2, <1>3

(* The ring brought up to date holds no more, and the same of each age. *)
LEMMA RingShifted ==
    ASSUME RateInv
    PROVE  /\ Shifted \in Rings
           /\ Total(Shifted) <= Total(thc) /\ Total(Shifted) \in Nat
           /\ \A k \in 0..THCCOUNT :
                  SumTo(Shifted, IF k < lag THEN 0 ELSE k - lag) = Booked(k)
           /\ gap = 0 => Shifted[0] = thc[0]
<1>1. Shifted = Later(thc, gap) BY DEF Shifted, Later
<1>2. /\ thc \in Rings /\ gap \in Nat /\ gap \in 0..THCCOUNT + 1 /\ lag \in 0..THCCOUNT + 1
      /\ THCCOUNT \in 0..THCCOUNT
  BY ThroughputAssumption DEF RateInv, RateType
<1>3. /\ Shifted \in Rings
      /\ \A n \in 0..THCCOUNT : SumTo(Shifted, n) = IF n < gap THEN 0 ELSE SumTo(thc, n - gap)
  BY <1>1, <1>2, SumLater
<1>4. Total(Shifted) <= Total(thc) /\ Total(Shifted) \in Nat
  <2>1. SumTo(thc, THCCOUNT) \in Nat /\ SumTo(Shifted, THCCOUNT) \in Nat
    BY <1>2, <1>3, SumEquations
  <2>2. CASE THCCOUNT < gap BY <1>2, <1>3, <2>1, <2>2 DEF Total
  <2>3. CASE ~ (THCCOUNT < gap)
    <3>1. THCCOUNT - gap \in 0..THCCOUNT /\ THCCOUNT \in (THCCOUNT - gap)..THCCOUNT
      BY <1>2, <2>3, ThroughputAssumption
    <3>2. SumTo(thc, THCCOUNT - gap) <= SumTo(thc, THCCOUNT) BY <1>2, <3>1, SumMonotonic
    <3> QED BY <1>2, <1>3, <2>1, <2>3, <3>2 DEF Total
  <2> QED BY <2>2, <2>3
<1>5. ASSUME NEW k \in 0..THCCOUNT
      PROVE  SumTo(Shifted, IF k < lag THEN 0 ELSE k - lag) = Booked(k)
  <2>1. SumTo(thc, 0) = 0 BY <1>2, SumEquations
  <2>2. CASE k < lag
    <3>1. SumTo(Shifted, 0) = 0 BY <1>3, SumEquations
    <3>2. k < lag + gap BY <1>2, <2>2
    <3> QED BY <2>1, <2>2, <3>1, <3>2 DEF Booked
  <2>3. CASE ~ (k < lag)
    <3>1. k - lag \in 0..THCCOUNT BY <1>2, <2>3
    <3>2. (k - lag < gap <=> k < lag + gap) /\ k - lag - gap = (k - lag) - gap BY <1>2
    <3> QED BY <1>3, <2>1, <2>3, <3>1, <3>2 DEF Booked
  <2> QED BY <2>2, <2>3
<1>6. gap = 0 => Shifted[0] = thc[0]
  BY <1>2, ThroughputAssumption DEF Shifted, Buckets
<1> QED BY <1>3, <1>4, <1>5, <1>6
LEMMA RateWait == ASSUME RateInv, Wait PROVE RateInv'
<1> USE DEF RateInv
<1>1. thc' = Shifted /\ gap' = 0 /\ lag' = lag /\ reply' = reply /\ sent' = sent
  BY DEF Wait
<1>2. RateType' BY <1>1, RingShifted, ThroughputAssumption DEF RateType
<1>3. Total(thc') <= Bound
  <2>1. Total(thc) \in Nat BY SumEquations, ThroughputAssumption DEF Total, RateType
  <2> QED BY <1>1, <2>1, RingShifted, BoundIs
<1>4. SinceReading'
  <2>1. Shifted[0] \in Nat BY RingShifted, ThroughputAssumption DEF Rings, Buckets
  <2>2. Least(lag, THCCOUNT) \in 0..THCCOUNT BY ThroughputAssumption DEF Least, RateType
  <2>3. SumTo(sent, Least(lag, THCCOUNT)) \in Nat BY <2>2, SumEquations DEF RateType
  <2> QED BY <1>1, <2>1, <2>3, RingShifted DEF SinceReading
<1>5. AllBooked'
  <2>1. ASSUME NEW k \in 0..THCCOUNT PROVE Booked(k)' = Booked(k)
    <3>1. Booked(k)' = SumTo(Shifted, IF k < lag THEN 0 ELSE k - lag)
      BY <1>1 DEF Booked, RateType
    <3> QED BY <3>1, RingShifted
  <2> QED BY <1>1, <2>1 DEF AllBooked
<1> QED BY <1>2, <1>3, <1>4, <1>5

(* Send: what is booked is sent, in the last second.  In the seconds since *)
(* the reading nothing else can have been sent than what its bucket has.   *)
LEMMA RateSend == ASSUME RateInv, Send PROVE RateInv'
<1> USE DEF RateInv
<1> DEFINE ring == Shifted
<1>1. /\ thc' = Plus(ring, reply) /\ sent' = Plus(sent, reply)
      /\ gap' = 0 /\ lag' = lag /\ reply' = 0
  BY DEF Send, Plus
<1>2. reply \in Nat /\ reply <= Biggest
  BY BiggestIs, ThroughputAssumption DEF Send, RateType
<1>3. ring \in Rings /\ Total(ring) \in Nat /\ Total(ring) <= Allowance
  <2>1. Total(ring) \div THCCOUNT <= maxthcallowed BY DEF Send
  <2> QED BY <2>1, RingShifted, AverageAllows
<1>4. /\ thc' \in Rings /\ sent' \in Rings
      /\ \A n \in 1..THCCOUNT : SumTo(thc', n) = SumTo(ring, n) + reply
      /\ \A n \in 1..THCCOUNT : SumTo(sent', n) = SumTo(sent, n) + reply
  BY <1>1, <1>2, <1>3, SumBooked DEF RateType
<1>5. /\ \A n \in 0..THCCOUNT : SumTo(ring, n) \in Nat /\ SumTo(sent, n) \in Nat
      /\ SumTo(thc', 0) = 0 /\ SumTo(ring, 0) = 0 /\ SumTo(sent', 0) = 0 /\ SumTo(sent, 0) = 0
  BY <1>3, <1>4, SumEquations DEF RateType
<1>6. RateType' BY <1>1, <1>4, ThroughputAssumption DEF RateType
<1>7. Total(thc') <= Bound
  <2>1. Total(thc') = Total(ring) + reply BY <1>4, ThroughputAssumption DEF Total
  <2> QED BY <1>2, <1>3, <2>1, BiggestIs, BoundIs DEF Bound
<1> DEFINE n == Least(lag, THCCOUNT)
<1>8. n \in 0..THCCOUNT /\ n <= lag /\ (n # 0 => n \in 1..THCCOUNT)
  BY ThroughputAssumption DEF Least, RateType
<1>9. thc'[0] = ring[0] + reply /\ ring[0] \in Nat /\ (gap = 0 => ring[0] = thc[0])
  BY <1>1, <1>3, RingShifted, ThroughputAssumption DEF Rings, Buckets, Plus
<1>10. SinceReading'
  <2>1. SumTo(sent, n) <= ring[0]
    BY <1>5, <1>8, <1>9 DEF SinceReading
  <2>2. SumTo(sent', n) <= thc'[0]
    <3>1. CASE n = 0 BY <1>2, <1>5, <1>9, <3>1
    <3>2. CASE n # 0
      <4>1. SumTo(sent', n) = SumTo(sent, n) + reply /\ SumTo(sent, n) \in Nat
        BY <1>4, <1>5, <1>8, <3>2
      <4> HIDE DEF n
      <4> QED BY <1>2, <1>9, <2>1, <4>1
    <3> QED BY <3>1, <3>2
  <2> QED BY <1>1, <2>2 DEF SinceReading
<1>11. thc'[0] <= Total(thc')
  <2>1. SumTo(thc', 1) = thc'[0]
    <3>1. SumTo(thc', 0 + 1) = SumTo(thc', 0) + thc'[0] /\ thc'[0] \in Nat
      BY <1>4, <1>9, <1>2, SumEquations, ThroughputAssumption
    <3> QED BY <1>5, <3>1
  <2>2. SumTo(thc', 1) <= SumTo(thc', THCCOUNT)
    BY <1>4, SumMonotonic, ThroughputAssumption
  <2> QED BY <2>1, <2>2 DEF Total
<1>12. AllBooked'
  <2> SUFFICES ASSUME NEW k \in 0..THCCOUNT PROVE SumTo(sent', k) <= Booked(k)' + Bound
    BY DEF AllBooked
  <2> DEFINE place == IF k < lag THEN 0 ELSE k - lag
  <2>1. place \in 0..THCCOUNT /\ lag \in Nat BY ThroughputAssumption DEF RateType
  <2>2. Booked(k)' = SumTo(thc', place) BY <1>1 DEF Booked, RateType
  <2>3. SumTo(ring, place) = Booked(k) BY RingShifted
  <2>4. CASE k = 0
    <3>1. place = 0 BY <2>1, <2>4
    <3> QED BY <1>5, <2>2, <2>4, <3>1, BoundIs
  <2>5. CASE k # 0 /\ k <= lag
    <3>1. place = 0 BY <2>1, <2>5
    <3>2. k \in 0..n BY <2>5 DEF Least, RateType
    <3>3. SumTo(sent', k) <= SumTo(sent', n) BY <1>4, <1>8, <3>2, SumMonotonic
    <3>4. SumTo(sent', n) <= thc'[0] BY <1>1, <1>10 DEF SinceReading
    <3>5. SumTo(sent', k) \in Nat /\ SumTo(sent', n) \in Nat /\ Total(thc') \in Nat
      BY <1>4, <1>8, SumEquations, ThroughputAssumption DEF Total
    <3> HIDE DEF n
    <3>6. SumTo(sent', k) <= Bound BY <1>2, <1>7, <1>9, <1>11, <3>3, <3>4, <3>5, BoundIs
    <3> QED BY <1>5, <2>2, <3>1, <3>5, <3>6, BoundIs
  <2>6. CASE k > lag
    <3>1. place \in 1..THCCOUNT /\ k \in 1..THCCOUNT BY <2>1, <2>6
    <3>2. Booked(k)' = Booked(k) + reply /\ SumTo(sent', k) = SumTo(sent, k) + reply
      BY <1>4, <2>2, <2>3, <3>1
    <3>3. SumTo(sent, k) <= Booked(k) + Bound BY DEF AllBooked
    <3>4. SumTo(sent, k) \in Nat /\ Booked(k) \in Nat BY <1>5, <2>1, <2>3
    <3> QED BY <1>2, <3>2, <3>3, <3>4, BoundIs
  <2> QED BY <2>1, <2>4, <2>5, <2>6
<1> QED BY <1>6, <1>7, <1>10, <1>12

(* The bytes booked bound the bytes sent. *)
LEMMA RateInvBounds == RateInv => RateBounded
<1> SUFFICES ASSUME RateInv PROVE RateBounded
  OBVIOUS
<1>1. /\ THCCOUNT \in 0..THCCOUNT /\ thc \in Rings /\ sent \in Rings
      /\ lag \in Nat /\ gap \in Nat
  BY ThroughputAssumption DEF RateInv, RateType
<1> DEFINE n == IF THCCOUNT < lag + gap THEN 0 ELSE THCCOUNT - lag - gap
<1>2. n \in 0..THCCOUNT /\ THCCOUNT \in n..THCCOUNT BY <1>1
<1>3. Total(sent) <= SumTo(thc, n) + Bound BY <1>1 DEF RateInv, AllBooked, Booked, Total
<1> HIDE DEF n
<1>4. SumTo(thc, n) <= Total(thc) BY <1>1, <1>2, SumMonotonic DEF Total
<1>5. SumTo(thc, n) \in Nat /\ Total(thc) \in Nat /\ Total(sent) \in Nat
  BY <1>1, <1>2, SumEquations DEF Total
<1>6. Total(thc) <= Bound BY DEF RateInv
<1> QED BY <1>3, <1>4, <1>5, <1>6, BoundIs DEF RateBounded, Bound

LEMMA RateNext == RateInv /\ [SNext]_allvars => RateInv'
<1> SUFFICES ASSUME RateInv, [SNext]_allvars PROVE RateInv'
  OBVIOUS
<1>1. CASE UNCHANGED vars
  BY <1>1 DEF vars, RateInv, RateType, SinceReading, AllBooked, Booked
<1>2. CASE Tick BY <1>2, RateTick
<1>3. CASE Receive \/ Refuse BY <1>3, RateReceive
<1>4. CASE Send BY <1>4, RateSend
<1>5. CASE Wait BY <1>5, RateWait
<1>6. CASE Again
  <2>1. Init'
    BY <1>6 DEF Again, Init
  <2> QED BY <2>1, RateInit, PTL
<1>7. UNCHANGED vars \/ Tick \/ Receive \/ Refuse \/ Send \/ Wait \/ Again
  BY DEF SNext, Server, WritePid, Arm, Fork, Top, Dump, Enter, Reply, Sleep, End, PidFails, Packet,
         Timeout, Term, Usr1, Die, Second, allvars
<1> QED BY <1>1, <1>2, <1>3, <1>4, <1>5, <1>6, <1>7

(* server_reply(): in any THCCOUNT seconds as they pass the server sends   *)
(* no more than twice what the averages allow and two replies, for any     *)
(* sizes of replies, ring and setting; though the clock is read for        *)
(* packets of served hosts only and the ring is cleared at every start.    *)
THEOREM RateIsBounded == SSpec => []RateBounded
<1>1. SInit => RateInv BY RateInit DEF SInit
<1> QED BY <1>1, RateNext, RateInvBounds, PTL DEF SSpec
=============================================================================
