--------------------------- MODULE SessionProofs ---------------------------
(***************************************************************************)
(* Proofs about Session, for any keys, sequence numbers, timeouts and      *)
(* bounds.                                                                 *)
(***************************************************************************)
EXTENDS Session, TLAPS

(* Drawing keys: the key drawn is a key and nobody uses it.                *)
LEMMA FreshKey ==
    ASSUME NEW k \in GenNextKey
    PROVE  k \in Keys /\ k \notin KeysInUse
BY SessionAssumption DEF GenNextKey

LEMMA DrawnSeq == Draw(SeqNums) \subseteq SeqNums /\ NextSeqs \subseteq SeqNums
<1>1. Draw(SeqNums) \subseteq SeqNums
  BY SessionAssumption
<1>2. NextSeqs \subseteq SeqNums
  <2> DEFINE S == {s \in SeqNums : /\ s # client.seq
                                   /\ SeqsRepeat \/ \A p \in net : p.seq # s}
  <2>1. S \in SUBSET SeqNums
    OBVIOUS
  <2>2. Draw(S) \subseteq S
    BY <2>1, SessionAssumption
  <2> QED BY <2>1, <2>2 DEF NextSeqs
<1> QED BY <1>1, <1>2

(* What the server sends back is a datagram. *)
LEMMA ReplyType ==
    ASSUME NEW m \in Packets, NEW k \in Keys, NEW out
    PROVE  Reply(m, k, out) \in Packets
BY SessionAssumption DEF Packets, Reply

LEMMA NoClientType == NoClient \in Clients
BY SessionAssumption DEF NoClient, Clients

LEMMA RequestType ==
    ASSUME client \in Clients, client.id \in Ids, client.cmd # "none"
    PROVE  Request \in Packets
BY SessionAssumption DEF Request, Clients, Packets

-----------------------------------------------------------------------------
(***************************************************************************)
(* A waiting client waits for a request it has made.                       *)
(***************************************************************************)
Waiting == client.st = "wait" => client.id \in Ids /\ client.cmd # "none"

TypeInv == TypeOK /\ Waiting

LEMMA TypeInit == Init => TypeInv
<1> SUFFICES ASSUME Init PROVE TypeInv
  OBVIOUS
<1>1. host \in Hosts
  BY SessionAssumption DEF Init, NewHost, Hosts
<1>2. client \in Clients /\ Waiting
  BY NoClientType DEF Init, NoClient, Waiting
<1>3. count \in Counts
  BY SessionAssumption DEF Init, Counts
<1> QED BY <1>1, <1>2, <1>3 DEF Init, TypeInv, TypeOK

LEMMA TypeNext == TypeInv /\ [Next]_vars => TypeInv'
<1> SUFFICES ASSUME TypeInv, [Next]_vars PROVE TypeInv'
  OBVIOUS
<1> USE SessionAssumption DEF TypeInv, TypeOK
<1>1. ASSUME NEW m \in net, ServerRun(m) PROVE TypeInv'
  <2> m \in Packets
    OBVIOUS
  <2>1. PICK rest \in {net, net \ {m}}, key \in GenNextKey, out \in Outcomes(m.cmd) :
            /\ Received(m, rest)
            /\ host' = Renewed(m, key)
            /\ net' = rest \cup {Reply(m, key, out)}
    BY <1>1 DEF ServerRun
  <2>2. key \in Keys
    BY FreshKey
  <2>3. host' \in Hosts
    BY <2>1, <2>2 DEF Renewed, Hosts, Packets
  <2>4. net' \subseteq Packets
    BY <2>1, <2>2, ReplyType
  <2>5. count' \in Counts
    BY <2>1 DEF Received, Counts
  <2>6. m.id \in Ids
    BY DEF Packets
  <2>7. ran' \subseteq Ids /\ twice' \subseteq Ids
    BY <1>1, <2>6 DEF ServerRun
  <2>8. runs' \in [Ids -> 0..2]
    BY <1>1, <2>6 DEF ServerRun, Min2
  <2>9. client' = client
    BY <1>1 DEF ServerRun
  <2> QED BY <2>3, <2>4, <2>5, <2>7, <2>8, <2>9 DEF Waiting
<1>2. ASSUME NEW m \in net, ServerRetry(m) PROVE TypeInv'
  <2> m \in Packets
    OBVIOUS
  <2>1. PICK rest \in {net, net \ {m}}, out \in RetryOutcomes(m.cmd) :
            /\ Received(m, rest)
            /\ net' = rest \cup {Reply(m, host.next_key, out)}
    BY <1>2 DEF ServerRetry
  <2>2. host' \in Hosts
    <3>1. host' = [active |-> m.cmd # "bye", next_key |-> host.next_key,
                   last_key |-> host.last_key, idle |-> 0]
      BY <1>2 DEF ServerRetry, Hosts
    <3>2. (m.cmd # "bye") \in BOOLEAN /\ 0 \in 0..SessionTimeout
      OBVIOUS
    <3> QED BY <3>1, <3>2 DEF Hosts
  <2>3. net' \subseteq Packets
    BY <2>1, ReplyType DEF Hosts
  <2>4. count' \in Counts
    BY <2>1 DEF Received, Counts
  <2> QED BY <1>2, <2>2, <2>3, <2>4 DEF ServerRetry, hist, Waiting
<1>3. ASSUME NEW m \in net, ServerDrop(m) PROVE TypeInv'
  BY <1>3 DEF ServerDrop, hist, Waiting
<1>4. ASSUME NEW m \in net, ServerChecksumError(m) PROVE TypeInv'
  <2>1. PICK k \in Keys : /\ host' = Touched(k)
                          /\ ran' = IF TakesNew(k) /\ Begins(k) THEN {} ELSE ran
    BY <1>4 DEF ServerChecksumError
  <2>2. host' \in Hosts
    <3>1. PICK n \in Keys : host' = [host EXCEPT !.active = TRUE, !.idle = 0, !.next_key = n]
      BY <2>1 DEF Touched, Hosts
    <3>2. host' = [active |-> TRUE, next_key |-> n, last_key |-> host.last_key, idle |-> 0]
      BY <3>1 DEF Hosts
    <3>3. 0 \in 0..SessionTimeout
      OBVIOUS
    <3> QED BY <3>2, <3>3 DEF Hosts
  <2>3. count' \in Counts
    BY <1>4 DEF ServerChecksumError, Fault, Counts
  <2> QED BY <1>4, <2>1, <2>2, <2>3 DEF ServerChecksumError, Waiting
<1>5. CASE ServerRestart
  <2>1. host' \in Hosts
    BY <1>5 DEF ServerRestart, NewHost, Hosts
  <2>2. count' \in Counts
    BY <1>5 DEF ServerRestart, Fault, Counts
  <2> QED BY <1>5, <2>1, <2>2 DEF ServerRestart, Waiting
<1>6. CASE ClientOpen
  <2>1. PICK k \in GenNextKey, s \in Draw(SeqNums) :
            client' = [client EXCEPT !.st = "idle", !.key = k, !.seq = s, !.cmd = "none",
                                     !.result = "none", !.from = 0, !.base = count.id]
    BY <1>6 DEF ClientOpen
  <2>2. k \in Keys /\ s \in SeqNums /\ count.id \in 0..MaxId
    BY FreshKey, DrawnSeq DEF Counts
  <2>4. client' = [st |-> "idle", key |-> k, seq |-> s, id |-> client.id, cmd |-> "none",
                   pos |-> client.pos, waited |-> client.waited, result |-> "none",
                   from |-> 0, base |-> count.id]
    BY <2>1 DEF Clients
  <2>5. client' \in Clients /\ client'.st = "idle"
    BY <2>2, <2>4 DEF Clients
  <2>3. count' \in Counts
    BY <1>6 DEF ClientOpen, Counts
  <2> QED BY <1>6, <2>3, <2>5 DEF ClientOpen, hist, Waiting
<1>7. ASSUME NEW cmd \in {"read", "write", "bye"}, NEW pos \in {0, 1}, StartCall(cmd, pos)
      PROVE  TypeInv'
  <2>1. PICK s \in NextSeqs :
            client' = [client EXCEPT !.st = "wait", !.seq = s, !.id = count.id + 1,
                                     !.cmd = cmd, !.pos = pos, !.waited = 0,
                                     !.result = "none", !.from = 0]
    BY <1>7 DEF StartCall
  <2>2. count.id + 1 \in Ids
    BY <1>7 DEF StartCall, Counts, Ids
  <2>7. client' = [st |-> "wait", key |-> client.key, seq |-> s, id |-> count.id + 1,
                   cmd |-> cmd, pos |-> pos, waited |-> 0, result |-> "none", from |-> 0,
                   base |-> client.base]
    BY <2>1 DEF Clients
  <2>8. s \in SeqNums /\ count.id + 1 \in 0..MaxId
    BY <2>2, DrawnSeq DEF Ids
  <2>3. client' \in Clients /\ client'.id = count.id + 1 /\ client'.cmd = cmd
    BY <2>7, <2>8 DEF Clients
  <2>4. Request' \in Packets
    BY <2>2, <2>3 DEF Request, Clients, Packets
  <2>5. net' \subseteq Packets
    BY <1>7, <2>4 DEF StartCall
  <2>6. count' \in Counts
    BY <1>7, <2>2 DEF StartCall, Counts, Ids
  <2> QED BY <1>7, <2>2, <2>3, <2>5, <2>6 DEF StartCall, hist, Waiting
<1>8. CASE ClientCall \/ ClientBye
  BY <1>7, <1>8 DEF ClientCall, ClientBye
<1>9. CASE ClientResend
  <2>1. Request \in Packets
    BY <1>9, RequestType DEF ClientResend, Waiting
  <2>2. client' \in Clients /\ client'.id = client.id /\ client'.cmd = client.cmd
    BY <1>9 DEF ClientResend, Clients
  <2>3. Waiting'
    BY <1>9, <2>2 DEF ClientResend, Waiting, Clients
  <2> QED BY <1>9, <2>1, <2>2, <2>3 DEF ClientResend, hist
<1>10. ASSUME NEW m \in net, ClientReceive(m) PROVE TypeInv'
  <2> m \in Packets
    OBVIOUS
  <2>1. CASE ClientAccept(m)
    <3>1. client' \in Clients /\ client'.st # "wait"
      <4>1. CASE client.cmd = "bye"
        BY <2>1, <4>1, NoClientType DEF ClientAccept, NoClient
      <4>2. CASE client.cmd # "bye"
        <5>1. PICK res \in {"ok", "err"} :
                 client' = [st |-> "idle", key |-> m.key, seq |-> client.seq,
                            id |-> client.id, cmd |-> client.cmd, pos |-> client.pos,
                            waited |-> 0, result |-> res, from |-> m.id,
                            base |-> client.base]
          BY <2>1, <4>2 DEF ClientAccept, Clients
        <5>2. m.key \in Keys /\ m.id \in 0..MaxId
          BY DEF Packets, Ids
        <5> QED BY <5>1, <5>2 DEF Clients
      <4> QED BY <4>1, <4>2
    <3>2. net' \subseteq Packets
      BY <2>1 DEF ClientAccept
    <3>3. count' \in Counts
      BY <2>1 DEF ClientAccept, Received, Counts
    <3> QED BY <1>10, <3>1, <3>2, <3>3 DEF ClientReceive, hist, Waiting
  <2>2. CASE ClientDiscard(m)
    BY <1>10, <2>2 DEF ClientReceive, ClientDiscard, hist, Waiting
  <2> QED BY <1>10, <2>1, <2>2 DEF ClientReceive
<1>11. CASE ClientQuit
  BY <1>11, NoClientType DEF ClientQuit, NoClient, hist, Waiting
<1>12. CASE Tick
  <2>1. host' \in Hosts
    BY <1>12 DEF Tick, Hosts
  <2>2. client' \in Clients /\ Waiting'
    BY <1>12 DEF Tick, Clients, Waiting
  <2>3. net' \subseteq Packets
    BY <1>12 DEF Tick, Packets
  <2> QED BY <1>12, <2>1, <2>2, <2>3 DEF Tick, hist
<1>13. CASE UNCHANGED vars
  BY <1>13 DEF vars, Waiting
<1> QED
  BY <1>1, <1>2, <1>3, <1>4, <1>5, <1>6, <1>8, <1>9, <1>10, <1>11, <1>12, <1>13
     DEF Next, ServerReceive

(* Every variable keeps its range, in every behaviour of the protocol. *)
THEOREM TypeCorrect == Spec => []TypeOK
<1>1. TypeInv => TypeOK
  BY DEF TypeInv
<1> QED BY TypeInit, TypeNext, <1>1, PTL DEF Spec

-----------------------------------------------------------------------------
(***************************************************************************)
(* At most once per session.  The invariant behind it: a request that has  *)
(* been run in the present session carries a key that is no longer         *)
(* next_key, on the wire and in the client that may send it again.  A key  *)
(* is replaced in the step that runs its request, by one nobody uses.      *)
(***************************************************************************)
IdsKnown == /\ \A i \in ran : i <= count.id
            /\ \A p \in net : p.id <= count.id
            /\ client.id <= count.id

Spent(id, key) == id \in ran => key # host.next_key

KeysSpent == host.active =>
                /\ \A p \in net : p.to = "server" => Spent(p.id, p.key)
                /\ client.st = "wait" => Spent(client.id, client.key)

SessionInv == TypeInv /\ IdsKnown /\ KeysSpent /\ AtMostOncePerSession

LEMMA SessionInit == Init => SessionInv
<1> SUFFICES ASSUME Init PROVE SessionInv
  OBVIOUS
<1> QED BY TypeInit DEF Init, SessionInv, IdsKnown, KeysSpent, AtMostOncePerSession, NewHost,
                        NoClient

(* The known ids only grow in number, and what is known stays known.       *)
LEMMA IdsKnownNext == TypeInv /\ IdsKnown /\ [Next]_vars => IdsKnown'
<1> SUFFICES ASSUME TypeInv, IdsKnown, [Next]_vars PROVE IdsKnown'
  OBVIOUS
<1> USE SessionAssumption DEF TypeInv, TypeOK, IdsKnown, hist
<1>0. count \in Counts /\ client \in Clients /\ net \subseteq Packets
  OBVIOUS
<1>1. ASSUME NEW m \in net, NEW rest, Received(m, rest)
      PROVE  rest \subseteq net /\ count'.id = count.id
  BY <1>0, <1>1 DEF Received, Counts
<1>2. ASSUME NEW m \in net, NEW k, NEW out PROVE Reply(m, k, out).id = m.id
  BY DEF Reply
<1>3. ASSUME NEW m \in net, ServerRun(m) PROVE IdsKnown'
  BY <1>0, <1>1, <1>2, <1>3 DEF ServerRun
<1>4. ASSUME NEW m \in net, ServerRetry(m) PROVE IdsKnown'
  BY <1>0, <1>1, <1>2, <1>4 DEF ServerRetry
<1>5. ASSUME NEW m \in net, ServerDrop(m) PROVE IdsKnown'
  BY <1>0, <1>5 DEF ServerDrop
<1>6. ASSUME Fault("damage") \/ Fault("restart") PROVE count'.id = count.id
  BY <1>0, <1>6 DEF Fault, Counts
<1>7. ASSUME NEW m \in net, ServerChecksumError(m) PROVE IdsKnown'
  BY <1>0, <1>6, <1>7 DEF ServerChecksumError
<1>8. CASE ServerRestart
  BY <1>0, <1>6, <1>8 DEF ServerRestart
<1>9. CASE ClientOpen
  <2>1. client'.id = client.id /\ count'.id = count.id
    BY <1>0, <1>9 DEF ClientOpen, Clients, Counts
  <2> QED BY <1>9, <2>1 DEF ClientOpen
<1>10. ASSUME NEW cmd, NEW pos, StartCall(cmd, pos) PROVE IdsKnown'
  <2>1. client'.id = count.id + 1 /\ count'.id = count.id + 1 /\ count.id \in Nat
    BY <1>0, <1>10 DEF StartCall, Clients, Counts
  <2>2. net' = net \cup {Request'} /\ Request'.id = count.id + 1
    BY <1>10, <2>1 DEF StartCall, Request
  <2>3. \A i \in ran : i \in Nat
    BY DEF Ids
  <2>4. \A p \in net : p.id \in Nat
    BY <1>0 DEF Packets, Ids
  <2> QED BY <1>10, <2>1, <2>2, <2>3, <2>4 DEF StartCall
<1>11. CASE ClientCall \/ ClientBye
  BY <1>10, <1>11 DEF ClientCall, ClientBye
<1>12. CASE ClientResend
  <2>1. client'.id = client.id /\ Request.id = client.id
    BY <1>0, <1>12 DEF ClientResend, Request, Clients
  <2> QED BY <1>12, <2>1 DEF ClientResend
<1>13. ASSUME NEW m \in net, ClientReceive(m) PROVE IdsKnown'
  <2>1. CASE ClientAccept(m)
    <3>1. client'.id \in {0, client.id}
      BY <1>0, <2>1 DEF ClientAccept, NoClient, Clients
    <3>2. count.id \in Nat
      BY <1>0 DEF Counts
    <3>3. net' \subseteq net /\ count'.id = count.id
      BY <1>1, <2>1 DEF ClientAccept
    <3> QED BY <1>13, <3>1, <3>2, <3>3 DEF ClientReceive
  <2>2. CASE ClientDiscard(m)
    BY <1>13, <2>2 DEF ClientReceive, ClientDiscard
  <2> QED BY <1>13, <2>1, <2>2 DEF ClientReceive
<1>14. CASE ClientQuit
  BY <1>0, <1>14 DEF ClientQuit, NoClient, Counts
<1>15. CASE Tick
  <2>1. client'.id = client.id
    BY <1>0, <1>15 DEF Tick, Clients
  <2>2. \A p \in net' : \E q \in net : p.id = q.id
    BY <1>0, <1>15 DEF Tick, Packets
  <2> QED BY <1>15, <2>1, <2>2 DEF Tick
<1>16. CASE UNCHANGED vars
  BY <1>16 DEF vars
<1> QED
  BY <1>3, <1>4, <1>5, <1>7, <1>8, <1>9, <1>11, <1>12, <1>13, <1>14, <1>15, <1>16
     DEF Next, ServerReceive

(* A key just drawn is on no request in flight and not the client's.       *)
LEMMA FreshKeyUnused ==
    ASSUME NEW k \in GenNextKey
    PROVE  /\ \A p \in net : p.to = "server" => p.key # k
           /\ client.key # k
BY FreshKey DEF KeysInUse, Matters

(* Running a request that passed as new: it was not run in this session.   *)
LEMMA RunPreserves ==
    ASSUME SessionInv, NEW m \in net, m.to = "server", ServerRun(m)
    PROVE  KeysSpent' /\ AtMostOncePerSession'
<1>1. PICK rest \in {net, net \ {m}}, key \in GenNextKey, out \in Outcomes(m.cmd) :
          /\ host' = Renewed(m, key)
          /\ net' = rest \cup {Reply(m, key, out)}
  BY DEF ServerRun
<1>2. twice' = {}
  <2>1. CASE Begins(m.key)
    BY <2>1 DEF ServerRun, SessionInv, AtMostOncePerSession
  <2>2. CASE ~Begins(m.key)
    <3>1. host.active /\ host.next_key = m.key
      BY <2>2 DEF Begins
    <3>2. m.id \notin ran
      BY <3>1 DEF SessionInv, KeysSpent, Spent
    <3> QED BY <3>2 DEF ServerRun, SessionInv, AtMostOncePerSession
  <2> QED BY <2>1, <2>2
<1>3. host'.next_key = key
  BY <1>1 DEF Renewed
<1>4. \A p \in net' : p.to = "server" => p \in net
  BY <1>1 DEF Reply
<1>5. client' = client
  BY DEF ServerRun
<1> QED BY <1>2, <1>3, <1>4, <1>5, FreshKeyUnused
        DEF KeysSpent, Spent, AtMostOncePerSession

LEMMA SessionNext == SessionInv /\ [Next]_vars => SessionInv'
<1> SUFFICES ASSUME SessionInv, [Next]_vars PROVE SessionInv'
  OBVIOUS
<1> DEFINE Goal == KeysSpent' /\ AtMostOncePerSession'
<1> SUFFICES Goal
  BY TypeNext, IdsKnownNext DEF SessionInv
<1>0. /\ host \in Hosts /\ client \in Clients /\ net \subseteq Packets /\ count \in Counts
      /\ ran \subseteq Ids
  BY DEF SessionInv, TypeInv, TypeOK
<1> USE <1>0 DEF SessionInv, AtMostOncePerSession, hist
<1>2. ASSUME NEW m \in net, m.to = "server", ServerRun(m) PROVE Goal
  BY <1>2, RunPreserves
<1>3. ASSUME NEW m \in net, ServerRetry(m) PROVE Goal
  <2>1. PICK rest \in {net, net \ {m}}, out \in RetryOutcomes(m.cmd) :
            net' = rest \cup {Reply(m, host.next_key, out)}
    BY <1>3 DEF ServerRetry
  <2>2. \A p \in net' : p.to = "server" => p \in net
    BY <2>1 DEF Reply
  <2>3. host'.next_key = host.next_key /\ host.active
    BY <1>3 DEF ServerRetry, TakesRetry, Hosts
  <2> QED BY <1>3, <2>2, <2>3 DEF ServerRetry, KeysSpent, Spent
<1>4. ASSUME NEW m \in net, ServerDrop(m) PROVE Goal
  BY <1>4 DEF ServerDrop, KeysSpent, Spent
<1>5. ASSUME NEW m \in net, ServerChecksumError(m) PROVE Goal
  <2>1. PICK k \in Keys : /\ TakesNew(k) \/ TakesRetry(k)
                          /\ host' = Touched(k)
                          /\ ran' = IF TakesNew(k) /\ Begins(k) THEN {} ELSE ran
    BY <1>5 DEF ServerChecksumError
  <2>2. CASE TakesNew(k) /\ Begins(k)
    BY <1>5, <2>1, <2>2 DEF ServerChecksumError, KeysSpent, Spent
  <2>3. CASE TakesNew(k) /\ ~Begins(k)
    <3>1. host.active /\ host'.next_key = host.next_key
      BY <2>1, <2>3 DEF Touched, Begins, Hosts
    <3> QED BY <1>5, <2>1, <2>3, <3>1 DEF ServerChecksumError, KeysSpent, Spent
  <2>4. CASE ~TakesNew(k)
    <3>1. host.active /\ host'.next_key = host.next_key
      BY <2>1, <2>4 DEF Touched, TakesRetry, Hosts
    <3> QED BY <1>5, <2>1, <2>4, <3>1 DEF ServerChecksumError, KeysSpent, Spent
  <2> QED BY <2>2, <2>3, <2>4
<1>6. CASE ServerRestart
  BY <1>6 DEF ServerRestart, KeysSpent, Spent
<1>7. CASE ClientOpen
  <2>1. client'.st = "idle"
    BY <1>7 DEF ClientOpen, Clients
  <2> QED BY <1>7, <2>1 DEF ClientOpen, KeysSpent, Spent
<1>8. ASSUME NEW cmd, NEW pos, StartCall(cmd, pos) PROVE Goal
  <2>1. client'.id = count.id + 1
    BY <1>8 DEF StartCall, Clients
  <2>2. count.id + 1 \notin ran
    BY DEF IdsKnown, Counts
  <2>3. net' = net \cup {Request'} /\ Request'.id = count.id + 1
    BY <1>8, <2>1 DEF StartCall, Request
  <2> QED BY <1>8, <2>1, <2>2, <2>3 DEF StartCall, KeysSpent, Spent
<1>9. CASE ClientCall \/ ClientBye
  BY <1>8, <1>9 DEF ClientCall, ClientBye
<1>10. CASE ClientResend
  <2>1. Request.id = client.id /\ Request.key = client.key
    BY DEF Request
  <2>2. client'.id = client.id /\ client'.key = client.key /\ client.st = "wait"
    BY <1>10 DEF ClientResend, Clients
  <2> QED BY <1>10, <2>1, <2>2 DEF ClientResend, KeysSpent, Spent
<1>11. ASSUME NEW m \in net, ClientReceive(m) PROVE Goal
  <2>1. CASE ClientAccept(m)
    <3>1. client'.st # "wait"
      BY <2>1 DEF ClientAccept, NoClient, Clients
    <3>2. net' \subseteq net
      BY <2>1 DEF ClientAccept
    <3> QED BY <1>11, <3>1, <3>2 DEF ClientReceive, KeysSpent, Spent
  <2>2. CASE ClientDiscard(m)
    BY <1>11, <2>2 DEF ClientReceive, ClientDiscard, KeysSpent, Spent
  <2> QED BY <1>11, <2>1, <2>2 DEF ClientReceive
<1>12. CASE ClientQuit
  BY <1>12 DEF ClientQuit, NoClient, KeysSpent, Spent
<1>13. CASE Tick
  <2>1. \A p \in net' : \E q \in net : p.id = q.id /\ p.key = q.key /\ p.to = q.to
    BY <1>13 DEF Tick, Packets
  <2>2. /\ client'.id = client.id /\ client'.key = client.key /\ client'.st = client.st
        /\ host'.next_key = host.next_key /\ host'.active = host.active
    BY <1>13 DEF Tick, Clients, Hosts
  <2> QED BY <1>13, <2>1, <2>2 DEF Tick, KeysSpent, Spent
<1>14. CASE UNCHANGED vars
  BY <1>14 DEF vars, KeysSpent, Spent
<1> QED
  BY <1>2, <1>3, <1>4, <1>5, <1>6, <1>7, <1>9, <1>10, <1>11, <1>12, <1>13, <1>14
     DEF Next, ServerReceive

(***************************************************************************)
(* Whatever the network loses, duplicates, delays, reorders or damages,    *)
(* and however often the server restarts, no request is run twice within   *)
(* one session of the server, provided keys that matter are not drawn      *)
(* again (server.c: the rotation of next_key and last_key).                *)
(***************************************************************************)
THEOREM AtMostOnce == Spec => []AtMostOncePerSession
<1>1. SessionInv => AtMostOncePerSession
  BY DEF SessionInv
<1> QED BY SessionInit, SessionNext, <1>1, PTL DEF Spec
-----------------------------------------------------------------------------
(***************************************************************************)
(* A program never takes the reply to the call before for the reply to its *)
(* call.                                                                   *)
(***************************************************************************)
(* The calls of a program are the last ones made; everything in flight     *)
(* about its present call carries its present sequence number, everything  *)
(* about the call before another one.                                      *)
OwnCalls == \/ client.st = "off" /\ client.id <= client.base
            \/ client.id <= client.base /\ client.base = count.id
            \/ client.id > client.base /\ client.id = count.id

SeqsTell == \A p \in net :
    /\ p.id = client.id /\ client.id > client.base => p.seq = client.seq
    /\ p.id = client.id - 1 /\ p.id > client.base => p.seq # client.seq

ReplyInv == OwnCalls /\ SeqsTell /\ NeverPreviousReply

LEMMA ReplyInit == Init => ReplyInv
BY DEF Init, NoClient, ReplyInv, OwnCalls, SeqsTell, NeverPreviousReply

(* A step that neither begins a call nor ends a program, and sends only    *)
(* what answers or repeats what is in flight.                              *)
LEMMA ReplyMove ==
    ASSUME TypeOK, ReplyInv, client'.id = client.id, client'.seq = client.seq, client'.base = client.base,
           client'.st = "off" <=> client.st = "off", count'.id = count.id,
           \A p \in net' : \/ \E q \in net : p.id = q.id /\ p.seq = q.seq
                           \/ p.id = client.id /\ p.seq = client.seq,
           NeverPreviousReply'
    PROVE  ReplyInv'
<1>1. client.id \in Nat /\ client.base \in Nat
  BY SessionAssumption DEF TypeOK, Clients
<1>2. OwnCalls'
  BY DEF ReplyInv, OwnCalls
<1>3. SeqsTell'
  BY <1>1 DEF ReplyInv, SeqsTell
<1> QED BY <1>2, <1>3 DEF ReplyInv

LEMMA ReplyNext == TypeInv /\ IdsKnown /\ ReplyInv /\ [Next]_vars => ReplyInv'
<1> SUFFICES ASSUME TypeInv, IdsKnown, ReplyInv, [Next]_vars PROVE ReplyInv'
  OBVIOUS
<1>0. /\ host \in Hosts /\ client \in Clients /\ net \subseteq Packets /\ count \in Counts /\ TypeOK
      /\ NeverPreviousReply /\ OwnCalls /\ SeqsTell
      /\ client.id \in Nat /\ client.base \in Nat /\ count.id \in Nat
      /\ \A p \in net : p.id \in Nat
  BY SessionAssumption DEF TypeInv, TypeOK, Clients, Counts, ReplyInv, Packets, Ids
<1>1. ASSUME NEW m \in net, NEW rest, Received(m, rest)
      PROVE  rest \subseteq net /\ count'.id = count.id
  BY <1>0, <1>1 DEF Received, Counts
<1>2. ASSUME client' = client, count'.id = count.id,
             \A p \in net' : \E q \in net : p.id = q.id /\ p.seq = q.seq
      PROVE  ReplyInv'
  BY <1>0, <1>2, ReplyMove DEF NeverPreviousReply
<1>3. ASSUME NEW m \in net, ServerReceive(m) PROVE ReplyInv'
  <2>1. client' = client
    BY <1>3 DEF ServerReceive, ServerRun, ServerRetry, ServerDrop
  <2>2. CASE ServerRun(m)
    <3>1. PICK rest \in {net, net \ {m}}, key \in GenNextKey, out \in Outcomes(m.cmd) :
            /\ Received(m, rest)
            /\ net' = rest \cup {Reply(m, key, out)}
      BY <2>2 DEF ServerRun
    <3>2. Reply(m, key, out).id = m.id /\ Reply(m, key, out).seq = m.seq
      BY DEF Reply
    <3> QED BY <1>1, <1>2, <2>1, <3>1, <3>2
  <2>3. CASE ServerRetry(m)
    <3>1. PICK rest \in {net, net \ {m}}, out \in RetryOutcomes(m.cmd) :
            /\ Received(m, rest)
            /\ net' = rest \cup {Reply(m, host.next_key, out)}
      BY <2>3 DEF ServerRetry
    <3>2. Reply(m, host.next_key, out).id = m.id /\ Reply(m, host.next_key, out).seq = m.seq
      BY DEF Reply
    <3> QED BY <1>1, <1>2, <2>1, <3>1, <3>2
  <2>4. CASE ServerDrop(m)
    BY <1>2, <2>1, <2>4 DEF ServerDrop
  <2> QED BY <1>3, <2>2, <2>3, <2>4 DEF ServerReceive
<1>4. ASSUME NEW m \in net, ServerChecksumError(m) PROVE ReplyInv'
  <2>1. client' = client /\ net' \subseteq net /\ count'.id = count.id
    BY <1>0, <1>4 DEF ServerChecksumError, Fault, Counts
  <2> QED BY <1>2, <2>1
<1>5. CASE ServerRestart
  <2>1. client' = client /\ net' = net /\ count'.id = count.id
    BY <1>0, <1>5 DEF ServerRestart, Fault, Counts
  <2> QED BY <1>2, <2>1
<1>6. CASE ClientOpen
  <2>1. /\ client'.id = client.id /\ client'.base = count.id /\ client'.from = 0
        /\ count'.id = count.id /\ net' = net
    BY <1>0, <1>6 DEF ClientOpen, Clients, Counts
  <2>2. client.id <= count.id
    BY DEF IdsKnown
  <2> QED BY <1>0, <2>1, <2>2 DEF ReplyInv, OwnCalls, SeqsTell, NeverPreviousReply, IdsKnown
<1>7. ASSUME NEW cmd, NEW pos, StartCall(cmd, pos) PROVE ReplyInv'
  <2>1. PICK s \in NextSeqs :
          client' = [client EXCEPT !.st = "wait", !.seq = s, !.id = count.id + 1, !.cmd = cmd,
                                   !.pos = pos, !.waited = 0, !.result = "none", !.from = 0]
    BY <1>7 DEF StartCall
  <2>2. s # client.seq
    <3> DEFINE S == {t \in SeqNums : t # client.seq /\ (SeqsRepeat \/ \A p \in net : p.seq # t)}
    <3>1. S \in SUBSET SeqNums /\ NextSeqs = Draw(S)
      BY DEF NextSeqs
    <3>2. Draw(S) \subseteq S
      BY <3>1, SessionAssumption
    <3> QED BY <3>1, <3>2
  <2>3. /\ client'.id = count.id + 1 /\ client'.seq = s /\ client'.base = client.base
        /\ client'.from = 0 /\ client.st = "idle"
    BY <1>0, <1>7, <2>1 DEF StartCall, Clients
  <2>4. count'.id = count.id + 1
    BY <1>0, <1>7 DEF StartCall, Counts
  <2>5. net' = net \cup {Request'} /\ Request'.id = client'.id /\ Request'.seq = client'.seq
    BY <1>7 DEF StartCall, Request
  <2>6. client.base <= count.id
    BY <1>0, <2>3 DEF OwnCalls
  <2>7. OwnCalls'
    BY <1>0, <2>3, <2>4, <2>6 DEF OwnCalls
  <2>8. ASSUME NEW p \in net PROVE /\ p.id # client'.id
                                   /\ p.id = client'.id - 1 /\ p.id > client'.base => p.seq # client'.seq
    <3>1. p.id <= count.id /\ p.id \in Nat
      BY <1>0 DEF IdsKnown
    <3>2. p.id = count.id /\ p.id > client.base => p.seq = client.seq
      BY <1>0, <2>3 DEF OwnCalls, SeqsTell
    <3> QED BY <1>0, <2>2, <2>3, <3>1, <3>2
  <2>9. SeqsTell'
    BY <1>0, <2>3, <2>5, <2>8 DEF SeqsTell
  <2>10. NeverPreviousReply'
    BY <1>0, <2>3 DEF NeverPreviousReply
  <2> QED BY <2>7, <2>9, <2>10 DEF ReplyInv
<1>8. CASE ClientCall \/ ClientBye
  BY <1>7, <1>8 DEF ClientCall, ClientBye
<1>9. CASE ClientResend
  <2>1. /\ client'.id = client.id /\ client'.seq = client.seq /\ client'.base = client.base
        /\ client'.st = client.st /\ client'.from = client.from
    BY <1>0, <1>9 DEF ClientResend, Clients
  <2>2. net' = net \cup {Request} /\ Request.id = client.id /\ Request.seq = client.seq /\ count' = count
    BY <1>9 DEF ClientResend, Request
  <2> QED BY <1>0, <2>1, <2>2, ReplyMove DEF NeverPreviousReply
<1>10. ASSUME client' = NoClient, \A p \in net' : p.id \in Nat PROVE ReplyInv'
  BY <1>10 DEF NoClient, ReplyInv, OwnCalls, SeqsTell, NeverPreviousReply
<1>11. ASSUME NEW m \in net, ClientReceive(m) PROVE ReplyInv'
  <2>1. CASE ClientAccept(m)
    <3>1. net' \subseteq net /\ count'.id = count.id
      BY <1>1, <2>1 DEF ClientAccept
    <3>2. CASE client.cmd = "bye"
      BY <1>0, <1>10, <2>1, <3>1, <3>2 DEF ClientAccept
    <3>3. CASE client.cmd # "bye"
      <4>1. /\ client'.id = client.id /\ client'.seq = client.seq /\ client'.base = client.base
            /\ client'.st = "idle" /\ client.st = "wait" /\ client'.from = m.id
        BY <1>0, <1>11, <2>1, <3>3 DEF ClientReceive, ClientAccept, Clients
      <4>2. m.seq = client.seq
        BY <2>1 DEF ClientAccept, Accepts
      <4>3. NeverPreviousReply'
        BY <1>0, <4>1, <4>2 DEF NeverPreviousReply, SeqsTell
      <4> QED BY <1>0, <3>1, <4>1, <4>3, ReplyMove
    <3> QED BY <3>2, <3>3
  <2>2. CASE ClientDiscard(m)
    BY <1>2, <2>2 DEF ClientDiscard
  <2> QED BY <1>11, <2>1, <2>2 DEF ClientReceive
<1>12. CASE ClientQuit
  BY <1>0, <1>10, <1>12 DEF ClientQuit
<1>13. CASE Tick
  <2>1. /\ client'.id = client.id /\ client'.seq = client.seq /\ client'.base = client.base
        /\ client'.st = client.st /\ client'.from = client.from /\ count' = count
    BY <1>0, <1>13 DEF Tick, Clients
  <2>2. \A p \in net' : \E q \in net : p.id = q.id /\ p.seq = q.seq
    BY <1>0, <1>13 DEF Tick, Packets
  <2> QED BY <1>0, <2>1, <2>2, ReplyMove DEF NeverPreviousReply
<1>14. CASE UNCHANGED vars
  BY <1>2, <1>14 DEF vars
<1> QED BY <1>3, <1>4, <1>5, <1>6, <1>8, <1>9, <1>11, <1>12, <1>13, <1>14 DEF Next

(* client_interact(): "if (u == myseq) myseq ^= 0x1080" keeps the sequence *)
(* number of a call apart from that of the call before, so that a late     *)
(* reply to that one is never returned for this one, even when numbers     *)
(* still in flight are drawn again.                                        *)
THEOREM LateReplyDiscarded == Spec => []NeverPreviousReply
<1>1. Init => TypeInv /\ IdsKnown /\ ReplyInv
  BY SessionInit, ReplyInit DEF SessionInv
<1>2. TypeInv /\ IdsKnown /\ ReplyInv /\ [Next]_vars => (TypeInv /\ IdsKnown /\ ReplyInv)'
  BY TypeNext, IdsKnownNext, ReplyNext
<1>3. ReplyInv => NeverPreviousReply
  BY DEF ReplyInv
<1> QED BY <1>1, <1>2, <1>3, PTL DEF Spec
-----------------------------------------------------------------------------
(***************************************************************************)
(* A success the client is told is about a request that the server ran,    *)
(* although a repetition is answered with success on the strength of its   *)
(* key alone.                                                              *)
(*                                                                         *)
(* Assumed is that nothing is damaged, that the server is not restarted,   *)
(* and that a sequence number is not drawn again while it is in flight.    *)
(***************************************************************************)
Calm == Faults = {} /\ SeqsRepeat = FALSE

(* Neither the last key of the server nor on a request in flight. *)
KeyUnused(k) == k # host.last_key /\ \A p \in net : p.to = "server" => p.key # k

OneIdPerKey == \A p, q \in net : p.to = "server" /\ q.to = "server" /\ p.key = q.key => p.id = q.id

(* What would be taken for a repetition has run. *)
RetryRan == \A p \in net : p.to = "server" /\ p.key = host.last_key => runs[p.id] >= 1

SuccessRan == \A p \in net : p.to = "client" /\ p.cmd # "err" => runs[p.id] >= 1

(* The next call has a key of its own ... *)
NextCall == client.st = "idle" => KeyUnused(client.key)

(* ... and so has the present one, and each key offered for the next. *)
Apart(p) == /\ p.to = "server" => (p.key = client.key <=> p.id = client.id)
            /\ p.seq = client.seq => p.id = client.id
            /\ p.to = "client" /\ p.id = client.id /\ p.cmd # "bye"
                 => KeyUnused(p.key) /\ p.key # client.key

ThisCall == client.st = "wait" =>
                /\ \A p \in net : Apart(p)
                /\ client.key = host.last_key => runs[client.id] >= 1 /\ KeyUnused(host.next_key)

ToldRan == client.result = "ok" => client.from \in Ids /\ runs[client.from] >= 1

AckInv == OneIdPerKey /\ RetryRan /\ SuccessRan /\ NextCall /\ ThisCall /\ ToldRan

LEMMA AckInit == Init => AckInv
BY DEF Init, NoClient, AckInv, OneIdPerKey, RetryRan, SuccessRan, NextCall, ThisCall, ToldRan

(* Two datagrams that say the same, whatever their age. *)
Alike(p, q) == /\ p.to = q.to /\ p.id = q.id /\ p.key = q.key /\ p.seq = q.seq /\ p.cmd = q.cmd

(* The request of the present call. *)
Mine(p) == /\ client.st = "wait" /\ p.to = "server"
           /\ p.id = client.id /\ p.key = client.key /\ p.seq = client.seq

(* Nothing is run, and all that is sent is the present request again. *)
LEMMA QuietStep ==
    ASSUME TypeInv, AckInv,
           host'.next_key = host.next_key, host'.last_key = host.last_key, runs' = runs,
           client'.st = client.st, client'.id = client.id, client'.key = client.key,
           client'.seq = client.seq, client'.result = client.result, client'.from = client.from,
           \A p \in net' : Mine(p) \/ \E q \in net : Alike(p, q)
    PROVE  AckInv'
<1>1. ASSUME client.st = "wait", NEW p \in net', Mine(p)
      PROVE  /\ \A q \in net : q.to = "server" => (q.key = p.key <=> q.id = p.id)
             /\ p.key = host.last_key => runs[p.id] >= 1
  BY <1>1 DEF AckInv, ThisCall, Apart, Mine
<1>2. ASSUME NEW k, KeyUnused(k), client.st = "wait" => k # client.key PROVE KeyUnused(k)'
  BY <1>2 DEF KeyUnused, Mine, Alike
<1>3. OneIdPerKey' /\ RetryRan'
  BY <1>1 DEF AckInv, OneIdPerKey, RetryRan, Mine, Alike
<1>4. SuccessRan' /\ ToldRan'
  BY DEF AckInv, SuccessRan, ToldRan, Mine, Alike
<1>5. NextCall'
  BY <1>2 DEF AckInv, NextCall
<1>6. ThisCall'
  <2> SUFFICES ASSUME client.st = "wait"
               PROVE /\ \A p \in net' : Apart(p)'
                     /\ client.key = host.last_key =>
                          runs[client.id] >= 1 /\ KeyUnused(host.next_key)'
    BY DEF ThisCall, KeyUnused
  <2>1. ASSUME NEW p \in net' PROVE Apart(p)'
    <3>1. CASE Mine(p) BY <3>1 DEF Mine, Apart
    <3>2. ASSUME NEW q \in net, Alike(p, q) PROVE Apart(p)'
      BY <1>2, <3>2 DEF AckInv, ThisCall, Apart, Alike
    <3> QED BY <3>1, <3>2
  <2>2. ASSUME client.key = host.last_key
        PROVE  runs[client.id] >= 1 /\ KeyUnused(host.next_key)'
    BY <1>2, <2>2 DEF AckInv, ThisCall, KeyUnused
  <2> QED BY <2>1, <2>2
<1> QED BY <1>3, <1>4, <1>5, <1>6 DEF AckInv

(* A new request is run: nothing else carries its key, and nobody uses the *)
(* one drawn.                                                              *)
LEMMA RunStep ==
    ASSUME TypeInv, AckInv, NEW m \in net, m.to = "server", ServerRun(m)
    PROVE  AckInv'
<1>1. PICK rest \in {net, net \ {m}}, key \in GenNextKey, out \in Outcomes(m.cmd) :
          /\ host' = Renewed(m, key)
          /\ net' = rest \cup {Reply(m, key, out)}
  BY DEF ServerRun
<1> DEFINE r == Reply(m, key, out)
<1>2. /\ host'.next_key = key /\ host'.last_key = m.key /\ client' = client
      /\ r.to = "client" /\ r.id = m.id /\ r.key = key /\ r.seq = m.seq
  BY <1>1 DEF Renewed, Reply, ServerRun
<1>3. /\ key # host.last_key /\ key # client.key
      /\ \A p \in net : p.to = "server" => p.key # key
  BY FreshKey, FreshKeyUnused DEF KeysInUse
<1>4. m \in Packets /\ net \subseteq Packets /\ m.id \in Ids /\ runs \in [Ids -> 0..2]
  BY DEF TypeInv, TypeOK, Packets
<1>5. /\ runs'[m.id] >= 1
      /\ \A i \in Ids : runs[i] >= 1 => runs'[i] >= 1
  BY <1>4 DEF ServerRun, Min2
<1> HIDE DEF r
<1>6. ASSUME NEW p \in net' PROVE p = r \/ p \in net
  BY <1>1 DEF r
<1>7. \A p \in net : p.id \in Ids
  BY <1>4 DEF Packets
<1>8. KeyUnused(key)'
  BY <1>2, <1>3, <1>6 DEF KeyUnused
<1>9. ASSUME NEW k, KeyUnused(k) PROVE KeyUnused(k)'
  BY <1>2, <1>6, <1>9 DEF KeyUnused
<1>10. OneIdPerKey' /\ SuccessRan'
  BY <1>2, <1>5, <1>6, <1>7 DEF AckInv, OneIdPerKey, SuccessRan
<1>11. RetryRan'
  BY <1>2, <1>5, <1>6 DEF AckInv, OneIdPerKey, RetryRan
<1>12. NextCall' /\ ToldRan'
  BY <1>2, <1>5, <1>9 DEF AckInv, NextCall, ToldRan
<1>13. ThisCall'
  <2> SUFFICES ASSUME client.st = "wait"
               PROVE /\ \A p \in net' : Apart(p)'
                     /\ client.key = m.key => runs'[client.id] >= 1 /\ KeyUnused(key)'
    BY <1>2 DEF ThisCall, KeyUnused
  <2>1. ASSUME NEW p \in net' PROVE Apart(p)'
    <3>1. CASE p = r
      BY <1>2, <1>3, <1>8, <3>1 DEF AckInv, ThisCall, Apart
    <3>2. CASE p \in net
      BY <1>2, <1>9, <3>2 DEF AckInv, ThisCall, Apart
    <3> QED BY <1>6, <3>1, <3>2
  <2>2. client.key = m.key => m.id = client.id
    BY DEF AckInv, ThisCall, Apart
  <2> QED BY <1>5, <1>8, <2>1, <2>2
<1> QED BY <1>10, <1>11, <1>12, <1>13 DEF AckInv

(* A repetition is answered with the key its first answer offered. *)
LEMMA RetryStep ==
    ASSUME TypeInv, AckInv, NEW m \in net, m.to = "server", ServerRetry(m)
    PROVE  AckInv'
<1>1. PICK r : /\ \E out : r = Reply(m, host.next_key, out)
               /\ net' \subseteq net \cup {r}
  BY DEF ServerRetry
<1>2. /\ r.to = "client" /\ r.id = m.id /\ r.key = host.next_key /\ r.seq = m.seq
      /\ client' = client /\ runs' = runs /\ m.key = host.last_key
  BY <1>1 DEF Reply, ServerRetry, TakesRetry, hist
<1>3. host'.next_key = host.next_key /\ host'.last_key = host.last_key
  BY DEF ServerRetry, TypeInv, TypeOK, Hosts
<1>4. ASSUME NEW p \in net' PROVE p = r \/ p \in net
  BY <1>1
<1>5. ASSUME NEW k, KeyUnused(k) PROVE KeyUnused(k)'
  BY <1>2, <1>3, <1>4, <1>5 DEF KeyUnused
<1>6. OneIdPerKey' /\ RetryRan' /\ SuccessRan'
  BY <1>2, <1>3, <1>4 DEF AckInv, OneIdPerKey, RetryRan, SuccessRan
<1>7. NextCall' /\ ToldRan'
  BY <1>2, <1>5 DEF AckInv, NextCall, ToldRan
<1>8. ThisCall'
  <2> SUFFICES ASSUME client.st = "wait"
               PROVE /\ \A p \in net' : Apart(p)'
                     /\ client.key = host.last_key =>
                          runs[client.id] >= 1 /\ KeyUnused(host.next_key)'
    BY <1>2, <1>3 DEF ThisCall, KeyUnused
  <2>1. client.key = host.last_key =>
          runs[client.id] >= 1 /\ KeyUnused(host.next_key) /\ KeyUnused(host.next_key)'
    BY <1>3, <1>5 DEF AckInv, ThisCall, KeyUnused
  <2>2. ASSUME NEW p \in net' PROVE Apart(p)'
    <3>1. CASE p = r
      <4>1. m.id = client.id => client.key = host.last_key
        BY <1>2 DEF AckInv, ThisCall, Apart
      <4>2. m.seq = client.seq => m.id = client.id
        BY DEF AckInv, ThisCall, Apart
      <4>3. client.key = host.last_key => host.next_key # client.key
        BY <2>1 DEF KeyUnused
      <4>4. m.id = client.id => KeyUnused(r.key)'
        BY <1>2, <1>3, <2>1, <4>1 DEF KeyUnused
      <4> QED BY <1>2, <3>1, <4>1, <4>2, <4>3, <4>4 DEF Apart
    <3>2. CASE p \in net
      BY <1>2, <1>5, <3>2 DEF AckInv, ThisCall, Apart
    <3> QED BY <1>4, <3>1, <3>2
  <2> QED BY <2>1, <2>2
<1> QED BY <1>6, <1>7, <1>8 DEF AckInv

(* A call begins with a key nobody used, and a sequence number nobody uses. *)
LEMMA StartStep ==
    ASSUME Calm, TypeInv, IdsKnown, AckInv, NEW cmd, NEW pos, StartCall(cmd, pos)
    PROVE  AckInv'
<1>1. PICK s \in NextSeqs :
        client' = [client EXCEPT !.st = "wait", !.seq = s, !.id = count.id + 1, !.cmd = cmd,
                                 !.pos = pos, !.waited = 0, !.result = "none", !.from = 0]
  BY DEF StartCall
<1>2. \A p \in net : p.seq # s
  <2> DEFINE S == {t \in SeqNums : t # client.seq /\ (SeqsRepeat \/ \A p \in net : p.seq # t)}
  <2>1. S \in SUBSET SeqNums /\ NextSeqs = Draw(S)
    BY DEF NextSeqs
  <2>2. Draw(S) \subseteq S
    BY <2>1, SessionAssumption
  <2> QED BY <2>1, <2>2 DEF Calm
<1>3. /\ client'.st = "wait" /\ client'.id = count.id + 1 /\ client'.seq = s
      /\ client'.key = client.key /\ client'.result = "none" /\ client.st = "idle"
      /\ host' = host /\ runs' = runs
  BY <1>1 DEF TypeInv, TypeOK, Clients, StartCall, hist
<1> DEFINE q == Request'
<1>4. /\ net' = net \cup {q}
      /\ q.to = "server" /\ q.id = client'.id /\ q.key = client.key /\ q.seq = s
  BY <1>3 DEF StartCall, Request
<1> HIDE DEF q
<1>5. \A p \in net : p.id # count.id + 1
  BY DEF IdsKnown, TypeInv, TypeOK, Packets, Ids, Counts
<1>6. KeyUnused(client.key)
  BY <1>3 DEF AckInv, NextCall
<1>7. OneIdPerKey' /\ RetryRan' /\ SuccessRan'
  BY <1>3, <1>4, <1>6 DEF AckInv, OneIdPerKey, RetryRan, SuccessRan, KeyUnused
<1>8. NextCall' /\ ToldRan'
  BY <1>3 DEF NextCall, ToldRan
<1>9. ThisCall'
  <2>1. ASSUME NEW p \in net' PROVE Apart(p)'
    <3>1. CASE p = q
      BY <1>3, <1>4, <3>1 DEF Apart
    <3>2. CASE p \in net
      BY <1>2, <1>3, <1>5, <1>6, <3>2 DEF Apart, KeyUnused
    <3> QED BY <1>4, <3>1, <3>2
  <2>2. client'.key # host'.last_key
    BY <1>3, <1>6 DEF KeyUnused
  <2> QED BY <2>1, <2>2 DEF ThisCall
<1> QED BY <1>7, <1>8, <1>9 DEF AckInv

(* init_client(): nobody uses the new program's key. *)
LEMMA OpenStep == ASSUME TypeInv, AckInv, ClientOpen PROVE AckInv'
<1>1. PICK k \in GenNextKey, s \in Draw(SeqNums) :
        client' = [client EXCEPT !.st = "idle", !.key = k, !.seq = s, !.cmd = "none",
                                 !.result = "none", !.from = 0, !.base = count.id]
  BY DEF ClientOpen
<1>2. /\ client'.st = "idle" /\ client'.key = k /\ client'.result = "none"
      /\ host' = host /\ net' = net /\ runs' = runs
  BY <1>1 DEF TypeInv, TypeOK, Clients, ClientOpen, hist
<1>3. KeyUnused(k)
  BY FreshKey, FreshKeyUnused DEF KeysInUse, KeyUnused
<1>4. OneIdPerKey' /\ RetryRan' /\ SuccessRan'
  BY <1>2 DEF AckInv, OneIdPerKey, RetryRan, SuccessRan
<1> QED BY <1>2, <1>3, <1>4 DEF AckInv, NextCall, ThisCall, ToldRan, KeyUnused

(* Without a program there is only what is in flight. *)
LEMMA QuitStep ==
    ASSUME AckInv, client' = NoClient, net' \subseteq net, host' = host, runs' = runs
    PROVE  AckInv'
BY DEF AckInv, OneIdPerKey, RetryRan, SuccessRan, NextCall, ThisCall, ToldRan, NoClient

(* A reply accepted is one to the present call, by its sequence number. *)
LEMMA AcceptStep ==
    ASSUME TypeInv, AckInv, NEW m \in net, m.to = "client", client.st = "wait",
           ClientAccept(m), client.cmd # "bye", host' = host, runs' = runs
    PROVE  AckInv'
<1>1. /\ m.seq = client.seq /\ (m.cmd = client.cmd \/ m.cmd = "err")
      /\ net' \subseteq net /\ m.id \in Ids
  BY DEF ClientAccept, Accepts, Received, TypeInv, TypeOK, Packets
<1>2. m.id = client.id /\ KeyUnused(m.key)
  BY <1>1 DEF AckInv, ThisCall, Apart
<1>3. /\ client'.st = "idle" /\ client'.key = m.key /\ client'.from = m.id
      /\ client'.result = IF m.cmd = "err" THEN "err" ELSE "ok"
  BY DEF ClientAccept, TypeInv, TypeOK, Clients
<1>4. OneIdPerKey' /\ RetryRan' /\ SuccessRan' /\ ThisCall'
  BY <1>1, <1>3 DEF AckInv, OneIdPerKey, RetryRan, SuccessRan, ThisCall
<1>5. NextCall'
  BY <1>1, <1>2, <1>3 DEF NextCall, KeyUnused
<1>6. ToldRan'
  BY <1>1, <1>3 DEF AckInv, SuccessRan, ToldRan
<1> QED BY <1>4, <1>5, <1>6 DEF AckInv

LEMMA AckNext == Calm /\ TypeInv /\ IdsKnown /\ AckInv /\ [Next]_vars => AckInv'
<1> SUFFICES ASSUME Calm, TypeInv, IdsKnown, AckInv, [Next]_vars PROVE AckInv'
  OBVIOUS
<1>0. host \in Hosts /\ client \in Clients /\ net \subseteq Packets
  BY DEF TypeInv, TypeOK
<1>1. ASSUME NEW m \in net, ServerReceive(m) PROVE AckInv'
  <2>1. CASE ServerDrop(m)
    BY <2>1, QuietStep DEF ServerDrop, hist, Alike
  <2> QED BY <1>1, <2>1, RunStep, RetryStep DEF ServerReceive
<1>2. ASSUME NEW m \in net, ServerChecksumError(m) PROVE AckInv'
  BY <1>2 DEF ServerChecksumError, Fault, Calm
<1>3. ASSUME ServerRestart PROVE AckInv'
  BY <1>3 DEF ServerRestart, Fault, Calm
<1>4. ASSUME ClientCall \/ ClientBye PROVE AckInv'
  BY <1>4, StartStep DEF ClientCall, ClientBye
<1>5. ASSUME ClientResend PROVE AckInv'
  <2>1. /\ client'.st = client.st /\ client'.id = client.id /\ client'.key = client.key
        /\ client'.seq = client.seq /\ client'.result = client.result /\ client'.from = client.from
        /\ host' = host /\ runs' = runs
    BY <1>0, <1>5 DEF ClientResend, Clients, hist
  <2>2. net' = net \cup {Request} /\ Mine(Request)
    BY <1>5 DEF ClientResend, Request, Mine
  <2>3. \A p \in net' : Mine(p) \/ \E q \in net : Alike(p, q)
    BY <2>2 DEF Alike
  <2> QED BY <2>1, <2>3, QuietStep
<1>6. ASSUME NEW m \in net, ClientReceive(m) PROVE AckInv'
  <2>1. m.to = "client" /\ client.st = "wait" /\ host' = host /\ runs' = runs
    BY <1>6 DEF ClientReceive, hist
  <2>2. CASE ClientAccept(m)
    <3>1. CASE client.cmd = "bye"
      <4>1. client' = NoClient /\ net' \subseteq net
        BY <2>2, <3>1 DEF ClientAccept
      <4> QED BY <2>1, <4>1, QuitStep
    <3>2. CASE client.cmd # "bye"
      BY <2>1, <2>2, <3>2, AcceptStep
    <3> QED BY <3>1, <3>2
  <2>3. CASE ClientDiscard(m)
    BY <2>1, <2>3, QuietStep DEF ClientDiscard, Alike
  <2> QED BY <1>6, <2>2, <2>3 DEF ClientReceive
<1>7. ASSUME ClientQuit PROVE AckInv'
  BY <1>7, QuitStep DEF ClientQuit, hist
<1>8. ASSUME Tick PROVE AckInv'
  <2>1. /\ client'.st = client.st /\ client'.id = client.id /\ client'.key = client.key
        /\ client'.seq = client.seq /\ client'.result = client.result /\ client'.from = client.from
        /\ host'.next_key = host.next_key /\ host'.last_key = host.last_key /\ runs' = runs
    BY <1>0, <1>8 DEF Tick, Clients, Hosts, hist
  <2>2. \A p \in net' : \E q \in net : Alike(p, q)
    BY <1>0, <1>8 DEF Tick, Packets, Alike
  <2> QED BY <2>1, <2>2, QuietStep
<1>9. ASSUME UNCHANGED vars PROVE AckInv'
  BY <1>9, QuietStep DEF vars, Alike
<1> QED
  BY <1>1, <1>2, <1>3, <1>4, <1>5, <1>6, <1>7, <1>8, <1>9, OpenStep DEF Next

(* As long as nothing is damaged and the server stays up, the "old" branch *)
(* never answers success to a request that did not run: whatever is lost,  *)
(* duplicated, delayed or reordered, and however programs come and go,     *)
(* only repetitions of what ran carry last_key.                            *)
THEOREM SuccessMeansRun == ASSUME Calm PROVE Spec => []AckImpliesRun
<1>1. Init => TypeInv /\ IdsKnown /\ AckInv
  BY SessionInit, AckInit DEF SessionInv
<1>2. TypeInv /\ IdsKnown /\ AckInv /\ [Next]_vars => (TypeInv /\ IdsKnown /\ AckInv)'
  BY TypeNext, IdsKnownNext, AckNext
<1>3. AckInv => AckImpliesRun
  BY DEF AckInv, ToldRan, AckImpliesRun
<1> QED BY <1>1, <1>2, <1>3, PTL DEF Spec
-----------------------------------------------------------------------------
(***************************************************************************)
(* The first program of the host and the server agree on the key.          *)
(*                                                                         *)
(* Assumed is that no datagram outlives session_timeout, and that a        *)
(* sequence number is not drawn again while it is in flight.               *)
(***************************************************************************)
Timely == Lifetime < SessionTimeout /\ SeqsRepeat = FALSE

(* Before the first program nothing is in flight; a program whose BYE is   *)
(* answered is gone.                                                       *)
Begun == /\ count.opens = 0 => client.st = "off" /\ net = {} /\ ~host.active
         /\ client.st = "idle" => client.cmd # "bye"

First == InSession /\ count.opens = 1 /\ count.faults = 0

(* A request is no BYE; of the present call it has the program's key, and  *)
(* only what belongs to the present call has its sequence number.          *)
Asked(p) == /\ p.to = "server" => p.cmd # "bye"
            /\ client.st = "wait" => /\ p.to = "server" /\ p.id = client.id => p.key = client.key
                                     /\ p.seq = client.seq => p.id = client.id

(* No session yet: all that is in flight asks for one. *)
Unheard == /\ client.st = "idle" => net = {}
           /\ \A p \in net : p.to = "server" /\ p.key = client.key

(* A request with neither key was sent before the server was last heard;   *)
(* next_key is the present call's, which has not run, or on no request.    *)
Known(p) == p.to = "server" => /\ p.key \in {host.next_key, host.last_key} \/ p.age >= host.idle
                               /\ p.key = host.next_key => client.st = "wait" /\ client.key = host.next_key

(* The program's key is next_key and its call not answered, or it is       *)
(* last_key and each answer to the call offers next_key.                   *)
Unrun == /\ client.key = host.next_key
         /\ client.st = "wait" => \A p \in net : p.to = "client" => p.id # client.id
Ran == /\ client.st = "wait" /\ client.key = host.last_key /\ host.next_key # host.last_key
       /\ \A p \in net : p.to = "client" /\ p.id = client.id => p.key = host.next_key

FirstInv == First => /\ \A p \in net : Asked(p)
                     /\ ~host.active => Unheard
                     /\ host.active => (Unrun \/ Ran) /\ \A p \in net : Known(p)

LEMMA FirstInit == Init => Begun /\ FirstInv
BY DEF Init, NewHost, NoClient, Begun, FirstInv, First, InSession

LEMMA BegunNext == Begun /\ TypeInv /\ [Next]_vars => Begun'
<1> SUFFICES ASSUME Begun, TypeInv, [Next]_vars PROVE Begun'
  OBVIOUS
<1>0. /\ host \in Hosts /\ client \in Clients /\ count \in Counts
      /\ count.opens \in Nat
  BY SessionAssumption DEF TypeInv, TypeOK, Counts
<1>1. ASSUME NEW m \in net, count'.opens = count.opens,
             \/ client'.st = client.st /\ client'.cmd = client.cmd
             \/ client' = NoClient
             \/ client'.cmd = client.cmd /\ client.cmd # "bye"
      PROVE  Begun'
  BY <1>1 DEF Begun, NoClient
<1>2. ASSUME NEW m \in net, ServerReceive(m) PROVE Begun'
  <2>1. client' = client /\ count'.opens = count.opens
    BY <1>0, <1>2 DEF ServerReceive, ServerRun, ServerRetry, ServerDrop, Received, Counts
  <2> QED BY <1>1, <2>1
<1>3. ASSUME NEW m \in net, ServerChecksumError(m) PROVE Begun'
  <2>1. client' = client /\ count'.opens = count.opens
    BY <1>0, <1>3 DEF ServerChecksumError, Fault, Counts
  <2> QED BY <1>1, <2>1
<1>4. CASE ServerRestart
  <2>1. client' = client /\ net' = net /\ host' = NewHost /\ count'.opens = count.opens
    BY <1>0, <1>4 DEF ServerRestart, Fault, Counts
  <2> QED BY <2>1 DEF Begun, NewHost
<1>5. CASE ClientOpen
  <2>1. client'.cmd = "none" /\ count'.opens = count.opens + 1
    BY <1>0, <1>5 DEF ClientOpen, Clients, Counts
  <2> QED BY <1>0, <2>1 DEF Begun
<1>6. CASE ClientCall \/ ClientBye
  <2>1. client.st = "idle" /\ client'.st = "wait" /\ count'.opens = count.opens
    BY <1>0, <1>6 DEF ClientCall, ClientBye, StartCall, Clients, Counts
  <2> QED BY <2>1 DEF Begun
<1>7. CASE ClientResend
  <2>1. client.st = "wait" /\ client'.st = "wait" /\ count'.opens = count.opens
    BY <1>0, <1>7 DEF ClientResend, Clients
  <2> QED BY <2>1 DEF Begun
<1>8. ASSUME NEW m \in net, ClientReceive(m) PROVE Begun'
  <2>1. count'.opens = count.opens
    BY <1>0, <1>8 DEF ClientReceive, ClientAccept, ClientDiscard, Received, Counts
  <2>2. \/ client' = client \/ client' = NoClient
        \/ client'.st = "idle" /\ client'.cmd = client.cmd /\ client.cmd # "bye"
    BY <1>0, <1>8 DEF ClientReceive, ClientAccept, ClientDiscard, Clients
  <2> QED BY <1>1, <2>1, <2>2
<1>9. CASE ClientQuit
  BY <1>9 DEF ClientQuit, NoClient, Begun
<1>10. CASE Tick
  <2>1. client'.st = client.st /\ client'.cmd = client.cmd /\ host'.active = host.active /\ count' = count
    BY <1>0, <1>10 DEF Tick, Clients, Hosts
  <2>2. net = {} => net' = {}
    BY <1>10 DEF Tick
  <2> QED BY <2>1, <2>2 DEF Begun
<1>11. CASE UNCHANGED vars
  BY <1>11 DEF vars, Begun
<1> QED BY <1>2, <1>3, <1>4, <1>5, <1>6, <1>7, <1>8, <1>9, <1>10, <1>11 DEF Next

(* Nothing is sent: what is in flight is what was, or less, perhaps older. *)
LEMMA FirstQuiet ==
    ASSUME TypeInv, FirstInv, First' => First,
           host'.active = host.active, host'.next_key = host.next_key, host'.last_key = host.last_key,
           client'.st = client.st, client'.id = client.id, client'.key = client.key, client'.seq = client.seq,
           \A p \in net' : \E q \in net : Alike(p, q) /\ (q.age >= host.idle => p.age >= host'.idle)
    PROVE  FirstInv'
<1> SUFFICES ASSUME First' PROVE FirstInv'
  BY DEF FirstInv
<1>1. First
  OBVIOUS
<1>2. \A p \in net : Asked(p)
  BY <1>1 DEF FirstInv
<1>3. ASSUME NEW p \in net' PROVE Asked(p)'
  BY <1>2, <1>3 DEF Asked, Alike
<1>4. Unheard => Unheard'
  BY DEF Unheard, Alike
<1>5. Unrun => Unrun'
  BY DEF Unrun, Alike
<1>6. Ran => Ran'
  BY DEF Ran, Alike
<1>7. ASSUME \A q \in net : Known(q), NEW p \in net' PROVE Known(p)'
  <2>1. PICK q \in net : Alike(p, q) /\ (q.age >= host.idle => p.age >= host'.idle)
    OBVIOUS
  <2>2. Known(q)
    BY <1>7
  <2> QED BY <2>1, <2>2 DEF Known, Alike
<1> QED BY <1>1, <1>3, <1>4, <1>5, <1>6, <1>7 DEF FirstInv

LEMMA FirstRun ==
    ASSUME Timely, TypeInv, FirstInv, NEW m \in net, m.to = "server", ServerRun(m)
    PROVE  FirstInv'
<1>1. PICK rest \in {net, net \ {m}}, key \in GenNextKey, out \in Outcomes(m.cmd) :
          /\ Received(m, rest)
          /\ host' = Renewed(m, key)
          /\ net' = rest \cup {Reply(m, key, out)}
  BY DEF ServerRun
<1> DEFINE r == Reply(m, key, out)
<1>2. /\ host'.next_key = key /\ host'.last_key = m.key /\ host'.idle = 0 /\ host'.active = (m.cmd # "bye")
      /\ client' = client /\ r.to = "client" /\ r.id = m.id /\ r.key = key /\ r.seq = m.seq
  BY <1>1 DEF Renewed, Reply, ServerRun
<1> HIDE DEF r
<1>3. \A p \in net' : p = r \/ p \in net
  BY <1>1 DEF r
<1>4. count'.opens = count.opens /\ count'.faults = count.faults
  BY <1>1 DEF Received, TypeInv, TypeOK, Counts
<1> SUFFICES ASSUME First PROVE FirstInv'
  BY <1>2, <1>4 DEF FirstInv, First, InSession
<1>5. key # client.key /\ \A p \in net : p.to = "server" => p.key # key
  BY FreshKeyUnused
<1>6. m.key = client.key /\ client.st = "wait" /\ m.cmd # "bye" /\ \A p \in net : p.to = "client" => p.id # client.id
  <2>1. CASE ~host.active
    <3>1. client.st # "off"
      BY DEF First, InSession
    <3>2. client.st \in {"idle", "wait"}
      BY <3>1 DEF TypeInv, TypeOK, Clients
    <3> QED BY <2>1, <3>2 DEF FirstInv, Unheard, Asked
  <2>2. CASE host.active
    <3>1. m.age <= Lifetime /\ m.age \in Nat
      BY SessionAssumption DEF TypeInv, TypeOK, Packets
    <3>2. host.idle \in Nat
      BY SessionAssumption DEF TypeInv, TypeOK, Hosts
    <3>3. m.key = host.next_key
      <4>1. SUFFICES ASSUME m.key # host.next_key PROVE FALSE
        OBVIOUS
      <4>2. host.last_key # m.key /\ host.idle >= SessionTimeout
        BY <2>2, <4>1 DEF ServerRun, TakesNew
      <4>3. m.age >= host.idle
        BY <2>2, <4>1, <4>2 DEF FirstInv, Known
      <4> QED BY <3>1, <3>2, <4>2, <4>3, SessionAssumption DEF Timely
    <3>4. client.st = "wait" /\ client.key = host.next_key
      BY <2>2, <3>3 DEF FirstInv, Known
    <3>5. Unrun
      BY <2>2, <3>4 DEF FirstInv, Ran
    <3> QED BY <2>2, <3>3, <3>4, <3>5 DEF FirstInv, Unrun, Asked
  <2> QED BY <2>1, <2>2
<1>7. \A p \in net' : Asked(p)'
  BY <1>2, <1>3 DEF FirstInv, Asked
<1>8. Ran'
  BY <1>2, <1>3, <1>5, <1>6 DEF Ran
<1>9. ASSUME NEW p \in net' PROVE Known(p)'
  <2>1. CASE p = r
    BY <1>2, <2>1 DEF Known
  <2>2. CASE p \in net
    <3>1. p.age >= 0
      BY <2>2 DEF TypeInv, TypeOK, Packets
    <3> QED BY <1>2, <1>5, <2>2, <3>1 DEF Known
  <2> QED BY <1>3, <2>1, <2>2
<1> QED BY <1>2, <1>6, <1>7, <1>8, <1>9 DEF FirstInv

LEMMA FirstRetry ==
    ASSUME TypeInv, FirstInv, NEW m \in net, m.to = "server", ServerRetry(m)
    PROVE  FirstInv'
<1>1. PICK rest \in {net, net \ {m}}, out \in RetryOutcomes(m.cmd) :
          /\ Received(m, rest)
          /\ net' = rest \cup {Reply(m, host.next_key, out)}
  BY DEF ServerRetry
<1> DEFINE r == Reply(m, host.next_key, out)
<1>2. /\ client' = client /\ r.to = "client" /\ r.id = m.id /\ r.key = host.next_key /\ r.seq = m.seq
      /\ host.active /\ m.key = host.last_key /\ host.next_key # host.last_key
  BY DEF Reply, ServerRetry, TakesRetry
<1>3. /\ host'.next_key = host.next_key /\ host'.last_key = host.last_key /\ host'.idle = 0
      /\ host'.active = (m.cmd # "bye")
  BY DEF ServerRetry, TypeInv, TypeOK, Hosts
<1> HIDE DEF r
<1>4. \A p \in net' : p = r \/ p \in net
  BY <1>1 DEF r
<1>5. count'.opens = count.opens /\ count'.faults = count.faults
  BY <1>1 DEF Received, TypeInv, TypeOK, Counts
<1> SUFFICES ASSUME First PROVE FirstInv'
  BY <1>2, <1>5 DEF FirstInv, First, InSession
<1>6. m.cmd # "bye" /\ (Unrun \/ Ran) /\ \A p \in net : Known(p) /\ Asked(p)
  BY <1>2 DEF FirstInv, Asked
<1>7. \A p \in net' : Asked(p)'
  BY <1>2, <1>4, <1>6 DEF Asked
<1>8. Unrun' \/ Ran'
  <2>1. CASE Unrun
    <3>1. client.st = "wait" => m.id # client.id
      BY <1>2, <1>6, <2>1 DEF Unrun, Asked
    <3> QED BY <1>2, <1>3, <1>4, <2>1, <3>1 DEF Unrun
  <2>2. CASE Ran
    BY <1>2, <1>3, <1>4, <2>2 DEF Ran
  <2> QED BY <1>6, <2>1, <2>2
<1>9. ASSUME NEW p \in net' PROVE Known(p)'
  <2>1. CASE p = r
    BY <1>2, <2>1 DEF Known
  <2>2. CASE p \in net
    <3>1. p.age >= 0
      BY <2>2 DEF TypeInv, TypeOK, Packets
    <3> QED BY <1>2, <1>3, <1>6, <2>2, <3>1 DEF Known
  <2> QED BY <1>4, <2>1, <2>2
<1> QED BY <1>3, <1>6, <1>7, <1>8, <1>9 DEF FirstInv

LEMMA FirstStart ==
    ASSUME Timely, TypeInv, IdsKnown, Begun, FirstInv, NEW cmd, NEW pos, StartCall(cmd, pos)
    PROVE  FirstInv'
<1>1. PICK s \in NextSeqs :
        client' = [client EXCEPT !.st = "wait", !.seq = s, !.id = count.id + 1, !.cmd = cmd,
                                 !.pos = pos, !.waited = 0, !.result = "none", !.from = 0]
  BY DEF StartCall
<1>2. \A p \in net : p.seq # s
  <2> DEFINE S == {t \in SeqNums : t # client.seq /\ (SeqsRepeat \/ \A p \in net : p.seq # t)}
  <2>1. S \in SUBSET SeqNums /\ NextSeqs = Draw(S)
    BY DEF NextSeqs
  <2>2. Draw(S) \subseteq S
    BY <2>1, SessionAssumption
  <2> QED BY <2>1, <2>2 DEF Timely
<1>3. /\ client'.st = "wait" /\ client'.id = count.id + 1 /\ client'.seq = s /\ client'.cmd = cmd
      /\ client'.key = client.key /\ client.st = "idle" /\ host' = host
      /\ count'.opens = count.opens /\ count'.faults = count.faults
  BY <1>1 DEF TypeInv, TypeOK, Clients, Counts, StartCall
<1> DEFINE q == Request'
<1>4. /\ net' = net \cup {q}
      /\ q.to = "server" /\ q.id = client'.id /\ q.key = client.key /\ q.seq = s /\ q.cmd = cmd
  BY <1>3 DEF StartCall, Request
<1> HIDE DEF q
<1>5. \A p \in net : p.id # count.id + 1
  BY DEF IdsKnown, TypeInv, TypeOK, Packets, Ids, Counts
<1> SUFFICES ASSUME First' PROVE FirstInv'
  BY DEF FirstInv
<1>6. First /\ cmd # "bye"
  <2>1. cmd # "bye" /\ client.st # "off" /\ count.opens = 1 /\ count.faults = 0
    BY <1>3 DEF First, InSession
  <2>2. client.cmd # "bye"
    BY <1>3 DEF Begun
  <2> QED BY <2>1, <2>2 DEF First, InSession
<1>7. ASSUME NEW p \in net' PROVE Asked(p)'
  <2>1. CASE p = q
    <3>1. p.to = "server" /\ p.cmd # "bye" /\ p.id = client'.id /\ p.key = client'.key
      BY <1>3, <1>4, <1>6, <2>1
    <3> QED BY <3>1 DEF Asked
  <2>2. CASE p \in net
    BY <1>2, <1>3, <1>5, <1>6, <2>2 DEF FirstInv, Asked
  <2> QED BY <1>4, <2>1, <2>2
<1>8. ~host.active => Unheard'
  BY <1>3, <1>4, <1>6 DEF FirstInv, Unheard
<1>9. host.active => Unrun' /\ \A p \in net' : Known(p)'
  <2>1. host.active => Unrun
    BY <1>3, <1>6 DEF FirstInv, Ran
  <2>2. host.active => Unrun'
    BY <1>3, <1>4, <1>5, <2>1 DEF Unrun
  <2>3. ASSUME host.active, NEW p \in net' PROVE Known(p)'
    BY <1>3, <1>4, <1>6, <2>1, <2>3 DEF FirstInv, Known, Unrun
  <2> QED BY <2>2, <2>3
<1> QED BY <1>3, <1>7, <1>8, <1>9 DEF FirstInv

LEMMA FirstAccept ==
    ASSUME TypeInv, FirstInv, NEW m \in net, m.to = "client", client.st = "wait",
           ClientAccept(m), client.cmd # "bye", host' = host
    PROVE  FirstInv'
<1>1. m.seq = client.seq /\ net' \subseteq net /\ count'.opens = count.opens /\ count'.faults = count.faults
  BY DEF ClientAccept, Accepts, Received, TypeInv, TypeOK, Counts
<1>2. /\ client'.st = "idle" /\ client'.key = m.key /\ client'.id = client.id /\ client'.cmd = client.cmd
  BY DEF ClientAccept, TypeInv, TypeOK, Clients
<1> SUFFICES ASSUME First PROVE FirstInv'
  BY <1>1, <1>2 DEF FirstInv, First, InSession
<1>3. m.id = client.id /\ host.active
  BY <1>1 DEF FirstInv, Asked, Unheard
<1>4. Ran
  BY <1>3 DEF FirstInv, Unrun
<1>5. \A p \in net' : Asked(p)'
  BY <1>1, <1>2 DEF FirstInv, Asked
<1>6. Unrun'
  BY <1>2, <1>3, <1>4 DEF Ran, Unrun
<1>7. \A p \in net' : Known(p)'
  BY <1>1, <1>2, <1>3, <1>4 DEF FirstInv, Ran, Known
<1> QED BY <1>3, <1>5, <1>6, <1>7 DEF FirstInv

LEMMA FirstNext == Timely /\ TypeInv /\ IdsKnown /\ Begun /\ FirstInv /\ [Next]_vars => FirstInv'
<1> SUFFICES ASSUME Timely, TypeInv, IdsKnown, Begun, FirstInv, [Next]_vars PROVE FirstInv'
  OBVIOUS
<1>0. host \in Hosts /\ client \in Clients /\ net \subseteq Packets /\ count \in Counts
  BY DEF TypeInv, TypeOK
<1>1. ASSUME NEW m \in net, ServerReceive(m) PROVE FirstInv'
  <2>1. CASE ServerDrop(m)
    BY <2>1, FirstQuiet DEF ServerDrop, Alike, First, InSession
  <2> QED BY <1>1, <2>1, FirstRun, FirstRetry DEF ServerReceive
<1>2. ASSUME Fault("damage") \/ Fault("restart") PROVE FirstInv'
  <2>1. count'.faults > 0
    BY <1>0, <1>2 DEF Fault, Counts
  <2> QED BY <2>1 DEF FirstInv, First
<1>3. ASSUME ClientCall \/ ClientBye PROVE FirstInv'
  BY <1>3, FirstStart DEF ClientCall, ClientBye
<1>4. ASSUME ClientOpen PROVE FirstInv'
  <2>1. count'.opens = count.opens + 1 /\ count.opens \in Nat /\ net' = net /\ host' = host
    BY <1>0, <1>4 DEF ClientOpen, Counts
  <2>2. First' => net = {} /\ ~host.active
    BY <2>1 DEF First, Begun
  <2> QED BY <2>1, <2>2 DEF FirstInv, Unheard
<1>5. ASSUME ClientResend PROVE FirstInv'
  <2>1. /\ client'.st = client.st /\ client'.id = client.id /\ client'.key = client.key /\ client.st = "wait"
        /\ client'.seq = client.seq /\ client'.cmd = client.cmd /\ host' = host /\ count' = count
    BY <1>0, <1>5 DEF ClientResend, Clients
  <2> DEFINE q == Request
  <2>2. net' = net \cup {q} /\ q.to = "server" /\ q.id = client.id /\ q.key = client.key /\ q.cmd = client.cmd
    BY <1>5 DEF ClientResend, Request
  <2> HIDE DEF q
  <2> SUFFICES ASSUME First PROVE FirstInv'
    BY <2>1 DEF FirstInv, First, InSession
  <2>3. \A p \in net' : Asked(p)'
    BY <2>1, <2>2 DEF FirstInv, Asked, First, InSession
  <2>4. ~host.active => Unheard'
    BY <2>1, <2>2 DEF FirstInv, Unheard
  <2>5. host.active => (Unrun \/ Ran)'
    BY <2>1, <2>2 DEF FirstInv, Unrun, Ran
  <2>6. ASSUME host.active, NEW p \in net' PROVE Known(p)'
    BY <2>1, <2>2, <2>6 DEF FirstInv, Unrun, Ran, Known
  <2> QED BY <2>1, <2>3, <2>4, <2>5, <2>6 DEF FirstInv
<1>6. ASSUME NEW m \in net, ClientReceive(m) PROVE FirstInv'
  <2>1. m.to = "client" /\ client.st = "wait" /\ host' = host
    BY <1>6 DEF ClientReceive
  <2>2. CASE ClientAccept(m) /\ client.cmd = "bye"
    BY <2>2 DEF ClientAccept, NoClient, FirstInv, First, InSession
  <2>3. CASE ClientAccept(m) /\ client.cmd # "bye"
    BY <2>1, <2>3, FirstAccept
  <2>4. CASE ClientDiscard(m)
    BY <2>1, <2>4, FirstQuiet DEF ClientDiscard, Alike, First, InSession
  <2> QED BY <1>6, <2>2, <2>3, <2>4 DEF ClientReceive
<1>7. ASSUME ClientQuit PROVE FirstInv'
  BY <1>7 DEF ClientQuit, NoClient, FirstInv, First, InSession
<1>8. ASSUME Tick PROVE FirstInv'
  <2>1. /\ client'.st = client.st /\ client'.id = client.id /\ client'.key = client.key
        /\ client'.seq = client.seq /\ client'.cmd = client.cmd /\ count' = count
    BY <1>0, <1>8 DEF Tick, Clients
  <2>2. /\ host'.active = host.active /\ host'.next_key = host.next_key /\ host'.last_key = host.last_key
        /\ host'.idle <= host.idle + 1 /\ host.idle \in Nat /\ host'.idle \in Nat
    BY <1>0, <1>8, SessionAssumption DEF Tick, Hosts
  <2>3. ASSUME NEW p \in net' PROVE \E q \in net : Alike(p, q) /\ (q.age >= host.idle => p.age >= host'.idle)
    <3>1. PICK q \in net : p = [q EXCEPT !.age = @ + 1]
      BY <1>8 DEF Tick
    <3>2. q \in Packets /\ q.age \in Nat
      BY <1>0, SessionAssumption DEF Packets
    <3>3. Alike(p, q) /\ p.age = q.age + 1
      BY <3>1, <3>2 DEF Packets, Alike
    <3> QED BY <2>2, <3>2, <3>3
  <2> QED BY <2>1, <2>2, <2>3, FirstQuiet DEF First, InSession
<1>9. ASSUME UNCHANGED vars PROVE FirstInv'
  BY <1>9, FirstQuiet DEF vars, Alike, First, InSession
<1> QED
  BY <1>1, <1>2, <1>3, <1>4, <1>5, <1>6, <1>7, <1>8, <1>9 DEF Next, ServerChecksumError, ServerRestart

(* The key of the host's first program is one of the two the server has,   *)
(* whatever is lost, duplicated or late, and however often requests are    *)
(* repeated: it never waits for session_timeout to be heard.               *)
THEOREM KeysAgree == ASSUME Timely PROVE Spec => []KeyAgreement
<1>1. Init => TypeInv /\ IdsKnown /\ Begun /\ FirstInv
  BY SessionInit, FirstInit DEF SessionInv
<1>2. TypeInv /\ IdsKnown /\ Begun /\ FirstInv /\ [Next]_vars => (TypeInv /\ IdsKnown /\ Begun /\ FirstInv)'
  BY TypeNext, IdsKnownNext, BegunNext, FirstNext
<1>3. FirstInv => KeyAgreement
  BY DEF FirstInv, First, Unrun, Ran, KeyAgreement
<1> QED BY <1>1, <1>2, <1>3, PTL DEF Spec
-----------------------------------------------------------------------------
(***************************************************************************)
(* Session implements RpcSpec: as long as a program has not said BYE each  *)
(* of its calls is run once, between the call and its return, whoever used *)
(* the host's address before it and whatever is lost, repeated, late or    *)
(* damaged.  Assumed is Timely, and that the server is not restarted.      *)
(***************************************************************************)
Steady == Timely /\ Faults \subseteq {"damage"}

(* What was not asked for was not run; a program's calls are the last made. *)
Unmade == /\ \A i \in Ids : i > count.id => runs[i] = 0
          /\ client.st # "off" => client.base <= count.id
          /\ client.st = "wait" => client.id = count.id /\ client.base < client.id

(* p is about the present call. *)
Present(p) == client.st = "wait" /\ p.id = client.id

(* The present call has a key and a sequence number of its own. *)
Labelled(p) ==
    /\ p.to = "server" => /\ Present(p) <=> p.key = client.key
                          /\ Present(p) => p.cmd # "bye"
    /\ client.st = "wait" /\ p.seq = client.seq => p.id = client.id

(* No call of the program was run yet. *)
Unknown == \A p \in net : p.to = "server" /\ p.id > client.base => Present(p)

(* The program's session: a request with another key than last_key, the    *)
(* present call's apart, and each reply, is at least as old as what the    *)
(* server heard last, so that none is left when the session can be         *)
(* overridden; and next_key is on no request but the present call's.       *)
Fenced ==
    /\ host.active /\ host.next_key # host.last_key
    /\ \A p \in net :
           /\ p.to = "server" => /\ p.key \in {host.last_key, client.key} \/ p.age >= host.idle
                                 /\ p.key = host.next_key => p.key = client.key
                                 /\ p.key = host.last_key => p.cmd # "bye"
           /\ p.to = "client" => p.age >= host.idle

(* The present call was not run, and not answered; or run once, and each   *)
(* answer offers next_key.                                                 *)
Before == /\ client.key # host.last_key
          /\ client.st = "wait" => runs[client.id] = 0
          /\ \A p \in net : p.to = "client" => ~Present(p)
After == /\ client.st = "wait" /\ client.key = host.last_key
         /\ runs[client.id] = 1
         /\ \A p \in net : p.to = "client" /\ Present(p) => p.key = host.next_key

Linked == /\ \A p \in net : Labelled(p)
          /\ \/ Unknown /\ Before
             \/ Fenced /\ (Before \/ After)

RpcInv == Unmade /\ (InSession => Linked)

LEMMA RpcInit == Init => RpcInv
BY DEF Init, NoClient, RpcInv, Unmade, InSession

LEMMA UnmadeNext == TypeInv /\ IdsKnown /\ Unmade /\ [Next]_vars => Unmade'
<1> SUFFICES ASSUME TypeInv, IdsKnown, Unmade, [Next]_vars PROVE Unmade'
  OBVIOUS
<1>0. /\ client \in Clients /\ count \in Counts /\ net \subseteq Packets /\ runs \in [Ids -> 0..2]
      /\ client.id \in Nat /\ client.base \in Nat /\ count.id \in Nat
  BY SessionAssumption DEF TypeInv, TypeOK, Clients, Counts
<1>1. ASSUME client'.st = client.st, client'.id = client.id, client'.base = client.base,
             count'.id = count.id, runs' = runs
      PROVE  Unmade'
  BY <1>1 DEF Unmade
<1>2. ASSUME NEW m \in net, ServerReceive(m) PROVE Unmade'
  <2>1. client' = client /\ count'.id = count.id
    BY <1>0, <1>2 DEF ServerReceive, ServerRun, ServerRetry, ServerDrop, Received, Counts
  <2>2. CASE runs' = runs
    BY <1>1, <2>1, <2>2
  <2>3. CASE ServerRun(m)
    <3>1. m.id \in Ids /\ m.id \in Nat /\ m.id <= count.id
      BY <1>0 DEF Packets, IdsKnown, Ids
    <3>2. ASSUME NEW i \in Ids, i > count.id PROVE runs'[i] = 0
      <4>1. i # m.id
        BY <1>0, <3>1, <3>2 DEF Ids
      <4>2. runs'[i] = runs[i]
        BY <1>0, <2>3, <3>1, <4>1 DEF ServerRun
      <4> QED BY <3>2, <4>2 DEF Unmade
    <3> QED BY <2>1, <3>2 DEF Unmade
  <2> QED BY <1>2, <2>2, <2>3 DEF ServerReceive, ServerRetry, ServerDrop, hist
<1>3. ASSUME NEW m \in net, ServerChecksumError(m) PROVE Unmade'
  BY <1>0, <1>1, <1>3 DEF ServerChecksumError, Fault, Counts
<1>4. CASE ServerRestart
  BY <1>0, <1>1, <1>4 DEF ServerRestart, Fault, Counts
<1>5. CASE ClientOpen
  <2>1. client'.st = "idle" /\ client'.base = count.id /\ count'.id = count.id /\ runs' = runs
    BY <1>0, <1>5 DEF ClientOpen, Clients, Counts, hist
  <2> QED BY <1>0, <2>1 DEF Unmade
<1>6. CASE ClientCall \/ ClientBye
  <2>1. /\ client.st = "idle" /\ client'.st = "wait" /\ client'.id = count.id + 1 /\ client'.base = client.base
        /\ count'.id = count.id + 1 /\ runs' = runs
    BY <1>0, <1>6 DEF ClientCall, ClientBye, StartCall, Clients, Counts, hist
  <2>2. client.base <= count.id
    BY <2>1 DEF Unmade
  <2> QED BY <1>0, <2>1, <2>2 DEF Unmade, Ids
<1>7. CASE ClientResend
  BY <1>0, <1>1, <1>7 DEF ClientResend, Clients, hist
<1>8. ASSUME NEW m \in net, ClientReceive(m) PROVE Unmade'
  <2>1. count'.id = count.id /\ runs' = runs /\ client.st = "wait"
    BY <1>0, <1>8 DEF ClientReceive, ClientAccept, ClientDiscard, Received, Counts, hist
  <2>2. \/ client' = client \/ client' = NoClient
        \/ client'.st = "idle" /\ client'.base = client.base
    BY <1>0, <1>8 DEF ClientReceive, ClientAccept, ClientDiscard, Clients
  <2> QED BY <2>1, <2>2 DEF Unmade, NoClient
<1>9. CASE ClientQuit
  BY <1>9 DEF ClientQuit, NoClient, Unmade, hist
<1>10. CASE Tick
  BY <1>0, <1>1, <1>10 DEF Tick, Clients, hist
<1>11. CASE UNCHANGED vars
  BY <1>1, <1>11 DEF vars
<1> QED BY <1>2, <1>3, <1>4, <1>5, <1>6, <1>7, <1>8, <1>9, <1>10, <1>11 DEF Next

(* All that is sent is the present request again. *)
LEMMA LinkedQuiet ==
    ASSUME InSession, Linked, InSession' => InSession,
           host'.active = host.active, host'.next_key = host.next_key, host'.last_key = host.last_key,
           client'.st = client.st, client'.id = client.id, client'.key = client.key,
           client'.seq = client.seq, client'.base = client.base, runs' = runs,
           \A p \in net' : \/ Mine(p) /\ p.cmd = client.cmd
                           \/ \E q \in net : Alike(p, q) /\ (q.age >= host.idle => p.age >= host'.idle)
    PROVE  Linked'
<1>1. ASSUME NEW p \in net', ~(Mine(p) /\ p.cmd = client.cmd)
      PROVE  \E q \in net : Alike(p, q) /\ (q.age >= host.idle => p.age >= host'.idle)
  BY <1>1
<1>2. ASSUME NEW p \in net' PROVE Labelled(p)'
  <2>1. CASE Mine(p) /\ p.cmd = client.cmd
    BY <2>1 DEF Mine, Labelled, Present, InSession
  <2>2. ASSUME NEW q \in net, Alike(p, q) PROVE Labelled(p)'
    BY <2>2 DEF Linked, Labelled, Present, Alike
  <2> QED BY <1>1, <2>1, <2>2
<1>3. Unknown => Unknown'
  BY DEF Unknown, Present, Mine, Alike
<1>4. Before => Before'
  BY DEF Before, Present, Mine, Alike
<1>5. After => After'
  BY DEF After, Present, Mine, Alike
<1>6. ASSUME Fenced PROVE Fenced'
  <2>1. ASSUME NEW p \in net'
        PROVE  /\ p.to = "server" => /\ p.key \in {host.last_key, client.key} \/ p.age >= host'.idle
                                     /\ p.key = host.next_key => p.key = client.key
                                     /\ p.key = host.last_key => p.cmd # "bye"
               /\ p.to = "client" => p.age >= host'.idle
    <3>1. CASE Mine(p) /\ p.cmd = client.cmd
      BY <3>1 DEF Mine, InSession
    <3>2. ASSUME NEW q \in net, Alike(p, q), q.age >= host.idle => p.age >= host'.idle
          PROVE  /\ p.to = "server" => /\ p.key \in {host.last_key, client.key} \/ p.age >= host'.idle
                                       /\ p.key = host.next_key => p.key = client.key
                                       /\ p.key = host.last_key => p.cmd # "bye"
                 /\ p.to = "client" => p.age >= host'.idle
      BY <1>6, <3>2 DEF Fenced, Alike
    <3> QED BY <1>1, <3>1, <3>2
  <2> QED BY <1>6, <2>1 DEF Fenced
<1> QED BY <1>2, <1>3, <1>4, <1>5, <1>6 DEF Linked

(* What is in flight once the session can be overridden. *)
LEMMA FenceHolds ==
    ASSUME Timely, TypeInv, Fenced, host.idle >= SessionTimeout, NEW p \in net
    PROVE  p.to = "server" /\ p.key \in {host.last_key, client.key}
<1>1. p.age <= Lifetime /\ p.age \in Nat /\ p.to \in {"server", "client"} /\ host.idle \in Nat
  BY SessionAssumption DEF TypeInv, TypeOK, Packets, Hosts
<1>2. ~(p.age >= host.idle)
  BY <1>1, SessionAssumption DEF Timely
<1> QED BY <1>1, <1>2 DEF Fenced

(* Of the program's requests only the present one is run, and once. *)
LEMMA LinkedRun ==
    ASSUME Timely, TypeInv, InSession, Linked, NEW m \in net, m.to = "server", ServerRun(m)
    PROVE  Linked' /\ (m.id > client.base => Present(m) /\ runs[m.id] = 0)
<1>1. PICK rest \in {net, net \ {m}}, key \in GenNextKey, out \in Outcomes(m.cmd) :
          /\ host' = Renewed(m, key)
          /\ net' = rest \cup {Reply(m, key, out)}
  BY DEF ServerRun
<1> DEFINE r == Reply(m, key, out)
<1>2. /\ host'.next_key = key /\ host'.last_key = m.key /\ host'.idle = 0 /\ host'.active = (m.cmd # "bye")
      /\ client' = client /\ r.to = "client" /\ r.id = m.id /\ r.key = key /\ r.seq = m.seq /\ r.age = 0
  BY <1>1 DEF Renewed, Reply, ServerRun
<1> HIDE DEF r
<1>3. \A p \in net' : p = r \/ p \in net
  BY <1>1 DEF r
<1>4. key # client.key /\ \A p \in net : p.to = "server" => p.key # key
  BY FreshKeyUnused
<1>5. /\ \A p \in net : p.age >= 0
      /\ m.id \in Ids /\ runs' = [runs EXCEPT ![m.id] = Min2(@ + 1)] /\ runs \in [Ids -> 0..2]
  BY DEF TypeInv, TypeOK, Packets, ServerRun
<1>6. ASSUME NEW p \in net' PROVE Labelled(p)'
  <2>1. CASE p = r
    BY <1>2, <2>1 DEF Linked, Labelled
  <2>2. CASE p \in net
    BY <1>2, <2>2 DEF Linked, Labelled, Present
  <2> QED BY <1>3, <2>1, <2>2
<1>7. Present(m) <=> m.key = client.key
  BY DEF Linked, Labelled
<1>8. CASE Present(m) /\ Before
  <2>1. client.st = "wait" /\ m.id = client.id /\ runs[m.id] = 0 /\ m.cmd # "bye"
    BY <1>8 DEF Present, Before, Linked, Labelled
  <2>2. runs'[client.id] = 1
    BY <1>5, <2>1 DEF Min2
  <2>3. After'
    <3>1. ASSUME NEW p \in net', p.to = "client", p.id = client.id PROVE p.key = key
      BY <1>2, <1>3, <2>1, <3>1, <1>8 DEF Before, Present
    <3> QED BY <1>2, <1>7, <1>8, <2>1, <2>2, <3>1 DEF After, Present
  <2>4. Fenced'
    <3>1. ASSUME NEW p \in net'
          PROVE  /\ p.age >= 0
                 /\ p.to = "server" => p.key # key /\ (p.key = m.key => p.cmd # "bye")
      <4>1. CASE p = r
        BY <1>2, <4>1
      <4>2. CASE p \in net
        BY <1>4, <1>5, <1>7, <1>8, <4>2 DEF Linked, Labelled
      <4> QED BY <1>3, <4>1, <4>2
    <3>2. key # m.key
      BY <1>4
    <3> QED BY <1>2, <2>1, <3>1, <3>2 DEF Fenced
  <2> QED BY <1>6, <1>8, <2>1, <2>3, <2>4 DEF Linked
<1>9. CASE Fenced /\ ~(Present(m) /\ Before)
  <2>1. m.key = host.next_key \/ (host.last_key # m.key /\ host.idle >= SessionTimeout)
    BY <1>9 DEF Fenced, ServerRun, TakesNew
  <2>2. m.key = client.key /\ m.key # host.last_key
    <3>1. CASE m.key = host.next_key
      BY <1>9, <3>1 DEF Fenced
    <3>2. CASE host.last_key # m.key /\ host.idle >= SessionTimeout
      BY <1>9, <3>2, FenceHolds
    <3> QED BY <2>1, <3>1, <3>2
  <2> QED BY <1>7, <1>9, <2>2 DEF Linked, After
<1>10. CASE Unknown /\ Before /\ ~Present(m)
  <2>1. ~(m.id > client.base)
    BY <1>10 DEF Unknown
  <2>2. Unknown'
    BY <1>2, <1>3, <1>10 DEF Unknown, Present
  <2>3. client.st = "wait" => m.id # client.id
    BY <1>10 DEF Present
  <2>4. client.st = "wait" => runs'[client.id] = 0
    BY <1>5, <1>10, <2>3 DEF Before
  <2>5. \A p \in net' : p.to = "client" => ~Present(p)'
    BY <1>2, <1>3, <1>10, <2>3 DEF Before, Present
  <2>6. Before'
    BY <1>2, <1>7, <1>10, <2>4, <2>5 DEF Before
  <2> QED BY <1>6, <2>1, <2>2, <2>6 DEF Linked
<1> QED BY <1>8, <1>9, <1>10 DEF Linked

LEMMA LinkedRetry ==
    ASSUME TypeInv, InSession, Linked, NEW m \in net, m.to = "server", ServerRetry(m)
    PROVE  Linked'
<1>1. PICK rest \in {net, net \ {m}}, out \in RetryOutcomes(m.cmd) :
          net' = rest \cup {Reply(m, host.next_key, out)}
  BY DEF ServerRetry
<1> DEFINE r == Reply(m, host.next_key, out)
<1>2. /\ client' = client /\ runs' = runs /\ r.to = "client" /\ r.id = m.id /\ r.key = host.next_key
      /\ r.seq = m.seq /\ r.age = 0 /\ m.key = host.last_key
  BY DEF Reply, ServerRetry, TakesRetry, hist
<1>3. /\ host'.next_key = host.next_key /\ host'.last_key = host.last_key /\ host'.idle = 0
      /\ host'.active = (m.cmd # "bye")
  BY DEF ServerRetry, TypeInv, TypeOK, Hosts
<1> HIDE DEF r
<1>4. \A p \in net' : p = r \/ p \in net
  BY <1>1 DEF r
<1>5. \A p \in net : p.age >= 0
  BY DEF TypeInv, TypeOK, Packets
<1>6. ASSUME NEW p \in net' PROVE Labelled(p)'
  <2>1. CASE p = r
    BY <1>2, <2>1 DEF Linked, Labelled
  <2>2. CASE p \in net
    BY <1>2, <2>2 DEF Linked, Labelled, Present
  <2> QED BY <1>4, <2>1, <2>2
<1>7. Present(m) <=> m.key = client.key
  BY DEF Linked, Labelled
<1>8. Before => Before'
  BY <1>2, <1>3, <1>4, <1>7 DEF Before, Present
<1>9. After => After'
  BY <1>2, <1>3, <1>4 DEF After, Present
<1>10. Unknown => Unknown'
  BY <1>2, <1>4 DEF Unknown, Present
<1>11. ASSUME Fenced PROVE Fenced'
  <2>1. m.cmd # "bye"
    BY <1>2, <1>11 DEF Fenced
  <2>2. ASSUME NEW p \in net'
        PROVE  /\ p.age >= 0
               /\ p.to = "server" => /\ p.key = host.next_key => p.key = client.key
                                     /\ p.key = host.last_key => p.cmd # "bye"
    BY <1>2, <1>4, <1>5, <1>11 DEF Fenced
  <2> QED BY <1>2, <1>3, <1>11, <2>1, <2>2 DEF Fenced
<1> QED BY <1>6, <1>8, <1>9, <1>10, <1>11 DEF Linked

(* A damaged request may set next_key to any key but last_key, once the    *)
(* session can be overridden: nothing but the present request has it.      *)
LEMMA LinkedDamage ==
    ASSUME Timely, TypeInv, InSession, Linked, NEW m \in net, ServerChecksumError(m)
    PROVE  Linked'
<1>1. PICK k \in Keys : /\ TakesNew(k) \/ TakesRetry(k)
                        /\ host' = Touched(k)
  BY DEF ServerChecksumError
<1>2. /\ host'.active = TRUE /\ host'.idle = 0 /\ host'.last_key = host.last_key
      /\ host'.next_key = IF TakesNew(k) THEN k ELSE host.next_key
  BY <1>1 DEF Touched, TypeInv, TypeOK, Hosts
<1>3. client' = client /\ runs' = runs /\ net' \subseteq net
  BY DEF ServerChecksumError
<1>4. \A p \in net : p.age >= 0
  BY DEF TypeInv, TypeOK, Packets
<1>5. (\A p \in net' : Labelled(p)') /\ (Unknown => Unknown') /\ (Before => Before')
  BY <1>2, <1>3 DEF Linked, Labelled, Unknown, Before, Present
<1>6. ASSUME Fenced PROVE Fenced' /\ (After => After')
  <2>1. CASE host'.next_key = host.next_key
    <3>1. Fenced'
      BY <1>2, <1>3, <1>4, <1>6, <2>1 DEF Fenced
    <3>2. After => After'
      BY <1>2, <1>3, <2>1 DEF After, Present
    <3> QED BY <3>1, <3>2
  <2>2. CASE host'.next_key # host.next_key
    <3>1. TakesNew(k) /\ host'.next_key = k /\ k # host.next_key
      BY <1>2, <2>2
    <3>2. k # host.last_key /\ host.idle >= SessionTimeout
      BY <1>6, <3>1 DEF TakesNew, Fenced
    <3>3. \A p \in net : p.to = "server" /\ p.key \in {host.last_key, client.key}
      BY <1>6, <3>2, FenceHolds
    <3>4. Fenced'
      BY <1>2, <1>3, <1>4, <1>6, <3>1, <3>2, <3>3 DEF Fenced
    <3>5. After => After'
      BY <1>2, <1>3, <3>3 DEF After, Present
    <3> QED BY <3>4, <3>5
  <2> QED BY <2>1, <2>2
<1> QED BY <1>5, <1>6 DEF Linked

LEMMA LinkedOpen == ASSUME TypeInv, IdsKnown, ClientOpen PROVE Linked'
<1>1. PICK k \in GenNextKey, s \in Draw(SeqNums) :
        client' = [client EXCEPT !.st = "idle", !.key = k, !.seq = s, !.cmd = "none",
                                 !.result = "none", !.from = 0, !.base = count.id]
  BY DEF ClientOpen
<1>2. client'.st = "idle" /\ client'.key = k /\ client'.base = count.id /\ host' = host /\ net' = net
  BY <1>1 DEF TypeInv, TypeOK, Clients, ClientOpen
<1>3. k # host.last_key /\ \A p \in net : p.to = "server" => p.key # k
  BY FreshKey, FreshKeyUnused DEF KeysInUse
<1>4. \A p \in net : ~(p.id > count.id)
  BY SessionAssumption DEF IdsKnown, TypeInv, TypeOK, Packets, Ids, Counts
<1> QED BY <1>2, <1>3, <1>4 DEF Linked, Labelled, Present, Unknown, Before

LEMMA LinkedStart ==
    ASSUME Timely, TypeInv, IdsKnown, Begun, RpcInv, NEW cmd, NEW pos, StartCall(cmd, pos), cmd # "bye"
    PROVE  Linked' /\ InSession
<1>1. PICK s \in NextSeqs :
        client' = [client EXCEPT !.st = "wait", !.seq = s, !.id = count.id + 1, !.cmd = cmd,
                                 !.pos = pos, !.waited = 0, !.result = "none", !.from = 0]
  BY DEF StartCall
<1>2. \A p \in net : p.seq # s
  <2> DEFINE S == {t \in SeqNums : t # client.seq /\ (SeqsRepeat \/ \A p \in net : p.seq # t)}
  <2>1. S \in SUBSET SeqNums /\ NextSeqs = Draw(S)
    BY DEF NextSeqs
  <2>2. Draw(S) \subseteq S
    BY <2>1, SessionAssumption
  <2> QED BY <2>1, <2>2 DEF Timely
<1>3. /\ client'.st = "wait" /\ client'.id = count.id + 1 /\ client'.seq = s /\ client'.cmd = cmd
      /\ client'.key = client.key /\ client'.base = client.base /\ client.st = "idle"
      /\ host' = host /\ runs' = runs
  BY <1>1 DEF TypeInv, TypeOK, Clients, StartCall, hist
<1> DEFINE q == Request'
<1>4. /\ net' = net \cup {q}
      /\ q.to = "server" /\ q.id = client'.id /\ q.key = client.key /\ q.seq = s /\ q.cmd = cmd
  BY <1>3 DEF StartCall, Request
<1> HIDE DEF q
<1>5. /\ \A p \in net : p.id # count.id + 1
      /\ count.id + 1 \in Ids /\ count.id + 1 > count.id
  BY SessionAssumption DEF IdsKnown, TypeInv, TypeOK, Packets, Ids, Counts, StartCall
<1>6. InSession /\ Linked
  BY <1>3 DEF Begun, InSession, RpcInv
<1>7. ASSUME NEW p \in net' PROVE Labelled(p)'
  <2>1. CASE p = q
    <3>1. p.cmd # "bye" /\ p.id = client'.id /\ p.key = client'.key
      BY <1>3, <1>4, <2>1
    <3> QED BY <1>3, <3>1 DEF Labelled, Present
  <2>2. CASE p \in net
    <3>1. p.to = "server" => p.key # client.key
      BY <1>3, <1>6, <2>2 DEF Linked, Labelled, Present
    <3> QED BY <1>2, <1>3, <1>5, <2>2, <3>1 DEF Labelled, Present
  <2> QED BY <1>4, <2>1, <2>2
<1>8. Before
  BY <1>3, <1>6 DEF Linked, After
<1>9. Before'
  <2>1. runs[count.id + 1] = 0
    BY <1>5 DEF RpcInv, Unmade
  <2> QED BY <1>3, <1>4, <1>5, <1>8, <2>1 DEF Before, Present
<1>10. Unknown => Unknown'
  BY <1>3, <1>4 DEF Unknown, Present
<1>11. Fenced => Fenced'
  BY <1>3, <1>4, <1>8 DEF Fenced, Before
<1> QED BY <1>6, <1>7, <1>9, <1>10, <1>11 DEF Linked

LEMMA LinkedAccept ==
    ASSUME TypeInv, InSession, Linked, NEW m \in net, m.to = "client", client.st = "wait",
           ClientAccept(m), client.cmd # "bye", host' = host, runs' = runs
    PROVE  Linked' /\ runs[client.id] = 1
<1>1. m.seq = client.seq /\ net' \subseteq net
  BY DEF ClientAccept, Accepts, Received
<1>2. client'.st = "idle" /\ client'.key = m.key /\ client'.id = client.id /\ client'.base = client.base
  BY DEF ClientAccept, TypeInv, TypeOK, Clients
<1>3. Present(m)
  BY <1>1 DEF Linked, Labelled, Present
<1>4. After /\ Fenced
  BY <1>3 DEF Linked, Before
<1>5. m.key = host.next_key
  BY <1>3, <1>4 DEF After
<1>6. \A p \in net' : Labelled(p)'
  BY <1>1, <1>2, <1>4, <1>5 DEF After, Fenced, Labelled, Present
<1>7. Before'
  BY <1>2, <1>4, <1>5 DEF Before, Fenced, Present
<1>8. Fenced'
  BY <1>1, <1>2, <1>4, <1>5 DEF After, Fenced
<1> QED BY <1>4, <1>6, <1>7, <1>8 DEF Linked, After

(* Who is in its session after a step was in it before, or has just begun. *)
LEMMA RpcNext ==
    Steady /\ TypeInv /\ IdsKnown /\ Begun /\ RpcInv /\ [Next]_vars => RpcInv'
<1> SUFFICES ASSUME Steady, TypeInv, IdsKnown, Begun, RpcInv, [Next]_vars, InSession' PROVE Linked'
  BY UnmadeNext DEF RpcInv
<1>0. host \in Hosts /\ client \in Clients /\ net \subseteq Packets /\ Timely
  BY DEF TypeInv, TypeOK, Steady
<1>1. ASSUME NEW m \in net, ServerReceive(m) PROVE Linked'
  <2>1. client' = client /\ InSession /\ Linked /\ m.to = "server"
    BY <1>1 DEF ServerReceive, ServerRun, ServerRetry, ServerDrop, InSession, RpcInv
  <2>2. CASE ServerDrop(m)
    BY <2>1, <2>2, LinkedQuiet DEF ServerDrop, Alike, hist
  <2> QED BY <1>0, <1>1, <2>1, <2>2, LinkedRun, LinkedRetry DEF ServerReceive
<1>2. ASSUME NEW m \in net, ServerChecksumError(m) PROVE Linked'
  BY <1>0, <1>2, LinkedDamage DEF ServerChecksumError, InSession, RpcInv
<1>3. ~ServerRestart
  BY DEF ServerRestart, Fault, Steady
<1>4. CASE ClientOpen
  BY <1>4, LinkedOpen
<1>5. CASE ClientCall
  <2>1. PICK cmd \in Cmds, pos \in Positions : StartCall(cmd, pos)
    BY <1>5 DEF ClientCall
  <2>2. cmd # "bye"
    BY SessionAssumption
  <2> QED BY <1>0, <2>1, <2>2, LinkedStart
<1>6. ~ClientBye
  BY <1>0 DEF ClientBye, StartCall, Clients, InSession
<1>7. CASE ClientResend
  <2>1. /\ client'.st = client.st /\ client'.id = client.id /\ client'.key = client.key
        /\ client'.seq = client.seq /\ client'.cmd = client.cmd /\ client'.base = client.base
        /\ client.st = "wait" /\ host' = host /\ runs' = runs
    BY <1>0, <1>7 DEF ClientResend, Clients, hist
  <2>2. InSession /\ Linked
    BY <2>1 DEF InSession, RpcInv
  <2>3. net' = net \cup {Request} /\ Mine(Request) /\ Request.cmd = client.cmd
    BY <1>7 DEF ClientResend, Request, Mine
  <2>4. \A p \in net' : \/ Mine(p) /\ p.cmd = client.cmd
                        \/ \E q \in net : Alike(p, q) /\ (q.age >= host.idle => p.age >= host'.idle)
    BY <2>1, <2>3 DEF Alike
  <2> QED BY <2>1, <2>2, <2>4, LinkedQuiet
<1>8. ASSUME NEW m \in net, ClientReceive(m) PROVE Linked'
  <2>1. m.to = "client" /\ client.st = "wait" /\ host' = host /\ runs' = runs
    BY <1>8 DEF ClientReceive, hist
  <2>2. CASE ClientAccept(m)
    <3>1. client.cmd # "bye" /\ InSession
      BY <2>1, <2>2 DEF ClientAccept, NoClient, InSession
    <3> QED BY <1>0, <2>1, <2>2, <3>1, LinkedAccept DEF RpcInv
  <2>3. CASE ClientDiscard(m)
    <3>1. client' = client /\ net' \subseteq net /\ InSession /\ Linked
      BY <2>3 DEF ClientDiscard, InSession, RpcInv
    <3> QED BY <2>1, <3>1, LinkedQuiet DEF Alike
  <2> QED BY <1>8, <2>2, <2>3 DEF ClientReceive
<1>9. ~ClientQuit
  BY DEF ClientQuit, NoClient, InSession
<1>10. CASE Tick
  <2>1. /\ client'.st = client.st /\ client'.id = client.id /\ client'.key = client.key
        /\ client'.seq = client.seq /\ client'.cmd = client.cmd /\ client'.base = client.base /\ runs' = runs
    BY <1>0, <1>10 DEF Tick, Clients, hist
  <2>2. /\ host'.active = host.active /\ host'.next_key = host.next_key /\ host'.last_key = host.last_key
        /\ host'.idle <= host.idle + 1 /\ host.idle \in Nat /\ host'.idle \in Nat
    BY <1>0, <1>10, SessionAssumption DEF Tick, Hosts
  <2>3. ASSUME NEW p \in net' PROVE \E q \in net : Alike(p, q) /\ (q.age >= host.idle => p.age >= host'.idle)
    <3>1. PICK q \in net : p = [q EXCEPT !.age = @ + 1]
      BY <1>10 DEF Tick
    <3>2. q \in Packets /\ q.age \in Nat
      BY <1>0, SessionAssumption DEF Packets
    <3>3. Alike(p, q) /\ p.age = q.age + 1
      BY <3>1, <3>2 DEF Packets, Alike
    <3> QED BY <2>2, <3>2, <3>3
  <2>4. InSession /\ Linked
    BY <2>1 DEF InSession, RpcInv
  <2> QED BY <2>1, <2>2, <2>3, <2>4, LinkedQuiet
<1>11. CASE UNCHANGED vars
  <2>1. InSession /\ Linked
    BY <1>11 DEF vars, InSession, RpcInv
  <2> QED BY <1>11, <2>1, LinkedQuiet DEF vars, Alike
<1> QED BY <1>1, <1>2, <1>3, <1>4, <1>5, <1>6, <1>7, <1>8, <1>9, <1>10, <1>11 DEF Next, ServerChecksumError

(* The remote call a state of Session stands for. *)
Call == IF InSession /\ client.st = "wait" THEN client.id ELSE 0
Runs == [i \in Ids |-> IF InSession /\ i > client.base THEN runs[i] ELSE 0]
Image == <<InSession, Call, Runs>>

(* Nothing a remote call shows has changed. *)
LEMMA RpcSilent ==
    ASSUME InSession' <=> InSession,
           InSession => /\ client'.st = client.st /\ client'.id = client.id /\ client'.base = client.base
                        /\ \A i \in Ids : i > client.base => runs'[i] = runs[i]
    PROVE  UNCHANGED Image
<1>1. Call' = Call
  BY DEF Call
<1>2. Runs' = Runs
  BY DEF Runs
<1> QED BY <1>1, <1>2 DEF Image

LEMMA RpcClose == ASSUME InSession, ~InSession' PROVE Rpc!Close
BY DEF Rpc!Close, Rpc!NoRuns

(* A request the server runs is the program's present call, for the first  *)
(* time, or none of its calls at all.                                      *)
LEMMA RpcServes ==
    ASSUME Steady, TypeInv, RpcInv, NEW m \in net, m.to = "server", ServerRun(m)
    PROVE  (client.st = "wait" /\ Rpc!Run(client.id)) \/ UNCHANGED Image
<1>1. /\ client' = client /\ (InSession' <=> InSession)
      /\ m.id \in Ids /\ runs' = [runs EXCEPT ![m.id] = Min2(@ + 1)] /\ runs \in [Ids -> 0..2]
  BY DEF ServerRun, InSession, TypeInv, TypeOK, Packets
<1>2. CASE InSession /\ m.id > client.base
  <2>1. client.st = "wait" /\ m.id = client.id /\ runs[m.id] = 0
    BY <1>2, LinkedRun DEF RpcInv, Present, Steady
  <2>2. runs' = [runs EXCEPT ![m.id] = 1]
    BY <1>1, <2>1 DEF Min2
  <2>3. Runs' = [Runs EXCEPT ![m.id] = 1] /\ Runs[m.id] = 0
    BY <1>1, <1>2, <2>1, <2>2 DEF Runs
  <2>4. Call = client.id /\ Call' = Call
    BY <1>1, <1>2, <2>1 DEF Call
  <2>5. Call = client.id /\ Runs[client.id] = 0 /\ Runs' = [Runs EXCEPT ![client.id] = 1]
    BY <2>1, <2>3, <2>4
  <2>6. InSession /\ InSession' /\ Call' = Call
    BY <1>1, <1>2, <2>4
  <2>7. Rpc!Run(client.id)
    BY <2>5, <2>6 DEF Rpc!Run, Call, Runs
  <2> QED BY <2>1, <2>7
<1>3. CASE ~(InSession /\ m.id > client.base)
  <2>1. InSession => \A i \in Ids : i > client.base => runs'[i] = runs[i]
    BY <1>1, <1>3
  <2> QED BY <1>1, <2>1, RpcSilent
<1> QED BY <1>2, <1>3

LEMMA RpcOpens == ASSUME TypeInv, Unmade, ClientOpen PROVE Rpc!Open
<1>1. /\ client.st = "off" /\ client'.st = "idle" /\ client'.cmd = "none" /\ client'.base = count.id
      /\ runs' = runs
  BY DEF ClientOpen, TypeInv, TypeOK, Clients, hist
<1>2. ~InSession /\ InSession'
  BY <1>1 DEF InSession
<1>3. Call = 0 /\ Call' = 0
  BY <1>1, <1>2 DEF Call
<1>4. Runs' = Runs
  BY <1>1, <1>2 DEF Runs, Unmade
<1> QED BY <1>2, <1>3, <1>4 DEF Rpc!Open, Call, Runs

LEMMA RpcCalls ==
    ASSUME Steady, TypeInv, IdsKnown, Begun, RpcInv, NEW cmd, NEW pos, StartCall(cmd, pos), cmd # "bye"
    PROVE  Rpc!Call(client'.id)
<1>1. /\ client.st = "idle" /\ client'.st = "wait" /\ client'.cmd = cmd /\ client'.base = client.base
      /\ client'.id = count.id + 1 /\ runs' = runs
  BY DEF StartCall, TypeInv, TypeOK, Clients, hist
<1>2. InSession /\ InSession'
  BY <1>1, LinkedStart DEF Steady, InSession
<1>3. client'.id \in Ids /\ client'.id > count.id /\ count.id >= client.base /\ client.base \in Nat /\ count.id \in Nat
  BY <1>1, SessionAssumption DEF StartCall, TypeInv, TypeOK, Clients, Counts, RpcInv, Unmade, Ids
<1>4. runs[client'.id] = 0
  BY <1>3 DEF RpcInv, Unmade
<1>5. Call = 0 /\ Call' = client'.id
  BY <1>1, <1>2 DEF Call
<1>6. Runs' = Runs /\ Runs[client'.id] = 0
  BY <1>1, <1>2, <1>3, <1>4 DEF Runs
<1> QED BY <1>2, <1>5, <1>6 DEF Rpc!Call, Call, Runs

LEMMA RpcReturns ==
    ASSUME TypeInv, RpcInv, InSession, NEW m \in net, ClientReceive(m), ClientAccept(m), client.cmd # "bye"
    PROVE  Rpc!Return(client.id)
<1>1. /\ client.st = "wait" /\ runs' = runs /\ client'.st = "idle" /\ client'.cmd = client.cmd
      /\ client'.base = client.base
  BY DEF ClientReceive, ClientAccept, TypeInv, TypeOK, Clients, hist
<1>2. InSession'
  BY <1>1 DEF InSession
<1>3. runs[client.id] = 1
  BY LinkedAccept DEF RpcInv, ClientReceive, hist
<1>4. client.id \in Ids /\ client.base < client.id
  BY <1>1 DEF RpcInv, Unmade, TypeInv, Waiting
<1>5. Call = client.id /\ Call' = 0
  BY <1>1, <1>2 DEF Call
<1>6. Runs' = Runs /\ Runs[client.id] = 1
  BY <1>1, <1>2, <1>3, <1>4, SessionAssumption DEF Runs, TypeInv, TypeOK, Clients, Ids
<1> QED BY <1>2, <1>5, <1>6 DEF Rpc!Return, Call, Runs

LEMMA RpcStep ==
    Steady /\ TypeInv /\ IdsKnown /\ Begun /\ RpcInv /\ [Next]_vars => [Rpc!Next]_Image
<1> SUFFICES ASSUME Steady, TypeInv, IdsKnown, Begun, RpcInv, [Next]_vars PROVE [Rpc!Next]_Image
  OBVIOUS
<1>0. client \in Clients /\ (client.st = "wait" => client.id \in Ids)
  BY DEF TypeInv, TypeOK, Waiting
<1>1. ASSUME client'.st = client.st, client'.id = client.id, client'.base = client.base,
             client'.cmd = client.cmd, runs' = runs
      PROVE  UNCHANGED Image
  BY <1>1, RpcSilent DEF InSession
<1>2. ASSUME InSession, ~InSession' PROVE Rpc!Next
  BY <1>2, RpcClose DEF Rpc!Next
<1>3. ASSUME NEW m \in net, ServerReceive(m) PROVE [Rpc!Next]_Image
  <2>1. CASE ServerRun(m)
    <3>1. m.to = "server"
      BY <1>3 DEF ServerReceive
    <3>2. (client.st = "wait" /\ Rpc!Run(client.id)) \/ UNCHANGED Image
      BY <2>1, <3>1, RpcServes
    <3>3. ASSUME client.st = "wait", Rpc!Run(client.id) PROVE Rpc!Next
      <4>1. client.id \in Ids
        BY <1>0, <3>3
      <4>2. PICK i \in Ids : i = client.id
        BY <4>1
      <4>3. Rpc!Run(i)
        BY <3>3, <4>2 DEF Rpc!Run
      <4> QED BY <4>3 DEF Rpc!Next
    <3> QED BY <3>2, <3>3
  <2>2. CASE ServerRetry(m) \/ ServerDrop(m)
    BY <1>1, <2>2 DEF ServerRetry, ServerDrop, hist
  <2> QED BY <1>3, <2>1, <2>2 DEF ServerReceive
<1>4. ASSUME NEW m \in net, ServerChecksumError(m) PROVE UNCHANGED Image
  BY <1>1, <1>4 DEF ServerChecksumError
<1>5. ~ServerRestart
  BY DEF ServerRestart, Fault, Steady
<1>6. CASE ClientOpen
  BY <1>6, RpcOpens DEF RpcInv, Rpc!Next
<1>7. CASE ClientCall
  <2>1. PICK cmd \in Cmds, pos \in Positions : StartCall(cmd, pos)
    BY <1>7 DEF ClientCall
  <2>2. cmd # "bye" /\ client'.id \in Ids
    BY <1>0, <2>1, SessionAssumption DEF StartCall, Clients, TypeInv, TypeOK, Counts, Ids
  <2> QED BY <2>1, <2>2, RpcCalls DEF Rpc!Next
<1>8. CASE ClientBye
  <2>1. client'.cmd = "bye" /\ client.st = "idle"
    BY <1>0, <1>8 DEF ClientBye, StartCall, Clients
  <2>2. InSession /\ ~InSession'
    BY <2>1 DEF Begun, InSession
  <2> QED BY <1>2, <2>2
<1>9. CASE ClientResend
  BY <1>0, <1>1, <1>9 DEF ClientResend, Clients, hist
<1>10. ASSUME NEW m \in net, ClientReceive(m) PROVE [Rpc!Next]_Image
  <2>1. CASE ClientAccept(m) /\ client.cmd # "bye"
    <3>1. InSession /\ client.id \in Ids
      BY <1>0, <1>10, <2>1 DEF InSession, ClientReceive
    <3> QED BY <1>10, <2>1, <3>1, RpcReturns DEF Rpc!Next
  <2>2. CASE ClientAccept(m) /\ client.cmd = "bye"
    <3>1. ~InSession /\ ~InSession'
      BY <2>2 DEF ClientAccept, NoClient, InSession
    <3> QED BY <3>1, RpcSilent
  <2>3. CASE ClientDiscard(m)
    BY <1>1, <1>10, <2>3 DEF ClientDiscard, ClientReceive, hist
  <2> QED BY <1>10, <2>1, <2>2, <2>3 DEF ClientReceive
<1>11. CASE ClientQuit
  <2>1. ~InSession'
    BY <1>11 DEF ClientQuit, NoClient, InSession
  <2> QED BY <1>2, <2>1, RpcSilent
<1>12. CASE Tick
  BY <1>0, <1>1, <1>12 DEF Tick, Clients, hist
<1>13. CASE UNCHANGED vars
  BY <1>1, <1>13 DEF vars
<1> QED
  BY <1>3, <1>4, <1>5, <1>6, <1>7, <1>8, <1>9, <1>10, <1>11, <1>12, <1>13 DEF Next, ServerChecksumError

(* Until it says BYE each call of a program is run exactly once before it  *)
(* returns, and at no other time: retries, late duplicates, replies that   *)
(* come twice, sessions left behind by other programs and damaged requests *)
(* do not make the server run it again.                                    *)
THEOREM SessionImplementsRpc == ASSUME Steady PROVE Spec => RpcRefined
<1>1. Init => /\ Rpc!Init
              /\ TypeInv /\ IdsKnown /\ Begun /\ RpcInv
  <2>1. Init => Rpc!Init
    BY DEF Init, NoClient, InSession, Rpc!Init, Rpc!NoRuns
  <2> QED BY <2>1, SessionInit, FirstInit, RpcInit DEF SessionInv
<1>2. TypeInv /\ IdsKnown /\ Begun /\ RpcInv /\ [Next]_vars => (TypeInv /\ IdsKnown /\ Begun /\ RpcInv)'
  BY TypeNext, IdsKnownNext, BegunNext, RpcNext
<1>3. TypeInv /\ IdsKnown /\ Begun /\ RpcInv /\ [Next]_vars => [Rpc!Next]_(Rpc!vars)
  BY RpcStep DEF Image, Call, Runs, Rpc!vars
<1> QED BY <1>1, <1>2, <1>3, PTL DEF Spec, RpcRefined, Rpc!Spec, Rpc!vars

(* runs never goes down.                                                   *)
LEMMA ToldNext == Steady /\ TypeInv /\ RpcInv /\ ToldRan /\ [Next]_vars => ToldRan'
<1> SUFFICES ASSUME Steady, TypeInv, RpcInv, ToldRan, [Next]_vars PROVE ToldRan'
  OBVIOUS
<1>0. client \in Clients /\ runs \in [Ids -> 0..2] /\ net \subseteq Packets
  BY DEF TypeInv, TypeOK
<1>1. ASSUME client'.result # "ok" \/ (client'.result = client.result /\ client'.from = client.from),
             \A i \in Ids : runs'[i] >= runs[i]
      PROVE  ToldRan'
  <2>1. runs' \in [Ids -> 0..2]
    BY TypeNext DEF TypeInv, TypeOK
  <2>2. \A i \in Ids : runs[i] >= 1 => runs'[i] >= 1
    BY <1>0, <1>1, <2>1
  <2> QED BY <1>1, <2>2 DEF ToldRan
<1>2. runs' = runs => \A i \in Ids : runs'[i] >= runs[i]
  BY <1>0
<1>3. ASSUME NEW m \in net, ServerReceive(m) PROVE ToldRan'
  <2>1. client' = client
    BY <1>3 DEF ServerReceive, ServerRun, ServerRetry, ServerDrop
  <2>2. \A i \in Ids : runs'[i] >= runs[i]
    <3>1. CASE ServerRun(m)
      BY <1>0, <3>1 DEF ServerRun, Min2
    <3> QED BY <1>2, <1>3, <3>1 DEF ServerReceive, ServerRetry, ServerDrop, hist
  <2> QED BY <1>1, <2>1, <2>2
<1>4. ASSUME NEW m \in net, ServerChecksumError(m) PROVE ToldRan'
  BY <1>1, <1>2, <1>4 DEF ServerChecksumError
<1>5. CASE ServerRestart \/ ClientOpen \/ ClientCall \/ ClientBye \/ ClientResend \/ ClientQuit \/ Tick
  <2>1. runs' = runs
    BY <1>5 DEF ServerRestart, ClientOpen, ClientCall, ClientBye, StartCall, ClientResend, ClientQuit, Tick, hist
  <2>2. client'.result # "ok" \/ (client'.result = client.result /\ client'.from = client.from)
    <3>1. CASE ServerRestart \/ ClientQuit
      BY <3>1 DEF ServerRestart, ClientQuit, NoClient
    <3>2. CASE ClientOpen \/ ClientCall \/ ClientBye
      BY <1>0, <3>2 DEF ClientOpen, ClientCall, ClientBye, StartCall, Clients
    <3>3. CASE ClientResend \/ Tick
      BY <1>0, <3>3 DEF ClientResend, Tick, Clients
    <3> QED BY <1>5, <3>1, <3>2, <3>3
  <2> QED BY <1>1, <1>2, <2>1, <2>2
<1>6. ASSUME NEW m \in net, ClientReceive(m) PROVE ToldRan'
  <2>1. runs' = runs /\ client.st = "wait" /\ m.to = "client" /\ host' = host
    BY <1>6 DEF ClientReceive, hist
  <2>2. CASE ClientAccept(m) /\ client.cmd # "bye"
    <3>1. InSession /\ Linked
      BY <2>1, <2>2 DEF InSession, RpcInv
    <3>2. runs[client.id] = 1
      BY <2>1, <2>2, <3>1, LinkedAccept
    <3>3. m.id = client.id
      BY <2>1, <2>2, <3>1 DEF ClientAccept, Accepts, Linked, Labelled
    <3>4. client'.from = m.id /\ m.id \in Ids
      BY <1>0, <2>2 DEF ClientAccept, Clients, Packets
    <3> QED BY <2>1, <3>2, <3>3, <3>4 DEF ToldRan
  <2>3. CASE ClientAccept(m) /\ client.cmd = "bye"
    BY <1>1, <1>2, <2>1, <2>3 DEF ClientAccept, NoClient
  <2>4. CASE ClientDiscard(m)
    BY <1>1, <1>2, <2>1, <2>4 DEF ClientDiscard
  <2> QED BY <1>6, <2>2, <2>3, <2>4 DEF ClientReceive
<1>7. CASE UNCHANGED vars
  BY <1>1, <1>2, <1>7 DEF vars
<1> QED BY <1>3, <1>4, <1>5, <1>6, <1>7 DEF Next

(* The same with damaged packets, under Steady: what they leave in the     *)
(* entry never makes the server take a request that did not run for a      *)
(* repetition, while the program that sent it waits.                       *)
THEOREM SuccessDespiteDamage == ASSUME Steady PROVE Spec => []AckImpliesRun
<1>1. Init => TypeInv /\ IdsKnown /\ Begun /\ RpcInv /\ ToldRan
  BY SessionInit, FirstInit, RpcInit DEF SessionInv, Init, NoClient, ToldRan
<1>2. TypeInv /\ IdsKnown /\ Begun /\ RpcInv /\ ToldRan /\ [Next]_vars
        => (TypeInv /\ IdsKnown /\ Begun /\ RpcInv /\ ToldRan)'
  BY TypeNext, IdsKnownNext, BegunNext, RpcNext, ToldNext
<1>3. ToldRan => AckImpliesRun
  BY DEF ToldRan, AckImpliesRun
<1> QED BY <1>1, <1>2, <1>3, PTL DEF Spec
=============================================================================
