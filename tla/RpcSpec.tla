------------------------------ MODULE RpcSpec ------------------------------
(***************************************************************************)
(* What the keys and sequence numbers of FSP promise the program that      *)
(* calls client_interact(): a remote call.  While the program is in its    *)
(* session each call is run by the server at most once, only after it was  *)
(* made, and before it returns.  Nothing is promised about the calls of a  *)
(* program that gave up or has begun to say goodbye with CC_BYE.           *)
(*                                                                         *)
(* Session implements this specification (Session!RpcRefined).             *)
(***************************************************************************)
EXTENDS Naturals

CONSTANT Ids        \* the calls

VARIABLES
    open,           \* the calling program is in its session
    call,           \* the call it waits for, 0 when it waits for none
    runs            \* runs[i]: how often the server has run call i for it

vars == <<open, call, runs>>

NoRuns == [i \in Ids |-> 0]

Init == open = FALSE /\ call = 0 /\ runs = NoRuns

Open == /\ ~open
        /\ open' = TRUE
        /\ UNCHANGED <<call, runs>>

Call(i) == /\ open
           /\ call = 0
           /\ runs[i] = 0
           /\ call' = i
           /\ UNCHANGED <<open, runs>>

Run(i) == /\ call = i
          /\ runs[i] = 0
          /\ runs' = [runs EXCEPT ![i] = 1]
          /\ UNCHANGED <<open, call>>

Return(i) == /\ call = i
             /\ runs[i] = 1
             /\ call' = 0
             /\ UNCHANGED <<open, runs>>

(* The program ends; what becomes of its calls is nobody's concern. *)
Close == /\ open
         /\ open' = FALSE
         /\ call' = 0
         /\ runs' = NoRuns

Next == \/ Open \/ Close
        \/ \E i \in Ids : Call(i) \/ Run(i) \/ Return(i)

Spec == Init /\ [][Next]_vars
=============================================================================
