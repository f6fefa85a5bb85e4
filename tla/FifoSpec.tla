------------------------------ MODULE FifoSpec ------------------------------
(***************************************************************************)
(* What the users of a FIFO cache of Size slots may rely on: it holds the  *)
(* records of the last Size insertions, oldest first, but for those        *)
(* deleted since.  A deletion makes no room for another record.            *)
(*                                                                         *)
(* FifoCache implements this specification (FifoCache!WindowRefined).      *)
(***************************************************************************)
EXTENDS Naturals, Sequences

CONSTANTS Size, Records, Gone

VARIABLE window

Init == window = <<>>

Insert(r) == window' = Append(IF Len(window) = Size THEN Tail(window) ELSE window, r)

Delete(S) == window' = [j \in DOMAIN window |-> IF j \in S THEN Gone ELSE window[j]]

Clear == window' = <<>>

Next == \/ \E r \in Records : Insert(r)
        \/ \E S \in SUBSET (DOMAIN window) : Delete(S)
        \/ Clear

Spec == Init /\ [][Next]_window
=============================================================================
