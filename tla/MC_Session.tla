---------------------------- MODULE MC_Session ----------------------------
(***************************************************************************)
(* The runs of Session.                                                    *)
(***************************************************************************)
EXTENDS Session, TLC

LeastOf(S) == {x \in S : \A y \in S : x <= y}

(* Safety: any key, keys being interchangeable. *)
KeySymmetry == Permutations(Keys \ {ZeroKey})
AnyKeyLeastSeq(S) == IF S \subseteq Keys THEN S ELSE LeastOf(S)
(* Liveness, without symmetry: Draw is LeastOf; the least unused key stands *)
(* for any.  With two sequence numbers a program alternates, and its first *)
(* call has the same one as the first call of the program before it.       *)
=============================================================================
