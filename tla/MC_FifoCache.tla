--------------------------- MODULE MC_FifoCache ---------------------------
(* FifoCache with interchangeable objects. *)
EXTENDS FifoCache, TLC

Interchangeable == Permutations(Objs)
=============================================================================
