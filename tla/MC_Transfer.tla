---------------------------- MODULE MC_Transfer ----------------------------
(* Transfer with two users who may be exchanged when both may delete. *)
EXTENDS Transfer, TLC

Interchangeable == Permutations(Users)
=============================================================================
