---------------------------- MODULE MC_DirCache ----------------------------
(* DirCache with directories that are alike. *)
EXTENDS DirCache, TLC

Symmetry == Permutations(Subdirs)
=============================================================================
