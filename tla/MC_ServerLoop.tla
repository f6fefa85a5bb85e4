--------------------------- MODULE MC_ServerLoop ---------------------------
(* ServerLoop with short and long replies. *)
EXTENDS ServerLoop

ShortAndLong == {1, 4}
=============================================================================
