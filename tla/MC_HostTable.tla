--------------------------- MODULE MC_HostTable ---------------------------
(* HostTable with four hosts, appearing in any order. *)
EXTENDS HostTable

FourHosts == {1, 2, 3, 4}
=============================================================================
