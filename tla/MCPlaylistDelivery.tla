--------------------------- MODULE MCPlaylistDelivery ---------------------------
(* What TLC needs besides the specification: the sockets are interchangeable *)
(* in the runs that check no temporal property.                              *)
EXTENDS PlaylistDelivery, TLC

Symmetry == Permutations(Socket)
================================================================================
