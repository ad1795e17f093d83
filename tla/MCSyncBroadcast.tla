-------------------------- MODULE MCSyncBroadcast ---------------------------
(* Headers that end in a part of MAGIC, one holds it out of order, and trailers. *)
EXTENDS SyncBroadcast

MCMagic == <<2, 1>>
MCHeaders == {<<2>>, <<1, 2, 2>>}
MCTrailers == {<<>>, <<1>>}
=============================================================================
