------------------------------ MODULE MCTsRing ------------------------------
(***************************************************************************)
(* TsRing on instances small enough for TLC: a packet of three bytes, a    *)
(* ring of two packets and a byte (so that capacity is no multiple of the  *)
(* packet, as 4 MiB is not), and writes that are and are not whole packets.*)
(***************************************************************************)
EXTENDS TsRing
=============================================================================
