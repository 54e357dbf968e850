---------------------------- MODULE MCPrebuffer -----------------------------
(***************************************************************************)
(* Prebuffer on a list of two local channels and a public one: each local  *)
(* channel is the other's neighbour, so the ensure of a neighbour's        *)
(* goroutine and that of a zap to it race.                                 *)
(***************************************************************************)
EXTENDS Prebuffer, TLC

CONSTANTS a, b, p

ThreeChannels == <<a, b, p>>

Symmetry == Permutations(Workers) \cup Permutations(Sessions)
=============================================================================
