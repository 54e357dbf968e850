---------------------------- MODULE MCTunerBudget ----------------------------
(***************************************************************************)
(* TunerBudget with two channels on different muxes and one whose URL has  *)
(* no pids, a box that comes, goes and changes its list, two prefetching   *)
(* goroutines and a tuned channel.                                         *)
(***************************************************************************)
EXTENDS TunerBudget, TLC

CONSTANTS a, c, n, m1, m2

MCMux   == a :> m1 @@ c :> m2 @@ n :> m2
MCLists == {<<>>, <<a>>, <<c, n>>}
MCFiles == {[keys |-> {a}, ids |-> {}]}
=============================================================================
