---------------------------- MODULE MC_ReduceRing ----------------------------
(* Three ranks; two rings in opposite directions, as the ring search     *)
(* returns for a fully connected node; two slices per chunk.             *)
EXTENDS ReduceRing, TLC

MC_Ranks == 0 .. 2
MC_RingNext == (0 :> (0 :> 1 @@ 1 :> 2 @@ 2 :> 0)) @@
               (1 :> (0 :> 2 @@ 2 :> 1 @@ 1 :> 0))
\* Every sequence of roots for two calls.
MC_AllRoots == [0 .. 1 -> MC_Ranks]
\* Rank 0 is the root of the first call and rank 1 of the second, so that
\* every rank changes role between the calls in one of the two rings.
MC_ChangingRoot == {0 :> 0 @@ 1 :> 1}
=============================================================================
