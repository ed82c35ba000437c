-------------------------- MODULE MC_AllReduceRing --------------------------
(* Instantiation of AllReduceRing for TLC.                                *)
EXTENDS AllReduceRing

\* The edges 0 -> 1 and 1 -> 2 are direct, the others go through buffers:
\* rank 0 is only nextdirect, rank 1 both, rank 2 only prevdirect, rank 3
\* neither.
MC_MixedDirect == {0, 1}
====
