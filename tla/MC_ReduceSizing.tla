-------------------------- MODULE MC_ReduceSizing --------------------------
(* Instantiation of ReduceSizing for TLC, at the top of the int range.    *)
EXTENDS ReduceSizing

\* The largest counts an int holds.
MC_LargeCounts(c) == {INT_MAX - c + 1, INT_MAX}
====
