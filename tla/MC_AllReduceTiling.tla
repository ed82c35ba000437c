------------------------- MODULE MC_AllReduceTiling -------------------------
(* Instantiation of AllReduceTiling for TLC.                              *)
EXTENDS AllReduceTiling

\* A count within a grid stride of INT_MAX, and INT_MAX itself.
MC_LargeCounts(st) == {INT_MAX - 1000, INT_MAX}
\* Two grid strides: every block moves full chunks.
MC_TwoStrides(st) == {2 * st}
====
