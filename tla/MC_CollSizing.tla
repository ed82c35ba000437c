---------------------------- MODULE MC_CollSizing ----------------------------
(* Instantiation of CollSizing for TLC.                                   *)
EXTENDS CollSizing

\* Counts below, at and around multiples of the nominal Reduce chunk c, on
\* both sides of each bound of the halving test (c, c + c/2, 5c).
MC_ReduceCounts(c) ==
  {0, 1, 1000, c - 1, c, c + 1, c + c \div 2 - 1, c + c \div 2,
   c + c \div 2 + 1, 2 * c + 1, 3 * c - 1, 4 * c + 1, 5 * c - 1, 5 * c,
   5 * c + 1, 9 * c + 7}
\* Counts around the AllReduce grid stride st (one iteration of every block
\* on every slice): a few elements, part of a stride, one, two and three
\* strides and either side of them.
MC_TileCounts(st) ==
  {0, 1, 1000, st \div 3, st - 1, st, st + 1, 2 * st - 1, 2 * st + 7, 3 * st}
====
