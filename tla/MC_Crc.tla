------------------------------- MODULE MC_Crc -------------------------------
(* Instantiation of Crc for TLC: a block of three threads (a window of    *)
(* three bytes) and inputs of lengths 0, 2, 3, 4 and 7: empty, shorter    *)
(* than the block, exactly one window, one byte past it, and two full     *)
(* windows and one byte.                                                  *)
EXTENDS Crc

MC_Bytes == <<49, 167, 0, 255, 92, 128, 18>>
MC_Inputs == {SubSeq(MC_Bytes, 1, n) : n \in {0, 2, 3, 4, 7}}
====
