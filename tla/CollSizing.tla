----------------------------- MODULE CollSizing -----------------------------
(***************************************************************************)
(* The size arithmetic of the two ring collectives: one call, either       *)
(* ncclReduce, whose host code computes the launch sizes (ReduceSizing),   *)
(* or ncclAllReduce, whose kernel tiles the data in its gridOffset loop    *)
(* (AllReduceTiling).  The two share only the 32-bit arithmetic (Int32);   *)
(* the composition checks both over the same types, rings and buffers.     *)
(***************************************************************************)
EXTENDS Integers

CONSTANTS TypeSizes, RingCounts, BuffSizes, GlobalMem, RankCounts,
          ReduceCounts(_), TileCounts(_)

VARIABLES
  coll,                                  \* the collective called
  phase, args,                           \* ReduceSizing
  pc, cfg, gridOffset, tiles, covered    \* AllReduceTiling

R == INSTANCE ReduceSizing WITH Counts <- ReduceCounts
T == INSTANCE AllReduceTiling WITH Counts <- TileCounts

rVars == <<phase, args>>
tVars == <<pc, cfg, gridOffset, tiles, covered>>
vars == <<coll, rVars, tVars>>

Init == coll \in {"reduce", "allreduce"} /\ R!Init /\ T!Init

Next ==
  \/ coll = "reduce" /\ R!Next /\ UNCHANGED <<coll, tVars>>
  \/ coll = "allreduce" /\ T!Next /\ UNCHANGED <<coll, rVars>>

Spec == Init /\ [][Next]_vars
-----------------------------------------------------------------------------
(* ncclReduce: RingReduce's chunks cover the count and the last, enlarged *)
(* chunk fits its staging slots (ReduceSizing).                           *)
ChunksCoverCount == R!ChunksCoverCount

(* ncclReduce: the rings' staging regions are disjoint and inside         *)
(* buffSize (ReduceSizing).                                               *)
RingBuffersFit == R!RingBuffersFit
====
