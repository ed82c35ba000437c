---------------------------- MODULE AllReduceTiling ----------------------------
(***************************************************************************)
(* How one ncclAllReduce call cuts the data into tiles: RingAllReduce in   *)
(* src/unnamed/part_000 (209-226) launches one block per ring, with       *)
(* PCIE_THREADS or NVLINK_THREADS threads, and every block of              *)
(* AllReduceKernel walks the gridOffset loop (76-192).  In an iteration,   *)
(* block bid works on nranks slices of chunkSize elements at               *)
(* chunkOffset = gridOffset + bid*nranks*chunkSize; every step of its      *)
(* schedule moves slice devUserRanks[..] at offset chunkOffset +           *)
(* slice*chunkSize, maxOffset = min(chunkSize, size - offset) elements,    *)
(* through a staging slot of sliceSize elements.  Over the steps of one    *)
(* iteration each block visits all nranks slices, so the model takes the   *)
(* tiles of an iteration as the (block, slice) pairs.                      *)
(*                                                                         *)
(* The kernel computes in 32-bit int (Int32), except where gridDim.x     *)
(* (unsigned int) makes an operand unsigned: the DIVUP and min of 81 and  *)
(* the addition of 76.                                                    *)
(***************************************************************************)
EXTENDS Integers, FiniteSetsExt, Int32

CONSTANTS
  TypeSizes,   \* sizeof(T) of the data types
  RingCounts,  \* comm->nRings, the grid of the launch
  RankCounts,  \* comm->nRanks
  BuffSizes,   \* ring->buffSize in bytes
  Counts(_)    \* Counts(st): the counts to check for a grid stride st

NUM_BUFCHUNKS == 2
PCIE_THREADS == 512
NVLINK_THREADS == 128

\* 218-222: blocks are smaller when several rings run at once.
Threads(nRings) == IF nRings > 1 THEN NVLINK_THREADS ELSE PCIE_THREADS

\* 48-49: the staging slot of a ring buffer, in elements.
SliceSize(bs, ts) == (bs \div ts) \div NUM_BUFCHUNKS

\* DIVUP (24) with the unsigned divisor nranks*gridDim.x (at least 2 in
\* the loop): the int x converts to unsigned, the sum and the quotient
\* are unsigned.
DivUp(x, y) == UDiv(AddInt(x, y - 1), y)
\* ALIGN_SIZE (25) on the int chunkSize and the int THREADS.
AlignSize(x, a) == DivInt(AddInt(x, a - 1), a) * a

(* 81-82: chunkSize = min(sliceSize, DIVUP(size-gridOffset,               *)
(* nranks*gridDim.x)); min of an int and an unsigned is the unsigned min, *)
(* converted back to the int chunkSize; then rounded up to THREADS.  The *)
(* quotient is below 2^31 and sliceSize positive, so it is the plain min. *)
ChunkSize(c, go) ==
  AlignSize(Min2(c.slice, DivUp(SubInt(c.size, go), c.nranks * c.grid)),
            c.threads)

\* 76: gridOffset += gridDim.x*nranks*sliceSize, the stride in unsigned.
GridStride(c) == c.grid * c.nranks * c.slice

(* 83-88 and the offsets of every later step: the elements of slice s of *)
(* block b, [lo, hi), empty when maxOffset <= 0.                         *)
Tile(c, go, b, s) ==
  LET chunk == ChunkSize(c, go)
      offset == AddInt(AddInt(go, b * c.nranks * chunk), s * chunk)
      maxOffset == Min2(chunk, SubInt(c.size, offset))
  IN [lo |-> offset, hi |-> offset + (IF maxOffset > 0 THEN maxOffset ELSE 0)]

Tiles(c, go) ==
  {Tile(c, go, b, s) : b \in 0 .. c.grid - 1, s \in 0 .. c.nranks - 1}

VARIABLES
  pc,          \* "call", "loop" (at the loop test), "done", or "returned"
  cfg,         \* the launch: sizes, grid, threads, slice (<<>> before it)
  gridOffset,  \* the loop variable of 76
  tiles,       \* the tiles of the last iteration
  covered      \* history: the end of the data covered by the tiles so far

vars == <<pc, cfg, gridOffset, tiles, covered>>

Init ==
  /\ pc = "call" /\ cfg = <<>>
  /\ gridOffset = 0 /\ tiles = {} /\ covered = 0

(* One ncclAllReduce call: RingAllReduce (209-223).  A single rank only   *)
(* copies the buffer (211-213); otherwise the kernel starts the loop.     *)
RingAllReduce ==
  /\ pc = "call"
  /\ \E ts \in TypeSizes, bs \in BuffSizes, nr \in RingCounts, n \in RankCounts :
       LET c(size) == [ts |-> ts, grid |-> nr, nranks |-> n, size |-> size,
                       threads |-> Threads(nr), slice |-> SliceSize(bs, ts)]
       IN \E size \in Counts(GridStride(c(0))) :
            /\ cfg' = c(size)
            /\ pc' = IF n = 1 THEN "returned" ELSE "loop"
  /\ UNCHANGED <<gridOffset, tiles, covered>>

(* One iteration of the gridOffset loop, all blocks, all steps, then the  *)
(* addition of 76: gridOffset converts to unsigned, and the sum converts  *)
(* back to int, wrapping past INT_MAX (AddInt on the bits).  The int     *)
(* size-gridOffset of a wrapped gridOffset overflows; the build wraps it  *)
(* (SubInt).                                                              *)
Iterate ==
  /\ pc = "loop" /\ gridOffset < cfg.size
  /\ tiles' = Tiles(cfg, gridOffset)
  /\ covered' = LET ends == {t.hi : t \in {u \in tiles' : u.hi > u.lo}}
                IN IF ends = {} THEN covered ELSE Max(ends)
  /\ gridOffset' = AddInt(gridOffset, GridStride(cfg))
  /\ UNCHANGED <<pc, cfg>>

\* 76: the loop ends; the kernel goes on to the flag reset.
Exit ==
  /\ pc = "loop" /\ gridOffset >= cfg.size
  /\ pc' = "done"
  /\ UNCHANGED <<cfg, gridOffset, tiles, covered>>

Next == RingAllReduce \/ Iterate \/ Exit

Spec == Init /\ [][Next]_vars
-----------------------------------------------------------------------------
(* The tiles cover the data exactly once: each iteration starts where the *)
(* tiles of the previous one ended (no gap, no element reduced twice), no *)
(* tile starts before the data, and the loop ends with all of it covered. *)
TilesCoverData ==
  /\ \A t \in tiles : t.hi > t.lo => t.lo >= 0 /\ t.hi <= cfg.size
  /\ pc = "loop" /\ gridOffset < cfg.size => gridOffset = covered
  /\ pc = "done" => covered = cfg.size

(* Every tile fits the staging slot it passes through: maxOffset never    *)
(* exceeds sliceSize, although ALIGN_SIZE rounds chunkSize up.            *)
TilesFitSlot == \A t \in tiles : t.hi - t.lo <= cfg.slice
====
