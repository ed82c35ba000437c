---------------------------- MODULE ReduceSizing ----------------------------
(***************************************************************************)
(* The launch arithmetic of RingReduce in src/src/reduce.cu (265-313):    *)
(* from the element count, the element size, comm->buffSize,              *)
(* comm->nRings and comm->globalMemSpace it computes the slice and chunk  *)
(* sizes, the stride of the staging slots, the number of chunks and the   *)
(* grid.  ReduceKernel then walks the chunks at chunk*ChunkSize (202),    *)
(* each in NUM_SUBCHUNKS slots of its ring's staging buffer at            *)
(* r*bufferOffset (335), the last chunk taking whatever is left.          *)
(*                                                                         *)
(* The host code computes in 32-bit int (Int32).                          *)
(***************************************************************************)
EXTENDS Integers, Int32

CONSTANTS
  TypeSizes,   \* sizeof(T) of the data types
  RingCounts,  \* comm->nRings
  BuffSizes,   \* comm->buffSize in bytes
  GlobalMem,   \* comm->globalMemSpace values, a subset of BOOLEAN
  Counts(_)    \* Counts(c): the counts to check for a nominal chunk size c

NUM_THREADS == 256
UNROLL_COUNT == 8
UNROLL_SIZE == UNROLL_COUNT * NUM_THREADS
NUM_SUBCHUNKS == 4
PackSize == 16                 \* sizeof(PackType), two uint64_t

\* Mutant: the per-ring buffer is not divided among the rings.
BufferVPerRingShared(bs, nr) == bs \div PackSize
\* 281: buffSize / (sizeof(PackType) * nRings), in vectors.
BufferVPerRing(bs, nr) == bs \div (PackSize * nr)

\* 281-284: the largest slice a staging slot holds, in elements.
MaxSliceSize(ts, bs, nr) ==
  LET bufferNPerRing == (BufferVPerRing(bs, nr) * PackSize) \div ts
      bufferNPerSlice == bufferNPerRing \div NUM_SUBCHUNKS
  IN (bufferNPerSlice \div UNROLL_SIZE) * UNROLL_SIZE

\* 286-293: the nominal slice, 4x larger without a global memory space,
\* capped by the slot.
NominalSlice(ts, bs, nr, g) ==
  LET s == (8 * UNROLL_SIZE * PackSize) \div ts
  IN Min2(MaxSliceSize(ts, bs, nr), IF g THEN s ELSE 4 * s)

\* 298-300: the trailing chunk would be under half a chunk of a transfer
\* of one to five chunks.
SmallTail(n, c) ==
  LET rem == n % c IN n > c /\ rem > 0 /\ n < 5 * c /\ 2 * rem < c

\* Mutant: the slot stride is taken after the slice is halved.
StrideAfterHalving(s0, s) == s
\* 294: BufferSliceStride = SliceSize, before the halving.
Stride(s0, s) == s0

(* 265-313 after the count == 0 return: the sizes RingReduce computes.   *)
(* bufferOffset is ChunkSize before the halving (296).                   *)
Sizing(n, ts, bs, nr, g) ==
  LET s0 == NominalSlice(ts, bs, nr, g)
      c0 == NUM_SUBCHUNKS * s0
      half == SmallTail(n, c0)
      s == IF half THEN s0 \div 2 ELSE s0
      c == NUM_SUBCHUNKS * s
      chunks == IF half THEN n \div c ELSE DivInt(AddInt(n, c - 1), c)
  IN [N |-> n, elemSize |-> ts, buffElems |-> bs \div ts,
      SliceSize |-> s, ChunkSize |-> c, NumChunks |-> chunks,
      BufferSliceStride |-> Stride(s0, s), bufferOffset |-> c0,
      grid |-> Min2(chunks, nr)]

(* getSliceSizeAndOffset, 116-126: slice s of a chunk cut into           *)
(* numBigSlices slices of bigSliceN, then numSmallSlices of smallSliceN;  *)
(* slice numSlices-1 (if not small) has lastSliceN, any other is empty.   *)
SliceSizeAndOffset(s, numSlices, numBig, numSmall, big, small, last) ==
  IF s < numBig THEN [size |-> big, offset |-> s * big]
  ELSE [size |-> IF s < numBig + numSmall THEN small
                 ELSE IF s = numSlices - 1 THEN last ELSE 0,
        offset |-> numBig * big + (s - numBig) * small]

\* Mutant: the slot stride taken for the slice size.
FullChunkSliceStride(a, s) ==
  SliceSizeAndOffset(s, NUM_SUBCHUNKS, NUM_SUBCHUNKS, 0, a.BufferSliceStride, 0, 0)
\* 186-191: the slices of a chunk that does not go through CalcLastChunk,
\* NUM_SUBCHUNKS big slices of args.SliceSize.
FullChunkSlice(a, s) ==
  SliceSizeAndOffset(s, NUM_SUBCHUNKS, NUM_SUBCHUNKS, 0, a.SliceSize, 0, 0)

\* The nominal chunk size of a configuration, before the halving.
NominalChunk(ts, bs, nr, g) == NUM_SUBCHUNKS * NominalSlice(ts, bs, nr, g)

VARIABLES
  phase,  \* "call" before RingReduce, "returned" or "launched" after it
  args    \* the ReduceKernelArgs RingReduce filled in (<<>> before)

vars == <<phase, args>>

Init == phase = "call" /\ args = <<>>

(* One ncclReduce call: RingReduce computes the launch sizes; a count of  *)
(* 0 returns at once (267-268).                                           *)
RingReduce ==
  /\ phase = "call"
  /\ \E ts \in TypeSizes, bs \in BuffSizes, nr \in RingCounts, g \in GlobalMem :
       \E n \in Counts(NominalChunk(ts, bs, nr, g)) :
       IF n = 0 THEN phase' = "returned" /\ UNCHANGED args
       ELSE phase' = "launched" /\ args' = Sizing(n, ts, bs, nr, g)

Next == RingReduce

Spec == Init /\ [][Next]_vars

-----------------------------------------------------------------------------
Launched == phase = "launched"
LastChunk == args.N - (args.NumChunks - 1) * args.ChunkSize

(* The chunks the kernel splits with getSliceSizeAndOffset: all but the  *)
(* last, and the last too when N % ChunkSize == 0 (195).                  *)
FullChunks ==
  IF args.N % args.ChunkSize > 0 THEN args.NumChunks - 1 ELSE args.NumChunks

(* Slice s of a full chunk lies in its staging slot and ends where slice  *)
(* s+1 starts; the last ends at ChunkSize, where the next chunk starts.   *)
SlicesTileChunk(s) ==
  LET x == FullChunkSlice(args, s) IN
  /\ x.size <= args.BufferSliceStride
  /\ x.offset + x.size =
       IF s = NUM_SUBCHUNKS - 1 THEN args.ChunkSize
       ELSE FullChunkSlice(args, s + 1).offset

(* The chunks the kernel walks cover the count exactly: at least one      *)
(* chunk, every chunk but the last full and starting inside the data, and *)
(* the last one, which after the halving of 298-305 is larger than a      *)
(* chunk, still fits in the NUM_SUBCHUNKS staging slots of its ring.      *)
(* Every full chunk's slices, moved to chunk*ChunkSize (202), lie inside *)
(* the data and tile the chunk from its start.                            *)
ChunksCoverCount ==
  Launched =>
    /\ args.NumChunks >= 1
    /\ (args.NumChunks - 1) * args.ChunkSize < args.N
    /\ LastChunk <= NUM_SUBCHUNKS * args.BufferSliceStride
    /\ FullChunks * args.ChunkSize <= args.N
    /\ FullChunks > 0 =>
         FullChunkSlice(args, 0).offset = 0 /\ \A s \in 0 .. NUM_SUBCHUNKS - 1 : SlicesTileChunk(s)

(* The staging buffers of the rings launched, NUM_SUBCHUNKS slots of      *)
(* BufferSliceStride elements at r*bufferOffset, are disjoint and lie in  *)
(* the comm->buffSize bytes of the peer's buffer.                         *)
RingBuffersFit ==
  Launched =>
    /\ NUM_SUBCHUNKS * args.BufferSliceStride <= args.bufferOffset
    /\ (args.grid - 1) * args.bufferOffset
         + NUM_SUBCHUNKS * args.BufferSliceStride <= args.buffElems
====
