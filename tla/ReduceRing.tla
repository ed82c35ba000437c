----------------------------- MODULE ReduceRing -----------------------------
(***************************************************************************)
(* The root-directed ring reduction of src/src/reduce.cu (ncclReduce).     *)
(*                                                                         *)
(* Every rank runs one ReduceKernel per call on its stream; the kernel has *)
(* one block per ring.  A block handles the chunks bid, bid+gridDim.x, ... *)
(* and, per chunk, NUM_SUBCHUNKS slices, each in a fixed slot of the ring  *)
(* staging buffer of its successor.  In a block the producer threads wait  *)
(* on flags (thread 0 spins), copy or reduce the slice, and meet the one   *)
(* consumer thread at a __syncthreads; the consumer thread then raises the *)
(* successor's "new data" flag and the predecessor's "chunk done" flag.    *)
(* At the end thread 0 resets the block's incoming flags; the last block   *)
(* of the rank to do so advances the rank's opCounter, which the next call *)
(* waits for on the predecessor side (NextOpCounter == opIndex).           *)
(*                                                                         *)
(* Data is abstracted to tags: a slice in a staging slot or an output      *)
(* records the call that produced it, its chunk and the set of ranks whose *)
(* input it combines.                                                      *)
(***************************************************************************)
EXTENDS Integers, FiniteSets, FiniteSetsExt

CONSTANTS
  Ranks,          \* the ranks of the communicator
  RingNext,       \* RingNext[r][i]: successor of rank i in ring r (ncclFromRing)
  NRings,         \* comm->nRings
  NumChunks,      \* args.NumChunks
  NumSubchunks,   \* NUM_SUBCHUNKS
  MaxOps,         \* number of consecutive ncclReduce calls on every rank
  RootChoices     \* the root sequences [0..MaxOps-1 -> Ranks] to check

ASSUME /\ NumChunks \in Nat \ {0} /\ NRings \in Nat \ {0}
       /\ NumSubchunks \in Nat \ {0} /\ MaxOps \in Nat \ {0}
       /\ 0 .. NRings - 1 \subseteq DOMAIN RingNext
       /\ RootChoices \subseteq [0 .. MaxOps - 1 -> Ranks]

\* gridDim.x: nRings = std::min(args.NumChunks, comm->nRings)
Grid == Min({NumChunks, NRings})
Rings == 0 .. Grid - 1
Blocks == Ranks \X Rings
Chunks == 0 .. NumChunks - 1
Subchunks == 0 .. NumSubchunks - 1
Ops == 0 .. MaxOps - 1
RingPrev(r, i) == CHOOSE p \in Ranks : RingNext[r][p] = i

\* A slice tag; Empty is the content of a slot nobody has written.
Tags == [op : Ops, chunk : Chunks, contrib : SUBSET Ranks]
Empty == [op |-> -1, chunk |-> -1, contrib |-> {}]
\* An Output slice also records the call that wrote it (wop).
OutTags == [op : Ops, chunk : Chunks, contrib : SUBSET Ranks, wop : Ops]
Unwritten == [op |-> -1, chunk |-> -1, contrib |-> {}, wop |-> -1]
NoSignal == <<-1, -1>>

VARIABLES
  root,       \* root[k]: the root passed to call k (same on all ranks)
  op,         \* op[i]: args.opIndex of the call rank i is running
  pc,         \* pc[b]: producer position of block b = <<rank, ring>>
  pending,    \* pending[b]: <<chunk, slice>> the consumer thread must signal
  newData,    \* newData[i][r]: rank i's flags[r] (ThisNewDataAvailableFlag)
  chunkDone,  \* chunkDone[i][r]: rank i's flags[nRings+r] (ThisChunkDoneFlag)
  buf,        \* buf[i][r][s]: slot s of rank i's staging buffer for ring r
  out,        \* out[i][c][s]: rank i's Output for slice s of chunk c
  doneCount,  \* doneCount[i]: devMem->flags[MAXFLAGS-1]
  opCounter   \* opCounter[i]: comm->opCounter

vars == <<root, op, pc, pending, newData, chunkDone, buf, out, doneCount, opCounter>>

(* Role of a rank in a ring, RingReduce, reduce.cu 324-330. *)
Role(i, r) ==
  IF RingPrev(r, i) = root[op[i]] THEN "BEGIN"
  ELSE IF i = root[op[i]] THEN "END"
  ELSE "MIDDLE"

\* Flag value of slice s of chunk c: NUM_SUBCHUNKS*chunk + subchunk + 1.
FlagVal(c, s) == NumSubchunks * c + s + 1

\* WAIT_FOR_NEW_DATA / WAIT_FOR_CHUNK: both compare with >=.
NewDataReady(i, r, c, s) == newData[i][r] >= FlagVal(c, s)
\* Mutant: waits for the chunk-done value of the slice before (off by one).
ChunkFreeOffByOne(i, r, c, s) == chunkDone[i][r] >= NumSubchunks * (c - Grid) + s
ChunkFree(i, r, c, s) == chunkDone[i][r] >= NumSubchunks * (c - Grid) + s + 1

\* Mutant: the chunk loop stops one chunk early.
AfterSkipsLastChunk(c, s) ==
  IF s + 1 < NumSubchunks THEN [st |-> "wait", c |-> c, s |-> s + 1]
  ELSE IF c + Grid < NumChunks - 1 THEN [st |-> "wait", c |-> c + Grid, s |-> 0]
  ELSE [st |-> "reset", c |-> c, s |-> s]

\* The producer position after slice s of chunk c (the two for loops).
After(c, s) ==
  IF s + 1 < NumSubchunks THEN [st |-> "wait", c |-> c, s |-> s + 1]
  ELSE IF c + Grid < NumChunks THEN [st |-> "wait", c |-> c + Grid, s |-> 0]
  ELSE [st |-> "reset", c |-> c, s |-> s]

Init ==
  /\ root \in RootChoices
  /\ op = [i \in Ranks |-> 0]
  /\ pc = [b \in Blocks |-> [st |-> "opwait", c |-> b[2], s |-> 0]]
  /\ pending = [b \in Blocks |-> NoSignal]
  /\ newData = [i \in Ranks |-> [r \in Rings |-> 0]]
  /\ chunkDone = [i \in Ranks |-> [r \in Rings |-> 0]]
  /\ buf = [i \in Ranks |-> [r \in Rings |-> [s \in Subchunks |-> Empty]]]
  /\ out = [i \in Ranks |-> [c \in Chunks |-> [s \in Subchunks |-> Unwritten]]]
  /\ doneCount = [i \in Ranks |-> 0]
  /\ opCounter = [i \in Ranks |-> 0]

(* Kernel entry, reduce.cu 177-182: thread 0 of a non-END block waits     *)
(* until the successor has finished the previous call.                    *)
OpReady(b) ==
  LET i == b[1]  r == b[2] IN
  Role(i, r) # "END" => opCounter[RingNext[r][i]] = op[i]

OpWait(b) ==
  /\ pc[b].st = "opwait"
  /\ OpReady(b)
  /\ pc' = [pc EXCEPT ![b] = [st |-> "wait", c |-> b[2], s |-> 0]]
  /\ UNCHANGED <<root, op, pending, newData, chunkDone, buf, out, doneCount, opCounter>>

(* The producer threads on slice s of chunk c, reduce.cu 207-235: the     *)
(* role's wait, then Copy (BEGIN) or Reduce into the successor's slot     *)
(* (MIDDLE) or into Output (END).                                         *)
SliceReady(b) ==
  LET i == b[1]  r == b[2]  c == pc[b].c  s == pc[b].s IN
  CASE Role(i, r) = "BEGIN" -> ChunkFree(i, r, c, s)
    [] Role(i, r) = "MIDDLE" -> NewDataReady(i, r, c, s) /\ ChunkFree(i, r, c, s)
    [] Role(i, r) = "END" -> NewDataReady(i, r, c, s)

Compute(b) ==
  LET i == b[1]  r == b[2]  c == pc[b].c  s == pc[b].s
      in == buf[i][r][s]
      combined == [in EXCEPT !.contrib = @ \cup {i}]
  IN
  /\ pc[b].st = "wait"
  /\ SliceReady(b)
  /\ CASE Role(i, r) = "BEGIN" ->
            /\ buf' = [buf EXCEPT ![RingNext[r][i]][r][s] =
                         [op |-> op[i], chunk |-> c, contrib |-> {i}]]
            /\ UNCHANGED out
       [] Role(i, r) = "MIDDLE" ->
            /\ buf' = [buf EXCEPT ![RingNext[r][i]][r][s] = combined]
            /\ UNCHANGED out
       [] Role(i, r) = "END" ->
            /\ out' = [out EXCEPT ![i][c][s] =
                         [op |-> in.op, chunk |-> in.chunk,
                          contrib |-> in.contrib \cup {i}, wop |-> op[i]]]
            /\ UNCHANGED buf
  /\ pc' = [pc EXCEPT ![b].st = "bar"]
  /\ UNCHANGED <<root, op, pending, newData, chunkDone, doneCount, opCounter>>

(* Thread 0 spinning in Wait() on a flag that is not there yet (the     *)
(* other threads of the block wait at the named barrier behind it).      *)
Spin(b) ==
  /\ \/ pc[b].st = "opwait" /\ ~OpReady(b)
     \/ pc[b].st = "wait" /\ ~SliceReady(b)
  /\ UNCHANGED vars

(* The __syncthreads that ends a slice (reduce.cu 236 and 240): it needs  *)
(* the consumer thread to have signalled the previous slice; it hands     *)
(* this slice to the consumer thread.                                     *)
Barrier(b) ==
  /\ pc[b].st = "bar"
  /\ pending[b] = NoSignal
  /\ pending' = [pending EXCEPT ![b] = <<pc[b].c, pc[b].s>>]
  /\ pc' = [pc EXCEPT ![b] = After(pc[b].c, pc[b].s)]
  /\ UNCHANGED <<root, op, newData, chunkDone, buf, out, doneCount, opCounter>>

\* Mutant: the last chunk-done signal of a slot is not sent (off by one).
SendsChunkDoneOffByOne(i, r, c) == Role(i, r) # "BEGIN" /\ c + Grid < NumChunks - 1
\* reduce.cu 246: chunk done goes back unless BEGIN or the block's last chunk.
SendsChunkDone(i, r, c) == Role(i, r) # "BEGIN" /\ c + Grid < NumChunks

(* The consumer thread, reduce.cu 241-248: SIGNAL_NEW_DATA_AVAILABLE to   *)
(* the successor unless END; SIGNAL_CHUNK_DONE to the predecessor unless  *)
(* BEGIN or this is the block's last chunk.                               *)
Signal(b) ==
  LET i == b[1]  r == b[2]  c == pending[b][1]  s == pending[b][2] IN
  /\ pending[b] # NoSignal
  /\ newData' = IF Role(i, r) # "END"
                THEN [newData EXCEPT ![RingNext[r][i]][r] = FlagVal(c, s)]
                ELSE newData
  /\ chunkDone' = IF SendsChunkDone(i, r, c)
                  THEN [chunkDone EXCEPT ![RingPrev(r, i)][r] = FlagVal(c, s)]
                  ELSE chunkDone
  /\ pending' = [pending EXCEPT ![b] = NoSignal]
  /\ UNCHANGED <<root, op, pc, buf, out, doneCount, opCounter>>

\* Mutant: the first block to finish, not the last, publishes opCounter.
IsLastBlockFirst(i) == doneCount[i] = 0
\* reduce.cu 257: atomicAdd(args.doneCount, 1) == gridDim.x-1.
IsLastBlock(i) == doneCount[i] = Grid - 1

\* Mutant: the last block does not clear doneCount.
DoneCountAfterNoClear(i) == doneCount[i] + 1
\* reduce.cu 257-258: atomicAdd(doneCount, 1); the last block sets it to 0.
DoneCountAfter(i) == IF IsLastBlock(i) THEN 0 ELSE doneCount[i] + 1

(* Thread 0 after the chunk loop, reduce.cu 253-262: reset this block's   *)
(* incoming flags; the last block of the rank (atomicAdd) resets          *)
(* doneCount and publishes opCounter = opIndex + 1.                       *)
Reset(b) ==
  LET i == b[1]  r == b[2] IN
  /\ pc[b].st = "reset"
  /\ newData' = [newData EXCEPT ![i][r] = 0]
  /\ chunkDone' = [chunkDone EXCEPT ![i][r] = 0]
  /\ doneCount' = [doneCount EXCEPT ![i] = DoneCountAfter(i)]
  /\ opCounter' = IF IsLastBlock(i)
                  THEN [opCounter EXCEPT ![i] = op[i] + 1]
                  ELSE opCounter
  /\ pc' = [pc EXCEPT ![b].st = "done"]
  /\ UNCHANGED <<root, op, pending, buf, out>>

KernelDone(i) ==
  \A r \in Rings : pc[<<i, r>>].st = "done" /\ pending[<<i, r>>] = NoSignal

(* The next ncclReduce on rank i's stream (RingReduce, reduce.cu 266-353, *)
(* launching ReduceKernel with args.opIndex = comm->opSched): it starts   *)
(* once the previous kernel on the stream has finished.                   *)
Launch(i) ==
  /\ KernelDone(i)
  /\ op[i] + 1 < MaxOps
  /\ op' = [op EXCEPT ![i] = @ + 1]
  /\ pc' = [b \in Blocks |-> IF b[1] = i THEN [st |-> "opwait", c |-> b[2], s |-> 0]
                             ELSE pc[b]]
  /\ UNCHANGED <<root, pending, newData, chunkDone, buf, out, doneCount, opCounter>>

AllFinished == \A i \in Ranks : KernelDone(i) /\ op[i] = MaxOps - 1

\* After the last call every rank is idle.
Finished == AllFinished /\ UNCHANGED vars

Next ==
  \/ \E b \in Blocks : OpWait(b) \/ Compute(b) \/ Barrier(b) \/ Signal(b) \/ Reset(b)
  \/ \E b \in Blocks : Spin(b)
  \/ \E i \in Ranks : Launch(i)
  \/ Finished

(* Every block of a launched kernel is resident and runs; every stream    *)
(* runs its next kernel.                                                  *)
Fairness ==
  /\ \A b \in Blocks : WF_vars(OpWait(b) \/ Compute(b) \/ Barrier(b) \/ Signal(b) \/ Reset(b))
  /\ \A i \in Ranks : WF_vars(Launch(i))

Spec == Init /\ [][Next]_vars /\ Fairness

-----------------------------------------------------------------------------
TypeOK ==
  /\ root \in [Ops -> Ranks]
  /\ op \in [Ranks -> Ops]
  /\ pc \in [Blocks -> [st : {"opwait", "wait", "bar", "reset", "done"},
                        c : Chunks, s : Subchunks]]
  /\ pending \in [Blocks -> (Chunks \X Subchunks) \cup {NoSignal}]
  /\ newData \in [Ranks -> [Rings -> 0 .. NumChunks * NumSubchunks]]
  /\ chunkDone \in [Ranks -> [Rings -> 0 .. NumChunks * NumSubchunks]]
  /\ buf \in [Ranks -> [Rings -> [Subchunks -> Tags \cup {Empty}]]]
  /\ out \in [Ranks -> [Chunks -> [Subchunks -> OutTags \cup {Unwritten}]]]
  /\ doneCount \in [Ranks -> 0 .. Grid - 1]
  /\ opCounter \in [Ranks -> 0 .. MaxOps]

(* Result: whatever the END block writes into a rank's Output is the      *)
(* slice of the chunk it is written at, combining the inputs of all ranks *)
(* of the same call, and only the root of that call is written.  A slot   *)
(* overwritten before it was read, a stale flag from the previous call or *)
(* a slice read before it was written shows up here as a wrong call,      *)
(* chunk or contributor set.                                              *)
ReduceResultCorrect ==
  \A i \in Ranks, c \in Chunks, s \in Subchunks :
    out[i][c][s] # Unwritten =>
      /\ out[i][c][s].op = out[i][c][s].wop
      /\ out[i][c][s].chunk = c
      /\ out[i][c][s].contrib = Ranks
      /\ i = root[out[i][c][s].wop]

(* Completeness: when the kernel of the root of a call has finished, every *)
(* slice of its Output was written by that call (the chunk loop of every  *)
(* block, bid, bid+gridDim.x, ..., covers all NumChunks chunks).          *)
OutputCompleteOnReturn ==
  \A i \in Ranks :
    KernelDone(i) /\ i = root[op[i]] =>
      \A c \in Chunks, s \in Subchunks : out[i][c][s].wop = op[i]

(* Every call terminates on every rank: no block waits forever on a flag  *)
(* or on the successor's opCounter.                                       *)
AllCallsComplete == <>AllFinished
=============================================================================
