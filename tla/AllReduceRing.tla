---------------------------- MODULE AllReduceRing ----------------------------
(***************************************************************************)
(* AllReduceKernel of src/unnamed/part_000 (all_reduce.cu), one ring      *)
(* (block) over the ranks 0..N-1, next(r) = r+1 mod N.  Each rank runs    *)
(* MaxOps consecutive ncclAllReduce calls on its stream.                  *)
(*                                                                         *)
(* Edge r -> next(r) carries:                                              *)
(*   buf[r]   : r's send buffer (next's recv buffer), NUM_BUFCHUNKS slots  *)
(*              of NUM_SUBSTEPS sub-slices each;                           *)
(*   tail[r]  : ready flag, posted by r, waited on by next (recv.conn.tail);*)
(*   head[r]  : done flag, posted by next, waited on by r (send.conn.head); *)
(*   opc[r]   : opCount flag, published by next at its kernel end,         *)
(*              waited on by r at its kernel start;                        *)
(*   ptrEx[r] : r's devMem->ptrExchange, written by next when the edge is  *)
(*              direct, read and cleared by r.                             *)
(*                                                                         *)
(* primitives.h is not in the repository.  From the spec (the flag/FIFO    *)
(* memory is an indexed ring buffer with monotonic counters), WaitFlag     *)
(* (flag, sh).wait(v) spins until flag >= v + sh and PostFlag(flag, sh)    *)
(* .post(v) stores v + sh; each Primitives op runs NUM_SUBSTEPS substeps,  *)
(* substep u of step S waiting and posting v = NUM_SUBSTEPS*S + u + 1.     *)
(*                                                                         *)
(* Data is abstracted to the set of contributions <<rank, op, slice>> it   *)
(* holds; reduction is union.  A slice is <<gridOffset iteration, index>>. *)
(***************************************************************************)
EXTENDS Integers, FiniteSets

CONSTANTS
  N,             \* nranks
  NIter,         \* iterations of the gridOffset loop
  MaxOps,        \* consecutive ncclAllReduce calls
  Direct,        \* ranks r whose edge r -> next(r) is direct (nextdirect)
  NumSubsteps,   \* NUM_SUBSTEPS
  NumBufChunks   \* NUM_BUFCHUNKS

Ranks == 0 .. N - 1
ASSUME N >= 2 /\ NIter >= 1 /\ MaxOps >= 1 /\ Direct \subseteq Ranks
       /\ NumSubsteps >= 1 /\ NumBufChunks >= 1

NextRank(r) == (r + 1) % N
PrevRank(r) == (r + N - 1) % N
NextDirect(r) == r \in Direct
PrevDirect(r) == PrevRank(r) \in Direct

Ops == 0 .. MaxOps - 1
Subs == 0 .. NumSubsteps - 1
Slots == 0 .. NumBufChunks - 1
Slices == (0 .. NIter - 1) \X Ranks
\* Local steps of one gridOffset iteration: 0 .. 2N-2.
LastStep == 2 * N - 2
StepsPerIter == 2 * N - 2
Null == -1

Contribs == Ranks \X Ops \X Slices
In(r, k, x) == {<<r, k, x>>}
Full(k, x) == {<<q, k, x>> : q \in Ranks}

VARIABLES
  op,          \* op[r]: the call rank r's kernel runs (MaxOps when all done)
  pc,          \* pc[r]: "start", "xchg", "run", "reset", "publish", "done"
  it, j, u,    \* gridOffset iteration, local step, substep of rank r
  sharedNext,  \* sharedNextOutput: the op whose output next handed over
  buf, tail, head, opc, ptrEx,
  out          \* out[r][x][s]: rank r's output slice x, substep s

vars == <<op, pc, it, j, u, sharedNext, buf, tail, head, opc, ptrEx, out>>

Init ==
  /\ op = [r \in Ranks |-> 0]
  /\ pc = [r \in Ranks |-> "start"]
  /\ it = [r \in Ranks |-> 0] /\ j = [r \in Ranks |-> 0] /\ u = [r \in Ranks |-> 0]
  /\ sharedNext = [r \in Ranks |-> Null]
  /\ buf = [r \in Ranks |-> [s \in Slots |-> [v \in Subs |-> {}]]]
  /\ tail = [r \in Ranks |-> 0] /\ head = [r \in Ranks |-> 0]
  /\ opc = [r \in Ranks |-> 0]
  /\ ptrEx = [r \in Ranks |-> Null]
  /\ out = [r \in Ranks |-> [x \in Slices |-> [v \in Subs |-> {}]]]

\* Mutant: the opCount wait lets the call start one call early.
OpCountReadyEarly(r) == opc[r] >= op[r] - 1
\* 53-54: waitOpCountNext.wait(args.opCount), shift 0.
OpCountReady(r) == opc[r] >= op[r]

(* part_000 51-64: thread 0 waits for next's opCount, then hands its      *)
(* output to prev if prev writes directly into it.                        *)
Start(r) ==
  /\ pc[r] = "start"
  /\ OpCountReady(r)
  /\ ptrEx' = IF PrevDirect(r) THEN [ptrEx EXCEPT ![PrevRank(r)] = op[r]] ELSE ptrEx
  /\ pc' = [pc EXCEPT ![r] = IF NextDirect(r) THEN "xchg" ELSE "run"]
  /\ it' = [it EXCEPT ![r] = 0] /\ j' = [j EXCEPT ![r] = 0]
  /\ u' = [u EXCEPT ![r] = 0]
  /\ UNCHANGED <<op, sharedNext, buf, tail, head, opc, out>>

\* Mutant: the pointer is read but ptrExchange is not cleared.
TakePointerNoClear(r) == ptrEx
\* 62: *ptr = nullptr.
TakePointer(r) == [ptrEx EXCEPT ![r] = Null]

\* 58-63: spin until next's output pointer arrives, take it.
Exchange(r) ==
  /\ pc[r] = "xchg"
  /\ ptrEx[r] # Null
  /\ sharedNext' = [sharedNext EXCEPT ![r] = ptrEx[r]]
  /\ ptrEx' = TakePointer(r)
  /\ pc' = [pc EXCEPT ![r] = "run"]
  /\ UNCHANGED <<op, it, j, u, buf, tail, head, opc, out>>

(* The step schedule, 85-191.  devUserRanks[i] = (r + i) mod N, so local  *)
(* step j works on slice (r - j - 1) mod N in every branch.               *)
SliceOf(r, i, s) == <<i, (r + 2 * N - s - 1) % N>>
Sends(s) == s <= LastStep - 1          \* every op but the last Copy
Receives(s) == s >= 1                  \* every op but the first Copy
\* Mutant: the final ReduceCopy is a Copy and leaves out this input.
UsesInputNotLast(s) == s <= N - 2
UsesInput(s) == s <= N - 1             \* Copy, Reduce, ReduceCopy
\* Mutant: the last Reduce already writes the output.
WritesOutputEarly(s) == s >= N - 2
WritesOutput(s) == s >= N - 1          \* ReduceCopy and later
\* The cumulative step: NEXT_STEP is not taken after the last Copy.
StepOf(r) == it[r] * StepsPerIter + j[r]
FlagVal(r) == NumSubsteps * StepOf(r) + u[r] + 1

\* Mutant: the sender may run NUM_BUFCHUNKS+1 steps ahead of next.
SlotFreeOneMore(r) == head[r] >= FlagVal(r) - (NumBufChunks + 1) * NumSubsteps
\* waitDoneFromNext (shift -NUM_BUFCHUNKS*NUM_SUBSTEPS): the slot is free.
SlotFree(r) == head[r] >= FlagVal(r) - NumBufChunks * NumSubsteps
\* Mutant: waitReadyFromPrev without its shift waits for prev's same step.
DataReadyNoShift(r) == tail[PrevRank(r)] >= FlagVal(r)
\* waitReadyFromPrev (shift -NUM_SUBSTEPS): prev posted its previous step.
DataReady(r) == tail[PrevRank(r)] >= FlagVal(r) - NumSubsteps
\* Mutant: postDoneToPrev without its shift.
DoneValNoShift(r) == FlagVal(r)
\* postDoneToPrev (shift -NUM_SUBSTEPS): done for prev's previous step.
DoneVal(r) == FlagVal(r) - NumSubsteps

\* Mutant: the gridOffset loop runs one iteration too many.
LastIterLate(r) == it[r] = NIter
\* 76: the gridOffset loop ends after NIter iterations.
LastIter(r) == it[r] = NIter - 1

(* One substep of the current Primitives op (Copy, Reduce, ReduceCopy,    *)
(* DoubleCopy or the final Copy): wait on the flags the op has, read the  *)
(* received data (from prev's buffer at poffset, or from this output in   *)
(* the prevdirect Copy loop), combine with this input, write this output  *)
(* and the next buffer at noffset or next's output (nextdirect), post the *)
(* flags, then NEXT_STEP.                                                 *)
Substep(r) ==
  LET s == j[r]
      S == StepOf(r)
      x == SliceOf(r, it[r], s)
      fromOut == PrevDirect(r) /\ s >= N
      toOut == NextDirect(r) /\ s >= N - 1
      recv == IF ~Receives(s) THEN {}
              ELSE IF fromOut THEN out[r][x][u[r]]
              ELSE buf[PrevRank(r)][(S - 1) % NumBufChunks][u[r]]
      val == IF UsesInput(s) THEN recv \cup In(r, op[r], x) ELSE recv
      ownOut == WritesOutput(s) /\ ~fromOut
      last == u[r] = NumSubsteps - 1
  IN
  /\ pc[r] = "run"
  /\ Sends(s) => SlotFree(r)
  /\ Receives(s) => DataReady(r)
  /\ out' = [q \in Ranks |-> [y \in Slices |-> [v \in Subs |->
              IF v = u[r] /\ y = x
                 /\ ((q = r /\ ownOut) \/ (q = NextRank(r) /\ Sends(s) /\ toOut))
              THEN val ELSE out[q][y][v]]]]
  /\ buf' = IF Sends(s) /\ ~toOut
            THEN [buf EXCEPT ![r][S % NumBufChunks][u[r]] = val] ELSE buf
  /\ tail' = IF Sends(s) THEN [tail EXCEPT ![r] = FlagVal(r)] ELSE tail
  /\ head' = IF Receives(s)
             THEN [head EXCEPT ![PrevRank(r)] = DoneVal(r)] ELSE head
  /\ u' = [u EXCEPT ![r] = IF last THEN 0 ELSE @ + 1]
  /\ j' = [j EXCEPT ![r] = IF ~last THEN @ ELSE IF s = LastStep THEN 0 ELSE @ + 1]
  /\ it' = [it EXCEPT ![r] = IF last /\ s = LastStep /\ ~LastIter(r) THEN @ + 1 ELSE @]
  /\ pc' = [pc EXCEPT ![r] =
              IF last /\ s = LastStep /\ LastIter(r) THEN "reset" ELSE @]
  /\ UNCHANGED <<op, sharedNext, opc, ptrEx>>

(* 194-198: thread 0 waits until next has consumed every step, i.e.       *)
(* waitDoneFromNext.wait(NUM_SUBSTEPS*(step+NUM_BUFCHUNKS)), then resets  *)
(* *send.conn.head and *recv.conn.tail.                                   *)
Reset(r) ==
  /\ pc[r] = "reset"
  /\ head[r] >= NumSubsteps * (NIter * StepsPerIter + NumBufChunks)
                - NumBufChunks * NumSubsteps
  /\ head' = [head EXCEPT ![r] = 0]
  /\ tail' = [tail EXCEPT ![PrevRank(r)] = 0]
  /\ pc' = [pc EXCEPT ![r] = "publish"]
  /\ UNCHANGED <<op, it, j, u, sharedNext, buf, opc, ptrEx, out>>

(* 199-200: after __threadfence_system, *recv.conn.opCount = opCount+1;   *)
(* the kernel ends and the stream starts the next call's kernel.          *)
Publish(r) ==
  /\ pc[r] = "publish"
  /\ opc' = [opc EXCEPT ![PrevRank(r)] = op[r] + 1]
  /\ op' = [op EXCEPT ![r] = @ + 1]
  /\ pc' = [pc EXCEPT ![r] = IF op[r] + 1 < MaxOps THEN "start" ELSE "done"]
  /\ UNCHANGED <<it, j, u, sharedNext, buf, tail, head, ptrEx, out>>

Step(r) == Start(r) \/ Exchange(r) \/ Substep(r) \/ Reset(r) \/ Publish(r)

AllDone == \A r \in Ranks : pc[r] = "done"

\* Every call has finished on every rank.
Finished == AllDone /\ UNCHANGED vars

Next == (\E r \in Ranks : Step(r)) \/ Finished

(* Each rank's block runs on its own SMs and spins on flags only; every   *)
(* stream launches its next kernel when the previous one ends.            *)
Spec == Init /\ [][Next]_vars /\ \A r \in Ranks : WF_vars(Step(r))

-----------------------------------------------------------------------------
MaxFlag == NumSubsteps * NIter * StepsPerIter

TypeOK ==
  /\ op \in [Ranks -> 0 .. MaxOps]
  /\ pc \in [Ranks -> {"start", "xchg", "run", "reset", "publish", "done"}]
  /\ it \in [Ranks -> 0 .. NIter - 1] /\ j \in [Ranks -> 0 .. LastStep]
  /\ tail \in [Ranks -> 0 .. MaxFlag] /\ head \in [Ranks -> 0 .. MaxFlag]
  /\ opc \in [Ranks -> 0 .. MaxOps] /\ ptrEx \in [Ranks -> Ops \cup {Null}]
  /\ buf \in [Ranks -> [Slots -> [Subs -> SUBSET Contribs]]]
  /\ out \in [Ranks -> [Slices -> [Subs -> SUBSET Contribs]]]

(* When a rank's kernel reaches its final sync, every slice of its output *)
(* holds the reduction over all ranks' inputs of that slice, for this     *)
(* call: no slot of a staging buffer was overwritten before next read it, *)
(* no stale data of an earlier call or step was combined, and the direct  *)
(* hand-over wrote into the right output.                                 *)
AllReduceCorrect ==
  \A r \in Ranks : pc[r] \in {"reset", "publish"} =>
    \A x \in Slices, v \in Subs : out[r][x][v] = Full(op[r], x)

(* The output only ever holds complete reductions: no partial sum of the  *)
(* reduce-scatter phase is written to a user buffer.                      *)
OutputOnlyFinal ==
  \A r \in Ranks, x \in Slices, v \in Subs :
    out[r][x][v] = {} \/ \E k \in Ops : out[r][x][v] = Full(k, x)

(* No data of two slices or of two calls is ever combined or stored      *)
(* together, and an output slice only ever holds data of that slice: a    *)
(* staging slot is never overwritten before next has read it.             *)
SameChunk(val) == \A a, b \in val : a[2] = b[2] /\ a[3] = b[3]
NoMixedData ==
  /\ \A r \in Ranks, sl \in Slots, v \in Subs : SameChunk(buf[r][sl][v])
  /\ \A r \in Ranks, x \in Slices, v \in Subs :
       SameChunk(out[r][x][v]) /\ \A a \in out[r][x][v] : a[3] = x

(* Flow control: next never reports done (head) for a substep r has not   *)
(* made ready (tail) on the same edge, outside the window where next has  *)
(* already reset tail at its kernel end.                                  *)
DoneNeverAheadOfReady ==
  \A r \in Ranks : tail[r] # 0 => head[r] <= tail[r]

(* A rank writing directly into next's output uses the pointer next       *)
(* handed over for the same call (ptrExchange is consumed once per call). *)
DirectPointerCurrent ==
  \A r \in Direct : pc[r] \in {"run", "reset", "publish"} => sharedNext[r] = op[r]

(* Every call completes on every rank: no flag wait, ptrExchange spin or  *)
(* opCount wait blocks for good.                                          *)
AllCallsComplete == <>AllDone

-----------------------------------------------------------------------------
(* Refinement: the kernel-level schedule implements the call-level one of *)
(* AllReduceCalls.  A rank has begun a call once its thread 0 passed the  *)
(* opCount wait, and has ended it when it published opCount+1.            *)
InCall(r) == pc[r] \in {"xchg", "run", "reset", "publish"}
Calls == INSTANCE AllReduceCalls WITH
           started <- [r \in Ranks |-> op[r] + (IF InCall(r) THEN 1 ELSE 0)],
           finished <- op

(* Every behaviour of the kernels is a behaviour of AllReduceCalls: no    *)
(* rank enters a call before its successor has left the previous one, no  *)
(* rank leaves a call before every rank has entered it, and every call    *)
(* is entered and left.                                                   *)
ImplementsCalls == Calls!Spec
====
