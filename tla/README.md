# TLA+ models of NCCL's ring collectives and IB transport

These modules model the code in `src/`. The code consists of:
- the NCCL 1.x ring Reduce (`src/src/reduce.cu`);
- the NCCL 2 ring AllReduce kernel (`src/unnamed/part_000`, i.e. `all_reduce.cu`);
- the InfiniBand network transport (`src/src/transport/net_ib.cu`);
- the CRC debugging helpers (`src/src/crc32.cu`);
- a ring-topology test program (`src/unnamed/part_001`);
- gtest API tests (`src/test/apitest`).

## The system's parts and how they interact

| Part | Source | State | Operations | Interacts with |
|---|---|---|---|---|
| Reduce kernel | reduce.cu 171-263 | per (rank, ring): new-data flag, chunk-done flag, staging buffer slots; per rank: `doneCount`, `opCounter`; Output | opCounter wait, per-slice wait + Copy/Reduce, consumer signals, flag reset, last-block opCounter publish | the predecessor and successor ranks of every ring, through flags and buffers in each other's memory |
| Reduce launch | reduce.cu 266-353 | `opSched`, ring roles | role assignment from the root, kernel launch on a stream | kernels run in stream order |
| AllReduce kernel | part_000 29-202 | head/tail/opCount per connection, ptrExchange | 2·(nranks−1) steps per chunk via Primitives (WaitFlag/PostFlag) | ring neighbours, proxies |
| IB requests | net_ib.cu 488-793 | request pool, MR cache (`mrPool`, `refcnt`, `mrRotation`), `numRequests`, send FIFO, CQ | GetRequest, GetMr, Isend, Irecv, PostFifo, Flush, Test | the remote peer through the QP and the FIFO RDMA write |
| IB setup and close | net_ib.cu 395-530, 794-836 | `ready`, QP state | Connect, Accept, SendCheck, RecvCheck, CloseSend, CloseRecv | the peer through a socket; the peer's RDMA into this side's memory |
| IB device init | net_ib.cu 67-175, 858-861 | `ncclNIbDevs`, `ncclIbLock`, a caller's scores array | initDevices, ncclIbSupport, ncclIbDevices | concurrent callers |
| AllReduce launch and tiling | part_000 15-88, 209-226 | `gridOffset`, `chunkSize`, per-step `offset`/`maxOffset` | RingAllReduce, the gridOffset loop | the AllReduce kernel's steps move these tiles |
| CRC | crc32.cu | table, accumulator | calcCRCHost, CRCKernel | none |

Several behaviours make this code hard to test:
- Three or more ranks' blocks interleave on flags that live in each other's memory.
- Consecutive calls on one stream reuse the same flags and buffers.
- Several blocks of one kernel share `doneCount`.
- The IB completion queue is progressed re-entrantly: `ncclIbTest` calls `ncclIbFlush`, which calls `ncclIbTest`.
- The request queue is bounded at `MAX_REQUESTS`.
- A mutex is taken and then left held on error paths.

## Modules

### ReduceRing (reduce.cu), with MC_ReduceRing

Each rank's kernel has `Grid = min(NumChunks, nRings)` blocks, and a block is the pair `<<rank, ring>>`.

The producer threads' position is `pc[b]`. Its `st` is one of:
- `opwait`: the kernel-entry wait on `NextOpCounter`;
- `wait`: spinning on the slice's flags;
- `bar`: at the `__syncthreads` ending the slice;
- `reset`;
- `done`.

Its `c` and `s` are the chunk and the slice, following the two `for` loops (`After`).

The consumer thread is `pending[b]`, the slice it must signal next.

Flags follow the code:

| Variable | Code |
|---|---|
| `newData[i][r]` | `ThisNewDataAvailableFlag` |
| `chunkDone[i][r]` | `ThisChunkDoneFlag` |
| `doneCount[i]` | `flags[MAXFLAGS-1]` |
| `opCounter[i]` | `comm->opCounter` |

`buf[i][r][s]` is slot s of rank i's staging buffer for ring r. `out[i][c][s]` is rank i's Output. Data is a tag: the call, the chunk, and the set of ranks whose input it combines.

Each action models one part of the kernel:

| Action | Code |
|---|---|
| `OpWait` | lines 176-182 |
| `Compute` | the role's wait and then Copy/Reduce, 207-235 |
| `Barrier` | 236/240 |
| `Signal` | the consumer thread's two signals, 241-248 |
| `Reset` | 253-262 |
| `Launch` | the next `ncclReduce` on the rank's stream, which starts when its kernel has finished |
| `Spin` | thread 0's busy-wait, a stuttering step |

A hang therefore shows as a liveness violation, not as a deadlock. `Finished` is the idle state after the last call.

### IbNet (net_ib.cu 395-793), with MC_IbNet

The model covers one connection. The sending proxy thread calls `ncclIbIsend`/`ncclIbTest`, the receiving proxy thread calls `ncclIbIrecv`/`ncclIbTest`, and the HCA executes what they post. Per side (`"send"`, `"recv"`) the state mirrors the code:

| Variable | Code |
|---|---|
| `req[side][q]` | `ncclIbRequest`: `used`, `done`, `ibMr` as a slot index; `flush` is `flushDataPtr != NULL`; `mrOk` is false once the request's region was deregistered |
| `mr[side][i]` | the `[lo, hi)` registered in `mrPool[i]` |
| `ref[side][i]` | `mrPool[i].refcnt` |
| `rot[side]` | `mrRotation % MAX_REQUESTS` |
| `num[side]` | `numRequests` |
| `cq[side]` | the completion queue |

Cross-side state:
- `fifo`: the sender's `fifo[]`. An entry's address is the receive request it announces.
- `head` and `tail`: `fifoHead` and `remFifo.tail`.
- The HCA's queues: `swr` (RDMA writes with immediate), `rwr` (posted receives), `fifoW` (PostFifo writes) and `flushQ` (flush reads).

`ncclIbTest` calls `ncclIbFlush`, which calls `ncclIbTest`, and every flow-control loop calls `ncclIbTest`. Each proxy therefore has an explicit call stack `stack[side]` of frames. A frame is a function at a loop of its body, and every loop iteration is one step:

| Actions | Code |
|---|---|
| `Isend`, `WaitWr`, `IsendPost`, `IsendSpin` | Isend |
| `Irecv`, `IrecvPost`, `IrecvPostFifo`, `IrecvReturn` | Irecv |
| `PostFifoPost`, `WaitDone` | PostFifo |
| `FlushPost`, `WaitDone` | Flush |
| `TestPoll`, `TestAfterFlush` | Test |

`ncclIbGetMr` is the operator `MrLookup` (which slot) plus `GetMr` (the update). `GetRequest` takes the first free request. The pool starts empty (`nreqs = 0`). When no request is free it grows by `GrowBy`, the code's 32, with a `realloc` (502) that may or may not move the array: the model chooses (`moved`). A move marks every request in use `stale`, because the proxy, an outstanding WR's `wr_id` and Irecv's local `req` still point at the old array. Growth past `Reqs` is outside the model, so the step is disabled there.

The HCA's actions are:
- `Deliver`: the write lands at the FIFO entry's address and consumes the oldest posted receive; both sides get completions.
- `FifoLand`.
- `FlushRead`.

The connection setup comes first, with these variables:
- `qp[side]`: the side's QP state (`"none"`, `"init"` or `"rts"`);
- `ready[side]`: `comm->ready`;
- `sock`: the bytes in flight on the TCP socket in each direction.

The setup actions are:
- `Connect` (395-421): the sender's QP is created in INIT, and its QP info is sent without waiting.
- `Accept` (423-481): it reads that info, brings the receiver's QP to RTR and RTS, and sends its own info back.
- `SendCheck` (509-521): the first Isend reads the receiver's info, brings the sender's QP up and sends the go word.
- `RecvCheck` (523-530): the first Irecv blocks until that word arrives.

Each proxy closes its comm once every request it was handed has been reported done: `CloseSend` (794-811) and `CloseRecv` (813-836). The close destroys the QP (`qp` becomes `"destroyed"`) and deregisters every `mrPool` region, whatever its refcnt; a non-zero refcnt only gets a WARN (803, 826). The history variable `atClose[side]` records what the close found still in use: the referenced regions, the side's unpolled WRs, and the peer's RDMA operations into this side's memory that are still in flight.

Isend and Irecv proper are enabled only once `ready` is set. Irecv takes its request before `ncclRecvCheck`, but nothing else touches the receive pool, so the model takes it after.

Undefined behaviour ends the side in a `fault` state: the out-of-bounds `mrPool` index, and the NULL `ibMr`.

Properties:
- `WrAccounting`: `numRequests` equals the posted, unpolled WRs, and never exceeds MAX_REQUESTS, the CQ/QP depth.
- `FifoMatchesReceives`: the in-flight writes, then the ready FIFO slots from `fifoHead`, then the in-flight PostFifo writes, name the posted receives from the oldest on. So there is no overwrite of a ready slot, no RNR, and every message lands in the buffer of the receive that completes for it.
- `RefcntMatches`: `refcnt` equals the requests holding the slot whose completion has not been handled.
- `HeldRequestsLive`: a request handed to the proxy is freed only by the proxy's own Test of it, and no request in use is left behind by a `realloc` that moves the pool.
- `MrRegisteredWhileOutstanding`.
- `QpsReadyForTraffic`: while a data write or a PostFifo write is in flight, both QPs are in RTS. Without the go word the first Irecv would announce its buffer into a sender QP still in INIT (mutant `RecvCheckNoGo`).
- `CloseFindsIdle`: each close finds no referenced region, no outstanding WR of its side, and no RDMA of the peer in flight into its memory. The two proxies close independently, and each knows only that its own requests were reported done. This holds because every FIFO entry the receiver announces is consumed by one of the sender's sends. Mutant: `ReleaseNoUnref`. Under `IbNet_flush.cfg` it fails like `RefcntMatches`: the receiver's close deregisters a region whose refcnt is wrong, with a WARN.
- `NoMrOutOfBounds`.
- `NoNullMrDeref`.
- `AllMessagesComplete`.

| Run | Expect | What it shows |
|---|---|---|
| ib_host | pass | 3 messages each way, MAX_REQUESTS = 2 (the FIFO wraps, both queues fill), host buffers in two regions: from the connection setup through both closes, all of the above hold (123k distinct states, ~30 s with one send buffer) |
| ib_flush | pass | GPU flush on: accounting, FIFO matching and completion still hold |
| ib_flush_refcnt | violation | a flushed receive's MR refcount is decremented twice: by the nested Test for the RDMA read and by the outer Test for the receive (net_ib.cu 771 → 747 → 779, then 779). The same nested Test also frees (`used = 0`) a receive flushed during the PostFifo wait of its own Irecv, so Irecv returns a request that is already free (`HeldRequestsLive` fails on the same configuration) |
| ib_mr_grow | violation | the "size too small" path of GetMr (552) deregisters a region an outstanding receive uses |
| ib_realloc | violation | with the pool step scaled like MAX_REQUESTS (32 of 64 becomes `GrowBy = 1` of 2), the pool grows a second time while every request in it is in use. The move leaves Irecv's own request, the one the proxy holds and the WR's `wr_id` dangling. The code's flow control allows 64 outstanding WRs, so 33 requests in use are legal |

Two more disagreements are stated as properties but have no run of their own at present, to keep the number of runs small:
- `NoMrOutOfBounds`: GetMr's free-slot search (560-563) does not wrap, and reads `mrPool[MAX_REQUESTS]`. It is violated with five sends over three regions, which put the rotation on an in-use last slot.
- `NoNullMrDeref`: Irecv of size 0 dereferences the NULL `ibMr` (714). It is violated with a receive buffer of size 0.

Bounds. MAX_REQUESTS = 2 is the smallest value at which the queue-full loops, the FIFO wrap-around and a full MR pool all occur. Three messages are one more than the FIFO has slots. The passing runs use `GrowBy = 4`, larger than the scaled 32: the pool grows once, from 0, with nothing in use, exactly as the code's first call does. At most 4 requests are in use at once, NMsgs receives plus a PostFifo. `REG_ALIGN = 2` address units keep regions small and keep alignment and rounding visible. The violation runs use the smallest buffer sets that reach their case.

Fairness. The threads that set up the communicator finish Connect and Accept. Each proxy thread keeps calling into the transport: it loops over its requests. The HCA executes every posted WR. The FIFO spin (`IsendSpin`) is a stuttering step without fairness.

Not modelled here:
- completions with an error status;
- the verbs calls of setup and close (PD, CQ and QP creation and destruction, the FIFO's MR), abstracted to the QP state; a failing call in a close returns early and leaks the rest (not modelled: the comm is not used afterwards);
- the flush QP's setup in Accept: `gpuFlush.enabled` stays 1 when `ncclIbGdrSupport()` is 0, so no flush QP exists. A flush would then post on a NULL QP. It can only happen if the caller passes a CUDA pointer that `ncclIbPtrSupport` did not offer, and that caller is outside the repository;
- the ordering of `ready` against `addr`/`rkey` inside one RDMA write.

### IbInit (net_ib.cu 67-175, 858-861), with MC_IbInit

Every entry point of the IB transport calls `initDevices` first: `ncclIbDevices`, `ncclIbSupport`, `ncclIbPtrSupport`, `GetSocketAddr` and `ncclIbConnect`. Threads of several communicators can do so at once.

State. `pc[t]` is the position of thread `t` in `initDevices`. `dev[t]`, `port[t]` and `found[t]` are the loop variables `d`, `port` and `found`. `nDevs` is `ncclNIbDevs`, which starts at −1. `owner` is the holder of `ncclIbLock`. Two history variables are added:
- `seen[t]`: the value of `ncclNIbDevs` when the call returned to its caller;
- `scanners`: the threads that ran detection.

Each thread is one call of `ncclIbSupport` or `ncclIbDevices`, `api[t]`, chosen in the initial state. After `initDevices` returns, `ncclIbSupport` returns `ncclNIbDevs > 0`. `ncclIbDevices` sets `*ndev` (154), allocates `sc` with `ncclNIbDevs` entries (159; −1 makes malloc return NULL), and fills `sc[d]` for `d < ncclNIbDevs`, re-reading the count at every test (162-169). All these reads are without the lock. `scLen[t]` and `scNext[t]` are the size of `sc` and the loop index.

Constants:
- `Usable`: the number of active ports that match `NCCL_IB_HCA`, per device. Port state and the HCA filter are folded into this count.
- `Failing`: the calls that may fail.
- `MaxIbDevs`: `MAX_IB_DEVS`.

Actions, one per step of the code:
- `Check`: symbols loaded (68), then the unlocked check (69);
- `Lock` (70), then `Recheck` (71);
- `FindInterface` (72-93): returns on failure with the lock held, otherwise sets `ncclNIbDevs = 0`;
- `DeviceList` (102);
- `OpenDevice` (104-116): open and query a device, where a failure skips it;
- `AddPort` (117-138): record the port and increment `ncclNIbDevs`;
- `CloseDevice` (140);
- `FreeList` (143);
- `Unlock` (144-150);
- `ScoresAlloc` (152-159) and `ScoreDevice` (160-175): `ncclIbDevices` after `initDevices`.

`ScoresInBounds` states that `ncclIbDevices` writes `sc[d]` only inside the array it allocated.

| Run | Expect | What it shows |
|---|---|---|
| init | pass | 3 threads, every call may fail: `DevicesScannedOnce`, i.e. at most one thread detects the devices. Deadlock is not checked, because the held lock really can stop the system (`LockReleasedOnReturn` below) |
| init_scores | violation | 2 threads, no failure. `ncclNIbDevs = 0` (93) is visible through the unlocked check (69) before the devices are filled in. A concurrent `ncclIbDevices` returns at once and allocates `sc` with 0 entries. The scanning thread then adds a port, and the score loop writes `sc[0]`, past the allocation (10 steps) |

`LockReleasedOnReturn` states that every return of `initDevices` releases `ncclIbLock`. `IbInit_lock_held.cfg` finds it violated: the returns at 80, 86, 102, 140 and 143 leave the lock held, so later callers block for good. It has no run of its own. Any test of an error path meets it, unlike the races the runs show.

`CallersSeeAllDevices` states that every caller saw the final device count. `IbInit_partial.cfg` finds it violated by the same race, with `ncclIbSupport` reporting 0 devices. It has no run of its own, because `init_scores` shows the race's worse consequence.

`DevTableInBounds` states that `ncclIbDevs[ncclNIbDevs]` (130) is never written past its end. It has no run at present. With more usable ports than `MAX_IB_DEVS` (scaled to 3), TLC finds it violated, because the loop does not check the bound.

Mutants: `PortInRangeInclusive` breaks `TypeOK`, and `NeedsScanAlways` (no re-check under the lock) breaks `DevicesScannedOnce`.

Bounds. Two devices with 1 and 2 usable ports cover the following:
- a device with several ports;
- a skipped port;
- a device with no port added, which is closed.

In the `init` run every thread may call either entry point. Three threads cover all three cases at once: one scanning, one blocked on the lock and one returning through the unlocked check.

Fairness. Weak fairness per thread: the OS keeps scheduling every thread, and `pthread_mutex_lock` admits a waiter once the lock stays free.

### AllReduceRing (part_000, i.e. all_reduce.cu), with MC_AllReduceRing

The module models one ring: one block per rank. The blocks of different rings use separate connections and do not interact.

Each edge r → r+1 carries five pieces of state:
- `buf[r]`: r's send buffer, which is the successor's receive buffer. It has `NUM_BUFCHUNKS` slots of `NUM_SUBSTEPS` parts each.
- `tail[r]`: the ready flag, posted by r.
- `head[r]`: the done flag, posted by the successor.
- `opc[r]`: the opCount, which the successor publishes when its kernel ends.
- `ptrEx[r]`: r's `devMem->ptrExchange`.

Data is the set of contributions `<<rank, call, slice>>` a value holds, and reduction is union. So a wrongly timed read shows up as missing or mixed contributions.

`primitives.h` is not in the repository, so the flag semantics come from the spec (monotonic counters): `WaitFlag(f, sh).wait(v)` waits for `f >= v + sh`, and `PostFlag(f, sh).post(v)` stores `v + sh`. Substep u of step S uses `v = NUM_SUBSTEPS*S + u + 1`.

The shifts of lines 38-41 give the flow control:
- `SlotFree`: a send may not run more than `NUM_BUFCHUNKS` steps ahead of the successor;
- `DataReady`: a receive reads the predecessor's previous step;
- `DoneVal`: the value the receiver posts.

Actions:
- `Start` (51-57): opCount wait, and the pointer written for the predecessor;
- `Exchange` (58-63): spin, take the pointer, clear it;
- `Substep`: one substep of whichever Primitives op the schedule is at;
- `Reset` (194-198);
- `Publish` (199-200).

The schedule has one closed form. With `devUserRanks[i] = (r+i) mod N`, local step j always works on slice `(r-j-1) mod N`:
- steps 0..2N-3 send, and steps 1..2N-2 receive;
- steps 0..N-1 add this rank's input;
- steps N-1 and later write the output;
- on a prevdirect rank, steps N and later read this rank's own output, which the predecessor wrote directly;
- on a nextdirect rank, sends from step N-1 on go to the successor's output.

`NEXT_STEP` is not taken after the last Copy (`StepOf`).

| Property | What it says |
|---|---|
| `AllReduceCorrect` | at the final sync every output slice is the reduction of all ranks' inputs for this call |
| `NoMixedData` | no buffer or output value ever combines two slices or two calls, and an output slice holds only its own slice |
| `DoneNeverAheadOfReady` | `head[r] <= tail[r]` while tail is set: the successor never acknowledges a substep not yet made ready |
| `OutputOnlyFinal` | the user output never holds a partial sum |
| `DirectPointerCurrent` | a nextdirect rank writes into the output its successor handed over for the same call |
| `AllCallsComplete` | every call completes on every rank |
| `ImplementsCalls` | the ring implements the call-level specification `AllReduceCalls` (below) |

Run `allreduce` (pass, 7.8k states, ~15 s) uses the following bounds:
- N = 4, so the Reduce and DoubleCopy loops run twice;
- two gridOffset iterations, so steps continue across iterations;
- two calls, covering the opCount handshake, the flag reset and the pointer exchange again;
- `NUM_SUBSTEPS = NUM_BUFCHUNKS = 2`, as in the code;
- direct edges 0→1 and 1→2, so the four ranks cover all four combinations of prevdirect and nextdirect.

Mutants, each found by TLC:

| Mutant | Property violated |
|---|---|
| `LastIterLate` (one gridOffset iteration too many) | `TypeOK` |
| `UsesInputNotLast` (a Copy in place of ReduceCopy) | `AllReduceCorrect` |
| `SlotFreeOneMore` (one step more of slack) | `NoMixedData` |
| `DoneValNoShift` | `DoneNeverAheadOfReady` |
| `WritesOutputEarly` | `OutputOnlyFinal` |
| `TakePointerNoClear` (ptrExchange not cleared) | `DirectPointerCurrent` |
| `DataReadyNoShift` (the whole ring waits on itself) | `AllCallsComplete` |
| `OpCountReadyEarly` (the opCount wait at 53-54 accepts the successor one call behind) | `ImplementsCalls` |

Fairness: weak fairness per rank. Each block spins on its own SMs; the only waits are flag spins and stream order.

#### AllReduceCalls: what the ring promises per call

`AllReduceCalls` is the abstract specification, at the level of whole calls. `started[r]` and `finished[r]` count the calls rank r has begun and ended. It has two actions:
- `Begin(r)`: rank r begins call k only once its successor has finished call k-1. This is the opCount handshake at kernel start.
- `End(r)`: rank r ends call k only once every rank has begun call k, because its result depends on every rank's input.

It asks, under weak fairness per rank, that every rank keeps issuing calls up to `MaxOps` and that every call it begins ends.

`AllReduceRing` instantiates it with a refinement mapping:
- `finished` is `op`, the calls whose kernel has ended;
- `started` is `op`, plus one while the rank is inside a kernel (`InCall`: from the pointer exchange to the opCount publish).

The property `ImplementsCalls == Calls!Spec` checks that every behaviour of the ring is a behaviour of the call-level spec, with its fairness included.

### ReduceSizing (reduce.cu 265-313), with MC_ReduceSizing

`RingReduce` computes the launch sizes of a Reduce on the host. Its inputs are:
- the count;
- `sizeof(T)`;
- `comm->buffSize`;
- `comm->nRings`;
- `comm->globalMemSpace`.

The module computes those sizes as pure operators, in 32-bit `int` arithmetic. An addition that leaves the int range wraps, as the compiled code does, and `/` truncates toward zero. The operators are:
- `BufferVPerRing` and `MaxSliceSize` (281-284): the largest slice a staging slot holds;
- `NominalSlice` (286-293): 4× larger without a global memory space, and capped by the slot;
- `SmallTail` and the halving (298-305): a transfer of one to five chunks whose last chunk would be under half a chunk gets half-size slices, and its last chunk is enlarged;
- `Stride` (294): the slot stride, taken before the halving;
- `Sizing`: the record of sizes the kernel receives (`NumChunks`, `ChunkSize`, `BufferSliceStride`, `bufferOffset` and the grid);
- `SliceSizeAndOffset` (`getSliceSizeAndOffset`, 116-126) and `FullChunkSlice` (186-191): the kernel's split of a chunk into `NUM_SUBCHUNKS` slices. A partial last chunk goes through `CalcLastChunk` (195) instead, which is in a header not in the repository.

The one action, `RingReduce`, is one call. Its inputs are chosen with `\E`. A count of 0 returns at once (267-268); any other count launches with `Sizing`.

Properties:
- `ChunksCoverCount`: the chunks the kernel walks cover the count. There is at least one chunk, every chunk starts inside the data, and the last chunk, enlarged by the halving, still fits its ring's `NUM_SUBCHUNKS` slots. Every full chunk's slices tile it from its start to `ChunkSize`, each inside its staging slot of `BufferSliceStride` elements.
- `RingBuffersFit`: the staging regions of the rings launched are disjoint and lie inside the `buffSize` bytes of the peer's buffer.

Both properties are checked by the `sizing` run, through CollSizing (below). The 16 counts per configuration (`MC_ReduceCounts` in MC_CollSizing) sit around each nominal chunk c: 0, 1, c±1, c + c/2 ± 1, 5c ± 1, and so on.

A float count within `ChunkSize − 1` of `INT_MAX` overflows the round-up at 310: `NumChunks`, and with it the grid, is −2047. `ReduceSizing_overflow.cfg` (with MC_ReduceSizing) reproduces this as a violation of `ChunksCoverCount`. With at most 12 runs, the project's `tiling_overflow` run shows an int wrap at the top of the range, in AllReduce (line 76), instead, so no run in PROJECT.json includes this case.

Mutants:
- `StrideAfterHalving` (the stride taken after the halving) breaks `ChunksCoverCount`.
- `FullChunkSliceStride` (the slot stride taken as the slice size) breaks `ChunksCoverCount`.
- `BufferVPerRingShared` (the buffer not divided among the rings) breaks `RingBuffersFit`.

Bounds. The counts sit on both sides of every threshold of the halving test, and at a count of one element. The buffer sizes include one small enough that the slot, rather than the nominal slice, sets the size.

Not modelled:
- `CalcLastChunk`, which splits the last chunk into slices, is in a header that is not in the repository.
- `buffSize` is set outside `src/`. With a buffer below `NUM_SUBCHUNKS * UNROLL_SIZE` elements, `ChunkSize` would be 0 and line 299 would divide by zero. The repository does not state the lower bound of `buffSize`, so no run checks it.

### Int32

This module holds the 32-bit `int` operators shared by ReduceSizing and AllReduceTiling:
- `AddInt` and `SubInt` wrap modulo 2^32 in two's complement;
- `DivInt` truncates toward zero, as C's `/` does;
- `Min2` is C's `min`;
- `UDiv` is the unsigned `/`. An unsigned value is kept as the int with the same 32 bits, so unsigned `+` is `AddInt`.

They avoid forming any integer outside TLC's range, so TLC can evaluate them at `INT_MAX`.

### AllReduceTiling (part_000 15-88, 209-226), with MC_AllReduceTiling

This module models how one ncclAllReduce call cuts its data into tiles. AllReduceRing models the protocol of the steps; this module models the element arithmetic.
- `RingAllReduce` (209-223) is the call. It picks the grid (`nRings`), `THREADS` (`Threads`, 218-222: NVLINK_THREADS with several rings, PCIE_THREADS with one), `nranks` and the type size. It also picks a count from `Counts(st)`, where st is the grid stride. One rank only copies the buffer (211-213), so that call returns at once.
- `SliceSize` (48-49) is the size of a staging slot.
- `ChunkSize` (81-82) is `min(sliceSize, DIVUP(size-gridOffset, nranks*gridDim.x))`, rounded up to `THREADS` by ALIGN_SIZE. `gridDim.x` is `unsigned int`, so `nranks*gridDim.x` is unsigned. `DIVUP` therefore adds and divides in unsigned (`DivUp` with `UDiv`), and `min` of the int `sliceSize` and that quotient is the unsigned min. Neither can wrap for a count in the int range. `ALIGN_SIZE` works on the int `chunkSize`.
- `Tile(c, go, b, s)` is the range `[offset, offset + maxOffset)` of slice s of block b (83-88). All 2·(nranks−1) steps compute their offset the same way, so one iteration's tiles are all the (block, slice) pairs.
- `Iterate` is one pass of the gridOffset loop (76-192); `gridOffset` advances by `GridStride`. `Exit` ends the loop.
- The history variable `covered` is the end of the data the tiles have covered so far.
- The addition at 76 is unsigned, and its result converts back to a wrapped int. The model keeps iterating after that, as the code does. `size-gridOffset` of a wrapped `gridOffset` overflows int, and the model wraps it as the build does.

Properties:
- `TilesCoverData`: no tile leaves the data. Each iteration starts where the previous one's tiles ended, so there is no gap and no element is reduced twice. A finished loop has covered the whole count.
- `TilesFitSlot`: no tile is longer than `sliceSize`, even though ALIGN_SIZE rounds `chunkSize` up.

Neither property is checked by a passing run. With the power-of-two buffer sizes (4 MiB, 1 MiB), `sliceSize` is a multiple of `THREADS`, so the ALIGN_SIZE case they are about cannot happen. With any other buffer size they fail. `AllReduceTiling_slot.cfg` takes a 1000000-byte buffer (NCCL_BUFFSIZE is read outside `src/`) and float data. Then `sliceSize` is 125000, `chunkSize` rounds up to 125440, and the first iteration's tiles overrun their slots: `TilesFitSlot` fails in one step. The next iteration starts at 250000, while the tiles covered up to 250880, so `TilesCoverData` fails too. This cfg has no run, because the project is limited to 12 runs.

### CollSizing, with MC_CollSizing

CollSizing composes ReduceSizing and AllReduceTiling through named INSTANCEs (`R`, `T`), so that one run explores both. Its properties are ReduceSizing's; the AllReduce calls run beside them. A variable `coll` picks the kind of call, and the other component's variables stay unchanged. The two state spaces therefore add rather than multiply.

| Run | Expect | What it shows |
|---|---|---|
| sizing | pass | Element sizes 1, 2, 4 and 8; 1 to 4 rings; 1 to 4 ranks; buffSize 4 MiB, 1 MiB and 1000000 bytes; both memory spaces. The Reduce gets 16 counts per configuration. `ChunksCoverCount` and `RingBuffersFit` hold (6339 states). |
| tiling_overflow | violation | One ring, 2 ranks, char data, 4 MiB buffers, counts `INT_MAX − 1000` and `INT_MAX`. The stride is 2^22. The tiles are right for 512 iterations. Then the addition at 76 wraps `gridOffset` to `INT_MIN`, which is still below the count, so the loop goes on. `TilesCoverData` fails at depth 514. 2^31 is a multiple of the stride, so `gridOffset` keeps cycling and the kernel never returns. |

Mutants (run sizing):
- `StrideAfterHalving` breaks `ChunksCoverCount`.
- `FullChunkSliceStride` (the slot stride taken as the slice size) breaks `ChunksCoverCount`.
- `BufferVPerRingShared` breaks `RingBuffersFit`.

### Crc (crc32.cu), with MC_Crc

A 32-bit word is the tuple of its four bytes, most significant first, so every shift keeps the code's width.

The host side is pure operators:
- `TableEntry` and `crc_table`: `crcInit` (41-50), eight remainder steps of `i << 24` (`DivStep`, RECURSIVE `Divide`);
- `UpdateByte`: one table step (62-63, and 91-92 in the kernel);
- `CalcCRCHost`: `calcCRCHost` (53-67), a `FoldLeft` of table steps from the seed `0x11223344`, then `~crc`.

The reference `RefByte` is the bit-serial CRC-32 shift register, with polynomial `0x04c11db7`, MSB first. It is defined independently of the table and works on the 16-bit halves of the register.

The device side is `CRCKernel<<<1, B>>>` as a state machine per thread. `pc[x]` is where thread x is, `i[x]` is its window index, and `j` and `crcVal` are thread 0's byte index and accumulator. Actions:
- `BuildTable` (75-80): the thread stores its own table entry;
- `LoopTest` (83);
- `Store` (84): the thread stores its byte of the window in `buffer[]`;
- `Barrier` (85 and 95): `__syncthreads`;
- `Fold` (87-94): thread 0 folds the window, one byte per step;
- `Increment`;
- `Exit` (98-100): thread 0 prints `~crc_val`.

Threads leave the window loop after different numbers of iterations. A barrier therefore opens once every thread that has not exited waits at one; exited threads count as arrived, as on the hardware.

| Property | What it says |
|---|---|
| `TypeOK` | the words stay 32-bit |
| `CrcMatchesReference` | every table step the kernel takes equals eight steps of the bit-serial register, on the register and byte it holds |
| `TableReadyWhenRead` | thread 0 folds a byte only once every thread has stored its table entry |
| `KernelCrcMatchesHost` | the CRC the kernel prints is `calcCRCHost` of the same data |

Run `crc` (pass, 630 states, ~2 s): B = 3 threads. The data is 0, 2, 3, 4 and 7 bytes of a fixed sequence, which covers lengths below, at, and across a multiple of the window. It also covers threads that never enter the loop. For the 7-byte input `CalcCRCHost` gives the value the C code computes (`0x39a7d396`).

Mutants:
- `Shl1Wide` (the shift kept in a wider type) breaks `TypeOK`.
- `TopBitSetLow` (the wrong bit tested) breaks `CrcMatchesReference`.
- `AfterStoreNoBarrier` (no barrier at 85) breaks `TableReadyWhenRead`.
- `SecondBarrierDropped` (no barrier at 95) breaks `KernelCrcMatchesHost`.

No fairness is assumed. Deadlock is checked, so a barrier that never opens would be reported.

## Runs of ReduceRing

The run uses `MC_ReduceRing` with 3 ranks, `NumChunks = 3`, `NumSubchunks = 2` and `MaxOps = 2` (two consecutive calls). They check:
- `TypeOK`.
- `ReduceResultCorrect`: every Output slice written is the full reduction, over all ranks, of the chunk it is written at, for the call that wrote it, and only at that call's root.
- `OutputCompleteOnReturn`: when the root's kernel has finished, every slice of its Output was written by that call.
- `AllCallsComplete`: both calls terminate on every rank.

| Run | Configuration | States | Time |
|---|---|---|---|
| reduce_2rings | two rings in opposite directions, two blocks interleaving chunks and sharing `doneCount`, the root changing from 0 to 1 | 147,059 | 1.5 min |

The 2-ring run also covers a chunk handled by a different block than chunk 0 and the shared-doneCount race.

Each property has a mutant of the code, and TLC finds the property violated:

| Mutant | Property violated |
|---|---|
| `IsLastBlockFirst` (the first block to finish publishes opCounter) | `ReduceResultCorrect` (2 rings: the predecessor starts the next call while the other block still uses the slots) |
| `SendsChunkDoneOffByOne` (last chunk-done signal dropped) | `AllCallsComplete` |
| `DoneCountAfterNoClear` | `TypeOK` |
| `AfterSkipsLastChunk` | `OutputCompleteOnReturn` |

## Bounds of ReduceRing

Three ranks is the smallest ring with all three roles (BEGIN, MIDDLE, END).

With three chunks and a 1-ring grid, the staging slots are reused twice, so `WAIT_FOR_CHUNK` matters. With two rings, block 0 handles chunks 0 and 2 and block 1 handles chunk 1.

Two slices make the per-slice barrier and signal pipelining visible. The code uses `NUM_SUBCHUNKS = 4`; the protocol is the same for every value ≥ 1.

Two calls are the least that exercise the opCounter handshake, the flag reset and stale flags.

## Fairness of ReduceRing

Every block of a launched kernel eventually takes its next enabled step. All blocks of a kernel are resident because `gridDim.x ≤ MAXRINGS`, one block per ring.

Every stream eventually launches its next queued kernel.

`Spin` carries no fairness: it is a stuttering step.

## What is not modelled

Not modelled at all:
- The ring test program: printing the output of `ncclGetRings`, which is not in the repository.
- The API tests: argument checks only.
- The flag index aliasing between calls with different `gridDim.x`: chunk-done flags sit at `flags + nRings + r`. The model keeps `NumChunks` equal across calls.
- Memory fences: flags and data are modelled as sequentially consistent. The code's `__threadfence_system` before the new-data signal is what justifies this.
