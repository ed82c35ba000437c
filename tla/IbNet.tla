-------------------------------- MODULE IbNet --------------------------------
(***************************************************************************)
(* One connection of the InfiniBand network transport of                   *)
(* src/src/transport/net_ib.cu: the proxy thread of the sending side       *)
(* calling ncclIbIsend / ncclIbTest on its send comm, the proxy thread of  *)
(* the receiving side calling ncclIbIrecv / ncclIbTest on its recv comm,   *)
(* and the HCA executing the work requests they post.                      *)
(*                                                                         *)
(* Each side has its ncclIbVerbs (the MR cache mrPool with refcounts and   *)
(* mrRotation, numRequests, a completion queue) and its request pool.  The *)
(* receiver announces every posted receive through an RDMA write into the  *)
(* sender's FIFO (ncclIbPostFifo); the sender waits for a ready FIFO slot  *)
(* and writes the data with RDMA_WRITE_WITH_IMM (USE_RDMA_WRITE is         *)
(* defined), which consumes the receiver's oldest receive WR.  For a CUDA  *)
(* buffer a completed receive is flushed with an RDMA read (ncclIbFlush).  *)
(*                                                                         *)
(* ncclIbTest polls the completion queue and may call ncclIbFlush, which   *)
(* calls ncclIbTest again; Irecv, PostFifo, Flush and Isend call           *)
(* ncclIbTest while numRequests == MAX_REQUESTS.  Every side therefore     *)
(* has an explicit call stack of frames, one step per loop iteration.      *)
(* Buffer addresses and sizes are small integers; a buffer's identity in   *)
(* the FIFO (its address) is the receive request it was posted with.      *)
(***************************************************************************)
EXTENDS Integers, Sequences, FiniteSets, FiniteSetsExt

CONSTANTS
  MaxRequests,  \* MAX_REQUESTS: mrPool size, CQ depth, bound on numRequests
  Reqs,         \* the slots of a comm's request pool (ncclIbReqs)
  SendBufs,     \* the <<addr, size>> buffers the sending proxy passes to Isend
  RecvBufs,     \* the <<addr, size>> buffers the receiving proxy passes to Irecv
  RegAlign,     \* REG_ALIGN
  RecvTypes,    \* the pointer types passed to Irecv, a subset of {"host", "cuda"}
  GpuFlush,     \* rComm->gpuFlush.enabled (GDR present, flush not disabled)
  NMsgs,        \* the number of messages each proxy posts
  GrowBy        \* the 32 requests ncclIbGetRequest adds to a full pool

ASSUME /\ MaxRequests \in Nat \ {0} /\ RegAlign \in Nat \ {0} /\ NMsgs \in Nat
       /\ RecvTypes \subseteq {"host", "cuda"} /\ GpuFlush \in BOOLEAN
       /\ \A b \in SendBufs \cup RecvBufs : b[1] \in Nat /\ b[2] \in Nat
       /\ GrowBy \in Nat \ {0} /\ Reqs = 0 .. Cardinality(Reqs) - 1

Sides == {"send", "recv"}
Slots == 0 .. MaxRequests - 1
None == -1
NoMr == [lo |-> 0, hi |-> 0]          \* mrPool[i].mr == NULL
FifoSlots == 0 .. MaxRequests - 1

VARIABLES
  req,     \* req[side][q]: request q of the side's pool (used, done, ibMr, ...)
  mr,      \* mr[side][i]: the region registered in mrPool[i], or NoMr
  ref,     \* ref[side][i]: mrPool[i].refcnt
  rot,     \* rot[side]: mrRotation % MAX_REQUESTS
  num,     \* num[side]: verbs.numRequests
  cq,      \* cq[side]: completions not yet polled, oldest first
  stack,   \* stack[side]: the proxy thread's call stack of net_ib.cu frames
  held,    \* held[side]: requests returned to the proxy and not yet seen done
  count,   \* count[side]: Isend / Irecv calls that have returned
  fifo,    \* fifo[k]: sComm->fifo[k] (ready, and the receive it announces)
  head,    \* sComm->fifoHead
  tail,    \* rComm->remFifo.tail
  swr,     \* send WRs on the sender QP: [q, dst] in posting order
  rwr,     \* receive WRs posted on the receiver QP, oldest first
  fifoW,   \* PostFifo RDMA writes in flight on the receiver QP
  flushQ,  \* Flush RDMA reads in flight on the gpuFlush QP
  fault,   \* "none", or the undefined behaviour a side ran into
  qp,      \* qp[side]: the state of the side's QP: "none", "init" or "rts"
  ready,   \* ready[side]: comm->ready, the lazy handshake is done
  sock,    \* sock[dir]: bytes in flight on the TCP socket, "s2r" or "r2s"
  closed,  \* closed[side]: the proxy has closed the side's comm
  atClose  \* atClose[side]: what the close found still in use (history)

netVars == <<req, mr, ref, rot, num, cq, stack, held, count, fifo, head, tail,
             swr, rwr, fifoW, flushQ, fault>>
closeVars == <<closed, atClose>>
setupVars == <<qp, ready, sock, closed, atClose>>
vars == <<req, mr, ref, rot, num, cq, stack, held, count, fifo, head, tail,
          swr, rwr, fifoW, flushQ, fault, qp, ready, sock, closed, atClose>>

-----------------------------------------------------------------------------
(* ncclIbGetRequest, net_ib.cu 488-506.  The pool is requests[0..nreqs-1] *)
(* (inPool); nreqs starts at 0.  With no unused request, the pool grows by *)
(* GrowBy: realloc (502) keeps the old entries and may move the array --   *)
(* moved -- which leaves every pointer to a request in use (the proxy's,   *)
(* a WR's wr_id, a caller's local) dangling: stale.  The new entries get   *)
(* used=0 (503-504).  Then the first unused request: used=1, ibMr=NULL,    *)
(* done=0 (size and verbs are not modelled; flushDataPtr is left as it     *)
(* was).  Growth beyond Reqs is outside the model: the step is disabled.   *)
NReqs(side) == Cardinality({q \in Reqs : req[side][q].inPool})
Grown(side, moved) ==
  [q \in Reqs |->
     IF q < NReqs(side)
     THEN [req[side][q] EXCEPT !.stale = @ \/ (moved /\ req[side][q].used)]
     ELSE [req[side][q] EXCEPT !.inPool = q < NReqs(side) + GrowBy,
                               !.used = FALSE]]
PoolFor(side, moved) ==
  IF \E q \in Reqs : req[side][q].inPool /\ ~req[side][q].used
  THEN req[side] ELSE Grown(side, moved)
CanGet(side) == NReqs(side) + GrowBy <= Cardinality(Reqs)
                \/ \E q \in Reqs : req[side][q].inPool /\ ~req[side][q].used
FreeReq(side, moved) ==
  Min({q \in Reqs : PoolFor(side, moved)[q].inPool
                    /\ ~PoolFor(side, moved)[q].used})
GetRequest(side, moved) ==
  [PoolFor(side, moved) EXCEPT ![FreeReq(side, moved)] =
     [@ EXCEPT !.used = TRUE, !.done = FALSE, !.mr = None, !.stale = FALSE]]

\* The region registered for a buffer, net_ib.cu 571-573.
RegRegion(a, n) ==
  LET lo == a - (a % RegAlign)
      len == ((a + n - lo + RegAlign - 1) \div RegAlign) * RegAlign
  IN [lo |-> lo, hi |-> lo + len]

Covers(m, a) == m.lo <= a /\ a < m.hi

\* Mutant: an exact fit (addr + size == region end) counts as too small.
FitsExclusive(m, a, n) == a + n < m.hi
\* net_ib.cu 547: the cached region also holds the end of the buffer.
Fits(m, a, n) == a + n <= m.hi

(* The cache slot ncclIbGetMr uses, net_ib.cu 541-568: the first slot      *)
(* whose region holds addr ("hit" if the buffer fits, "grow" if not);      *)
(* otherwise the first slot from mrRotation on whose refcnt is not         *)
(* positive, searched without wrapping around ("oob" when the search runs  *)
(* past mrPool[MAX_REQUESTS-1]).                                           *)
MrLookup(side, a, n) ==
  LET hits == {i \in Slots : Covers(mr[side][i], a)}
      free == {j \in rot[side] .. MaxRequests - 1 : ref[side][j] <= 0}
  IN IF hits # {}
     THEN [kind |-> IF Fits(mr[side][Min(hits)], a, n) THEN "hit" ELSE "grow",
           elem |-> Min(hits)]
     ELSE IF free # {} THEN [kind |-> "rot", elem |-> Min(free)]
     ELSE [kind |-> "oob", elem |-> MaxRequests]

\* Mutant: mrRotation used without the modulo.
NextRotationNoWrap(r) == r + 1
\* elem = (verbs->mrRotation++) % MAX_REQUESTS, 560.
NextRotation(r) == (r + 1) % MaxRequests

(* ncclIbGetMr for request q of a side whose request table, after the      *)
(* caller's own updates, is rq: take a reference on a cached region, or    *)
(* deregister the slot's region and register the buffer's (574-577).  The  *)
(* requests whose region that deregisters are marked mrOk = FALSE.         *)
GetMr(side, q, a, n, rq) ==
  LET m == MrLookup(side, a, n) IN
  IF m.kind = "oob"
  THEN /\ fault' = "mr_oob"
       /\ req' = [req EXCEPT ![side] = rq]
       /\ UNCHANGED <<mr, ref, rot>>
  ELSE /\ ref' = [ref EXCEPT ![side][m.elem] = @ + 1]
       /\ rot' = IF m.kind = "rot"
                 THEN [rot EXCEPT ![side] = NextRotation(@)] ELSE rot
       /\ mr' = IF m.kind = "hit" THEN mr
                ELSE [mr EXCEPT ![side][m.elem] = RegRegion(a, n)]
       /\ req' = [req EXCEPT ![side] =
                    [k \in Reqs |->
                       IF k = q THEN [rq[k] EXCEPT !.mr = m.elem, !.mrOk = TRUE]
                       ELSE IF m.kind # "hit" /\ rq[k].mr = m.elem
                               /\ rq[k].used /\ ~rq[k].done
                       THEN [rq[k] EXCEPT !.mrOk = FALSE]
                       ELSE rq[k]]]
       /\ UNCHANGED fault

Init ==
  /\ req = [s \in Sides |-> [q \in Reqs |->
              [used |-> FALSE, done |-> FALSE, mr |-> None, mrOk |-> TRUE,
               flush |-> FALSE, inPool |-> FALSE, stale |-> FALSE]]]
  /\ mr = [s \in Sides |-> [i \in Slots |-> NoMr]]
  /\ ref = [s \in Sides |-> [i \in Slots |-> 0]]
  /\ rot = [s \in Sides |-> 0]
  /\ num = [s \in Sides |-> 0]
  /\ cq = [s \in Sides |-> <<>>]
  /\ stack = [s \in Sides |-> <<>>]
  /\ held = [s \in Sides |-> {}]
  /\ count = [s \in Sides |-> 0]
  /\ fifo = [k \in FifoSlots |-> [ready |-> FALSE, dst |-> None]]
  /\ head = 0
  /\ tail = 0
  /\ swr = <<>>
  /\ rwr = <<>>
  /\ fifoW = <<>>
  /\ flushQ = <<>>
  /\ fault = "none"
  /\ qp = [s \in Sides |-> "none"]
  /\ ready = [s \in Sides |-> FALSE]
  /\ sock = [d \in {"s2r", "r2s"} |-> <<>>]
  /\ closed = [s \in Sides |-> FALSE]
  /\ atClose = [s \in Sides |-> [busy |-> {}, wrs |-> 0, incoming |-> 0]]
-----------------------------------------------------------------------------
(* The proxy threads' call stacks.  A frame is a net_ib.cu function at a   *)
(* loop of its body: fn, the request it works on (q), where it is (st) and *)
(* a second request (dr: the completion Test is flushing, or the receive  *)
(* PostFifo announces).                                                    *)
Frame(fn, q, st, dr) == [fn |-> fn, q |-> q, st |-> st, dr |-> dr]
Top(side) == stack[side][Len(stack[side])]
At(side, fn, st) ==
  /\ fault = "none" /\ stack[side] # <<>>
  /\ Top(side).fn = fn /\ Top(side).st = st
SetSt(side, st) == [stack EXCEPT ![side][Len(stack[side])].st = st]
Push(side, f) == [stack EXCEPT ![side] = Append(@, f)]
Pop(side) == [stack EXCEPT ![side] = SubSeq(@, 1, Len(@) - 1)]
\* A call of ncclIbTest(q) from a wait loop.
CallTest(side, q) == Push(side, Frame("test", q, "poll", None))

OnlyStack == UNCHANGED <<req, mr, ref, rot, num, cq, held, count, fifo, head,
                         tail, swr, rwr, fifoW, flushQ, fault>>

\* Mutant: the flow-control loops wait only once the queue is overfull.
WaitsForWrLate(side) == num[side] > MaxRequests
\* while (comm->verbs.numRequests == MAX_REQUESTS): 610, 701, 655, 734.
WaitsForWr(side) == num[side] = MaxRequests

(* The wait loop of Isend (610-615), Irecv (701-706), PostFifo (655-660)  *)
(* and Flush (734-739): ncclIbTest on the frame's request while the queue *)
(* is full, else go on to st.                                             *)
WaitWr(side, fn, st) ==
  /\ At(side, fn, "waitq")
  /\ stack' = IF WaitsForWr(side) THEN CallTest(side, Top(side).q)
              ELSE SetSt(side, st)
  /\ OnlyStack

\* The request q, with an MR for a buffer b that is not empty (Isend 595-
\* 605, Irecv 690-699): a buffer of size 0 gets ibMr = NULL.
TakeMr(side, q, b, rq) ==
  IF b[2] = 0 THEN /\ req' = [req EXCEPT ![side] = rq]
                   /\ UNCHANGED <<mr, ref, rot, fault>>
  ELSE GetMr(side, q, b[1], b[2], rq)

Unchanged(side) == UNCHANGED <<num, cq, held, count, fifo, head, tail,
                               swr, rwr, fifoW, flushQ>>

(* ncclIbIsend, 581-605, once ncclSendCheck has found the connection      *)
(* ready: a request and its MR.                                           *)
Isend(b, moved) ==
  LET q == FreeReq("send", moved) IN
  /\ fault = "none" /\ stack["send"] = <<>> /\ count["send"] < NMsgs
  /\ ready["send"] /\ CanGet("send")
  /\ TakeMr("send", q, b, GetRequest("send", moved))
  /\ stack' = Push("send", Frame("isend", q, "waitq", None))
  /\ Unchanged("send")

(* Isend 617-633: wait for the FIFO slot fifoHead % MAX_REQUESTS to be     *)
(* ready, clear it, and RDMA-write the data to the address it announces;  *)
(* the request is returned to the proxy.                                  *)
IsendPost ==
  LET slot == head % MaxRequests  q == Top("send").q IN
  /\ At("send", "isend", "fifo")
  /\ fifo[slot].ready
  /\ fifo' = [fifo EXCEPT ![slot].ready = FALSE]
  /\ head' = head + 1
  /\ swr' = Append(swr, [q |-> q, dst |-> fifo[slot].dst])
  /\ num' = [num EXCEPT !["send"] = @ + 1]
  /\ held' = [held EXCEPT !["send"] = @ \cup {q}]
  /\ count' = [count EXCEPT !["send"] = @ + 1]
  /\ stack' = Pop("send")
  /\ UNCHANGED <<req, mr, ref, rot, cq, tail, rwr, fifoW, flushQ, fault>>

(* ncclIbIrecv, 673-699, once ncclRecvCheck has found the connection      *)
(* ready: a request, its flushDataPtr (size > 0 and a CUDA pointer) and   *)
(* its MR.  The code takes the request before ncclRecvCheck; nobody but  *)
(* this proxy touches the receive pool, so the order is not observable.  *)
Irecv(b, t, moved) ==
  LET q == FreeReq("recv", moved) IN
  /\ fault = "none" /\ stack["recv"] = <<>> /\ count["recv"] < NMsgs
  /\ ready["recv"] /\ CanGet("recv")
  /\ TakeMr("recv", q, b,
            [GetRequest("recv", moved) EXCEPT ![q].flush = (b[2] > 0 /\ t = "cuda")])
  /\ stack' = Push("recv", Frame("irecv", q, "waitq", None))
  /\ Unchanged("recv")

\* Irecv 708-711: post the receive WR.
IrecvPost ==
  /\ At("recv", "irecv", "post")
  /\ rwr' = Append(rwr, Top("recv").q)
  /\ num' = [num EXCEPT !["recv"] = @ + 1]
  /\ stack' = SetSt("recv", "fifo")
  /\ UNCHANGED <<req, mr, ref, rot, cq, held, count, fifo, head, tail, swr,
                 fifoW, flushQ, fault>>

(* Irecv 714: ncclIbPostFifo(comm, req->ibMr->mr->rkey, data); PostFifo   *)
(* takes its own request (639).  With size 0, ibMr is NULL.               *)
IrecvPostFifo(moved) ==
  LET q == Top("recv").q IN
  /\ At("recv", "irecv", "fifo")
  /\ IF req["recv"][q].mr = None
     THEN /\ fault' = "null_mr"
          /\ UNCHANGED <<req, stack>>
     ELSE /\ CanGet("recv")
          /\ req' = [req EXCEPT !["recv"] = GetRequest("recv", moved)]
          /\ stack' = [stack EXCEPT !["recv"] =
                         Append([@ EXCEPT ![Len(@)].st = "ret"],
                                Frame("postfifo", FreeReq("recv", moved),
                                      "waitq", q))]
          /\ UNCHANGED fault
  /\ UNCHANGED <<mr, ref, rot, num, cq, held, count, fifo, head, tail, swr,
                 rwr, fifoW, flushQ>>

\* Irecv returns the request to the proxy (711, 715).
IrecvReturn ==
  /\ At("recv", "irecv", "ret")
  /\ held' = [held EXCEPT !["recv"] = @ \cup {Top("recv").q}]
  /\ count' = [count EXCEPT !["recv"] = @ + 1]
  /\ stack' = Pop("recv")
  /\ UNCHANGED <<req, mr, ref, rot, num, cq, fifo, head, tail, swr, rwr,
                 fifoW, flushQ, fault>>

\* Mutant: PostFifo writes the slot after remFifo.tail.
RemFifoSlotNext(t) == (t + 1) % MaxRequests
\* remFifo.tail % MAX_REQUESTS, 645.
RemFifoSlot(t) == t % MaxRequests

(* PostFifo 642-663: RDMA-write {addr, rkey, ready = 1} into the sender's *)
(* slot remFifo.tail % MAX_REQUESTS.                                      *)
PostFifoPost ==
  /\ At("recv", "postfifo", "post")
  /\ fifoW' = Append(fifoW, [slot |-> RemFifoSlot(tail), dst |-> Top("recv").dr,
                             q |-> Top("recv").q])
  /\ num' = [num EXCEPT !["recv"] = @ + 1]
  /\ tail' = tail + 1
  /\ stack' = SetSt("recv", "wait")
  /\ UNCHANGED <<req, mr, ref, rot, cq, held, count, fifo, head, swr, rwr,
                 flushQ, fault>>
(* The loop that waits for the frame's own request to complete: PostFifo *)
(* 665-668 and Flush 745-748 call ncclIbTest on it until done is set.     *)
WaitDone(side, fn) ==
  /\ At(side, fn, "wait")
  /\ stack' = IF req[side][Top(side).q].done THEN Pop(side)
              ELSE CallTest(side, Top(side).q)
  /\ OnlyStack

\* Flush 741-743: post the RDMA read on the gpuFlush QP (same CQ).
FlushPost ==
  /\ At("recv", "flush", "post")
  /\ flushQ' = Append(flushQ, Top("recv").q)
  /\ num' = [num EXCEPT !["recv"] = @ + 1]
  /\ stack' = SetSt("recv", "wait")
  /\ UNCHANGED <<req, mr, ref, rot, cq, held, count, fifo, head, tail, swr,
                 rwr, fifoW, fault>>

\* Mutant: the completion does not drop the MR reference.
ReleaseNoUnref(side, d) ==
  /\ req' = [req EXCEPT ![side][d].done = TRUE]
  /\ UNCHANGED ref
\* Mutant: the completion also frees the request it completes.
ReleaseAndFree(side, d) ==
  /\ req' = [req EXCEPT ![side][d].done = TRUE, ![side][d].used = FALSE]
  /\ ref' = IF req[side][d].mr # None
            THEN [ref EXCEPT ![side][req[side][d].mr] = @ - 1] ELSE ref

(* A completion of request d handled by ncclIbTest, 778-781: release its  *)
(* MR reference and mark it done.                                         *)
Release(side, d) ==
  /\ req' = [req EXCEPT ![side][d].done = TRUE]
  /\ ref' = IF req[side][d].mr # None
            THEN [ref EXCEPT ![side][req[side][d].mr] = @ - 1] ELSE ref

(* One iteration of ncclIbTest's polling loop, 755-793.  An empty CQ ends *)
(* the call: if the tested request is done it is freed (used = 0) and, if *)
(* the proxy called Test, handed back as done.  Otherwise the oldest      *)
(* completion is taken (numRequests--); a receive into a buffer with a   *)
(* flushDataPtr is flushed first (771, 775), then released.               *)
TestPoll(side) ==
  LET f == Top(side)  c == Head(cq[side]) IN
  /\ At(side, "test", "poll")
  /\ IF cq[side] = <<>>
     THEN /\ stack' = Pop(side)
          /\ req' = IF req[side][f.q].done
                    THEN [req EXCEPT ![side][f.q].used = FALSE] ELSE req
          /\ held' = IF req[side][f.q].done /\ Len(stack[side]) = 1
                     THEN [held EXCEPT ![side] = @ \ {f.q}] ELSE held
          /\ UNCHANGED <<ref, cq, num>>
     ELSE /\ cq' = [cq EXCEPT ![side] = Tail(@)]
          /\ num' = [num EXCEPT ![side] = @ - 1]
          /\ IF c.op = "recv" /\ req[side][c.q].flush /\ GpuFlush
             THEN /\ stack' = [stack EXCEPT ![side] =
                                Append([@ EXCEPT ![Len(@)].st = "flushing",
                                                 ![Len(@)].dr = c.q],
                                       Frame("flush", c.q, "waitq", None))]
                  /\ UNCHANGED <<req, ref>>
             ELSE /\ Release(side, c.q)
                  /\ UNCHANGED stack
          /\ UNCHANGED held
  /\ UNCHANGED <<mr, rot, count, fifo, head, tail, swr, rwr, fifoW, flushQ, fault>>

\* Back in ncclIbTest after ncclIbFlush returned: 778-781.
TestAfterFlush(side) ==
  /\ At(side, "test", "flushing")
  /\ Release(side, Top(side).dr)
  /\ stack' = SetSt(side, "poll")
  /\ UNCHANGED <<mr, rot, num, cq, held, count, fifo, head, tail, swr, rwr,
                 fifoW, flushQ, fault>>

\* The proxy calls ncclIbTest on a request it holds.
UserTest(side, h) ==
  /\ fault = "none" /\ stack[side] = <<>>
  /\ stack' = CallTest(side, h)
  /\ OnlyStack

\* Isend waiting on a FIFO slot that is not ready (sched_yield, 619).
IsendSpin ==
  /\ At("send", "isend", "fifo")
  /\ ~fifo[head % MaxRequests].ready
  /\ UNCHANGED vars

-----------------------------------------------------------------------------
(* The HCA.  The sender's RDMA_WRITE_WITH_IMM lands at the address of the *)
(* FIFO entry it read and consumes the receiver's oldest receive WR; both *)
(* sides get a completion.                                                *)
Deliver ==
  /\ swr # <<>> /\ rwr # <<>>
  /\ cq' = [cq EXCEPT !["send"] = Append(@, [q |-> Head(swr).q, op |-> "send"]),
                      !["recv"] = Append(@, [q |-> Head(rwr), op |-> "recv"])]
  /\ swr' = Tail(swr)
  /\ rwr' = Tail(rwr)
  /\ UNCHANGED <<req, mr, ref, rot, num, stack, held, count, fifo, head, tail,
                 fifoW, flushQ, fault>>
  /\ UNCHANGED setupVars

\* PostFifo's RDMA write lands in the sender's FIFO slot and completes.
FifoLand ==
  LET w == Head(fifoW) IN
  /\ fifoW # <<>>
  /\ fifo' = [fifo EXCEPT ![w.slot] = [ready |-> TRUE, dst |-> w.dst]]
  /\ cq' = [cq EXCEPT !["recv"] = Append(@, [q |-> w.q, op |-> "write"])]
  /\ fifoW' = Tail(fifoW)
  /\ UNCHANGED <<req, mr, ref, rot, num, stack, held, count, head, tail, swr,
                 rwr, flushQ, fault>>
  /\ UNCHANGED setupVars

\* Flush's RDMA read completes.
FlushRead ==
  /\ flushQ # <<>>
  /\ cq' = [cq EXCEPT !["recv"] = Append(@, [q |-> Head(flushQ), op |-> "read"])]
  /\ flushQ' = Tail(flushQ)
  /\ UNCHANGED <<req, mr, ref, rot, num, stack, held, count, fifo, head, tail,
                 swr, rwr, fifoW, fault>>
  /\ UNCHANGED setupVars

-----------------------------------------------------------------------------
(* Connection setup (395-530).  ncclIbConnect (395-421) creates the       *)
(* sender's QP in INIT and sends its QP info over the socket without      *)
(* waiting; ncclIbAccept (423-481) reads it, brings the receiver's QP to  *)
(* RTR and RTS and sends its own QP info back.  The sender's QP is only   *)
(* brought up lazily, by ncclSendCheck on the first Isend, which then     *)
(* sends the go word that ncclRecvCheck waits for on the first Irecv.     *)
(* Socket reads block until the bytes are there.                          *)
OnlySetup == UNCHANGED <<netVars, closeVars>>

Connect ==
  /\ qp["send"] = "none"
  /\ qp' = [qp EXCEPT !["send"] = "init"]
  /\ sock' = [sock EXCEPT !["s2r"] = Append(@, "qpInfo")]
  /\ UNCHANGED ready /\ OnlySetup

Accept ==
  /\ qp["recv"] = "none" /\ sock["s2r"] # <<>>
  /\ Head(sock["s2r"]) = "qpInfo"
  /\ qp' = [qp EXCEPT !["recv"] = "rts"]
  /\ sock' = [sock EXCEPT !["s2r"] = Tail(@), !["r2s"] = Append(@, "qpInfo")]
  /\ UNCHANGED ready /\ OnlySetup

\* ncclSendCheck (509-521), called first by every Isend.
SendCheck ==
  /\ fault = "none" /\ stack["send"] = <<>> /\ count["send"] < NMsgs
  /\ qp["send"] = "init" /\ ~ready["send"] /\ sock["r2s"] # <<>>
  /\ qp' = [qp EXCEPT !["send"] = "rts"]
  /\ sock' = [sock EXCEPT !["r2s"] = Tail(@), !["s2r"] = Append(@, "go")]
  /\ ready' = [ready EXCEPT !["send"] = TRUE]
  /\ OnlySetup

\* Mutant: the receiver does not wait for the go word.
RecvCheckNoGo ==
  /\ fault = "none" /\ stack["recv"] = <<>> /\ count["recv"] < NMsgs
  /\ qp["recv"] = "rts" /\ ~ready["recv"]
  /\ ready' = [ready EXCEPT !["recv"] = TRUE]
  /\ UNCHANGED <<qp, sock>> /\ OnlySetup
\* ncclRecvCheck (523-530), called by every Irecv once it has a request.
RecvCheck ==
  /\ fault = "none" /\ stack["recv"] = <<>> /\ count["recv"] < NMsgs
  /\ qp["recv"] = "rts" /\ ~ready["recv"] /\ sock["s2r"] # <<>>
  /\ Head(sock["s2r"]) = "go"
  /\ sock' = [sock EXCEPT !["s2r"] = Tail(@)]
  /\ ready' = [ready EXCEPT !["recv"] = TRUE]
  /\ UNCHANGED qp /\ OnlySetup

AllDone ==
  \A s \in Sides : count[s] = NMsgs /\ held[s] = {} /\ stack[s] = <<>>

(* The RDMA operations of the peer that target a side's memory: data     *)
(* writes into the receiver's buffers, PostFifo writes into the sender's *)
(* FIFO.                                                                  *)
Incoming(side) == IF side = "send" THEN Len(fifoW) ELSE Len(swr)

(* ncclIbCloseSend (794-811) and ncclIbCloseRecv (813-836), called by the *)
(* proxy once every request it was handed has been reported done: free   *)
(* the requests, destroy the QP(s), deregister the FIFO MR and every      *)
(* mrPool region -- with a WARN for a region whose refcnt is not 0 (803, *)
(* 826) -- and destroy the CQ.  atClose records what was still in use.    *)
CloseComm(side) ==
  /\ fault = "none" /\ ~closed[side]
  /\ count[side] = NMsgs /\ held[side] = {} /\ stack[side] = <<>>
  /\ closed' = [closed EXCEPT ![side] = TRUE]
  /\ atClose' = [atClose EXCEPT ![side] =
                   [busy |-> {i \in Slots : mr[side][i] # NoMr /\ ref[side][i] # 0},
                    wrs |-> num[side], incoming |-> Incoming(side)]]
  /\ qp' = [qp EXCEPT ![side] = "destroyed"]
  /\ mr' = [mr EXCEPT ![side] = [i \in Slots |-> NoMr]]
  /\ UNCHANGED <<req, ref, rot, num, cq, stack, held, count, fifo, head, tail,
                 swr, rwr, fifoW, flushQ, fault, ready, sock>>

CloseSend == CloseComm("send")
CloseRecv == CloseComm("recv")

\* Both proxies are idle after the last message.
Finished == AllDone /\ UNCHANGED vars

\* The steps inside Isend and Irecv (with PostFifo and Flush).
SendSteps == WaitWr("send", "isend", "fifo") \/ IsendPost
RecvSteps ==
  \/ WaitWr("recv", "irecv", "post") \/ IrecvPost
     \/ (\E moved \in BOOLEAN : IrecvPostFifo(moved)) \/ IrecvReturn
  \/ WaitWr("recv", "postfifo", "post") \/ PostFifoPost \/ WaitDone("recv", "postfifo")
  \/ WaitWr("recv", "flush", "post") \/ FlushPost \/ WaitDone("recv", "flush")

\* A step of the proxy thread inside a net_ib.cu call, or a new call.
NetStep(side) ==
  \/ side = "send" /\ \E b \in SendBufs, moved \in BOOLEAN : Isend(b, moved)
  \/ side = "recv" /\ \E b \in RecvBufs, t \in RecvTypes, moved \in BOOLEAN :
                          Irecv(b, t, moved)
  \/ \E h \in held[side] : UserTest(side, h)
  \/ TestPoll(side) \/ TestAfterFlush(side)
  \/ side = "send" /\ SendSteps
  \/ side = "recv" /\ RecvSteps

(* The proxy thread of a side: the handshake of its first call, or the   *)
(* next net_ib.cu step of its call stack, or a new call.                 *)
Proxy(side) ==
  \/ side = "send" /\ SendCheck
  \/ side = "recv" /\ RecvCheck
  \/ NetStep(side) /\ UNCHANGED setupVars
  \/ side = "send" /\ CloseSend
  \/ side = "recv" /\ CloseRecv

\* Setup of the comms, by the threads that initialise the communicator.
Setup == Connect \/ Accept

Next ==
  \/ \E s \in Sides : Proxy(s)
  \/ Setup
  \/ IsendSpin
  \/ Deliver \/ FifoLand \/ FlushRead
  \/ Finished

(* The proxy threads keep calling into the transport (the proxy loops     *)
(* over its requests) and the HCA executes every posted WR.               *)
Fairness ==
  /\ \A s \in Sides : WF_vars(Proxy(s))
  /\ WF_vars(Setup)
  /\ WF_vars(Deliver) /\ WF_vars(FifoLand) /\ WF_vars(FlushRead)

Spec == Init /\ [][Next]_vars /\ Fairness
-----------------------------------------------------------------------------
Buf == Nat \X Nat
TypeOK ==
  /\ req \in [Sides -> [Reqs -> [used : BOOLEAN, done : BOOLEAN,
                                 mr : Slots \cup {None}, mrOk : BOOLEAN,
                                 flush : BOOLEAN, inPool : BOOLEAN,
                                 stale : BOOLEAN]]]
  /\ ref \in [Sides -> [Slots -> Int]]
  /\ rot \in [Sides -> Slots]
  /\ num \in [Sides -> Nat]
  /\ \A s \in Sides : held[s] \subseteq Reqs /\ count[s] \in 0 .. NMsgs
  /\ fifo \in [FifoSlots -> [ready : BOOLEAN, dst : Reqs \cup {None}]]
  /\ head \in 0 .. NMsgs /\ tail \in 0 .. NMsgs
  /\ fault \in {"none", "mr_oob", "null_mr"}
  /\ qp \in [Sides -> {"none", "init", "rts", "destroyed"}]
  /\ ready \in [Sides -> BOOLEAN] /\ closed \in [Sides -> BOOLEAN]
  /\ sock \in [{"s2r", "r2s"} -> Seq({"qpInfo", "go"})]

(* Flow control: numRequests of each side equals the WRs it has posted   *)
(* whose completion it has not polled yet, and never exceeds             *)
(* MAX_REQUESTS, the depth of the CQ and of the QP's queues.  The         *)
(* receiver's count covers receives, PostFifo writes and Flush reads.    *)
WrAccounting ==
  /\ num["send"] = Len(swr) + Len(cq["send"])
  /\ num["recv"] = Len(rwr) + Len(fifoW) + Len(flushQ) + Len(cq["recv"])
  /\ \A s \in Sides : num[s] <= MaxRequests

(* The FIFO matches sends to receives: the entries announced and not yet *)
(* consumed are the ready slots from fifoHead on, then the PostFifo       *)
(* writes in flight; the sends in flight, then these, name the posted     *)
(* receives from the oldest on.  So no FIFO slot is overwritten while     *)
(* ready, every RDMA write finds a posted receive WR (no RNR), and the    *)
(* data of every message lands in the buffer of the receive that         *)
(* completes for it.                                                      *)
Landed == tail - head - Len(fifoW)
Announced ==
  [k \in 1 .. tail - head |->
     IF k <= Landed THEN fifo[(head + k - 1) % MaxRequests].dst
     ELSE fifoW[k - Landed].dst]
FifoMatchesReceives ==
  /\ Landed >= 0
  /\ Cardinality({k \in FifoSlots : fifo[k].ready}) = Landed
  /\ \A k \in 1 .. Landed : fifo[(head + k - 1) % MaxRequests].ready
  /\ LET a == [k \in 1 .. Len(swr) |-> swr[k].dst] \o Announced IN
       /\ Len(a) <= Len(rwr)
       /\ \A k \in 1 .. Len(a) : a[k] = rwr[k]

(* MR reference counts: mrPool[i].refcnt is the number of requests that  *)
(* hold mrPool[i] and whose completion ncclIbTest has not yet handled.   *)
(* A count that drops early lets ncclIbGetMr reuse a region in use.      *)
Outstanding(s, q) == req[s][q].used /\ ~req[s][q].done
RefcntMatches ==
  \A s \in Sides, i \in Slots :
    ref[s][i] = Cardinality({q \in Reqs : Outstanding(s, q) /\ req[s][q].mr = i})

(* A request returned by Isend or Irecv stays allocated until the        *)
(* proxy's own ncclIbTest call on it reports done: no call on behalf of   *)
(* another request frees it (used = 0), so ncclIbGetRequest cannot hand  *)
(* it out again while the proxy still holds it; and no request in use is *)
(* left behind when ncclIbGetRequest's realloc moves the pool, which      *)
(* would leave the proxy, a WR and Irecv holding dangling pointers.       *)
TestingOwn(s, h) == stack[s] # <<>> /\ stack[s][1].fn = "test" /\ stack[s][1].q = h
HeldRequestsLive ==
  /\ \A s \in Sides : \A h \in held[s] : req[s][h].used \/ TestingOwn(s, h)
  /\ \A s \in Sides, q \in Reqs : req[s][q].used => ~req[s][q].stale

(* ncclIbGetMr never deregisters the region of a request whose WR has not *)
(* completed.                                                             *)
MrRegisteredWhileOutstanding ==
  \A s \in Sides, q \in Reqs :
    Outstanding(s, q) /\ req[s][q].mr # None => req[s][q].mrOk

(* A comm is closed only when nothing of it is in use: no mrPool region   *)
(* it deregisters still has references (the WARN of 803/826 never fires), *)
(* none of its WRs is outstanding, and no RDMA operation of the peer into *)
(* its memory is in flight -- although the two proxies close independently *)
(* and each only knows that its own requests were reported done.          *)
CloseFindsIdle ==
  \A s \in Sides :
    closed[s] => atClose[s] = [busy |-> {}, wrs |-> 0, incoming |-> 0]

\* ncclIbGetMr only indexes mrPool inside the array.
NoMrOutOfBounds == fault # "mr_oob"

\* ncclIbIrecv never dereferences a NULL ibMr.
NoNullMrDeref == fault # "null_mr"

(* The lazy handshake brings both QPs up before any RDMA write uses     *)
(* them: while the sender's data write or the receiver's PostFifo write  *)
(* into the sender's FIFO is in flight, both QPs are in RTS.  The         *)
(* sender's QP leaves INIT only in the first Isend, so the first Irecv   *)
(* must not announce its buffer before the go word of ncclSendCheck.     *)
QpsReadyForTraffic ==
  swr # <<>> \/ fifoW # <<>> => qp["send"] = "rts" /\ qp["recv"] = "rts"

(* Every Isend and Irecv of the proxies completes and is reported done.  *)
AllMessagesComplete == <>AllDone
====
