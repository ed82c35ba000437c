--------------------------------- MODULE Crc ---------------------------------
(***************************************************************************)
(* The CRC-32 of src/src/crc32.cu: the host version calcCRCHost (a table  *)
(* of 8-bit remainders built once by crcInit, then one table step per     *)
(* byte) and the device version CRCKernel, one block whose threads each   *)
(* build one table entry, stage 256-byte windows of the data in shared    *)
(* memory and meet at __syncthreads while thread 0 folds each window.     *)
(*                                                                         *)
(* A 32-bit word is the tuple of its four bytes, most significant first,  *)
(* so that every shift keeps the code's width.  The block has B threads   *)
(* (256 in the code; the window and buffer[] have the same size).         *)
(***************************************************************************)
EXTENDS Integers, Sequences, SequencesExt, Bitwise

CONSTANTS
  B,       \* blockDim.x: threads of CRCKernel, size of buffer[] and a window
  Inputs   \* the byte sequences data[0 .. bytes-1] passed to CRCKernel

Threads == 0 .. B - 1
Bytes == 0 .. 255
ASSUME B \in Nat \ {0} /\ \A d \in Inputs : d \in Seq(Bytes)

\* 32-bit words as four bytes, most significant first.
Word == [1 .. 4 -> Bytes]
XorW(a, c) == <<a[1] ^^ c[1], a[2] ^^ c[2], a[3] ^^ c[3], a[4] ^^ c[4]>>
\* crc_accum << 8 and crc_accum << 1, the top bits shifted out.
Shl8(w) == <<w[2], w[3], w[4], 0>>
\* Mutant: crc_accum << 1 computed in a wider type keeps its top bit.
Shl1Wide(w) == <<2 * w[1] + (w[2] \div 128), 2 * w[2] + (w[3] \div 128),
                 2 * w[3] + (w[4] \div 128), 2 * w[4]>>
Shl1(w) == <<((2 * w[1]) % 256) + (w[2] \div 128), ((2 * w[2]) % 256) + (w[3] \div 128),
             ((2 * w[3]) % 256) + (w[4] \div 128), (2 * w[4]) % 256>>
NotW(w) == <<255 - w[1], 255 - w[2], 255 - w[3], 255 - w[4]>>

POLYNOMIAL == <<4, 193, 29, 183>>       \* 0x04c11db7
CrcSeed == <<17, 34, 51, 68>>           \* 0x11223344, "used in cuDNN"

\* Mutant: the high-bit test looks at bit 30.
TopBitSetLow(w) == (w[1] \div 64) % 2 = 1
\* crc_accum & 0x80000000L
TopBitSet(w) == w[1] >= 128

\* One step of the remainder loop of crcInit (44-47).
DivStep(w) == IF TopBitSet(w) THEN XorW(Shl1(w), POLYNOMIAL) ELSE Shl1(w)

RECURSIVE Divide(_, _)
Divide(w, k) == IF k = 0 THEN w ELSE Divide(DivStep(w), k - 1)

\* crcInit (41-50): crc_table[i] is i << 24 after eight remainder steps.
TableEntry(i) == Divide(<<i, 0, 0, 0>>, 8)
crc_table == [i \in Bytes |-> TableEntry(i)]

\* 62-63 (and 91-92 in CRCKernel): i = ((crc >> 24) ^ byte) & 0xFF;
\* crc = (crc << 8) ^ crc_table[i].
UpdateByte(crc, b) == XorW(Shl8(crc), crc_table[crc[1] ^^ b])

\* calcCRCHost (53-67): the table steps from the seed, then ~crc.
CalcCRCHost(d) == NotW(FoldLeft(UpdateByte, CrcSeed, d))

(* Reference: CRC-32 (MSB first, polynomial 0x04c11db7) as the bit-serial *)
(* shift register, kept as its two 16-bit halves: one data bit enters per *)
(* step and the polynomial is xored in when it differs from the top bit.  *)
Halves(w) == <<w[1] * 256 + w[2], w[3] * 256 + w[4]>>
RefBit(reg, bit) ==
  LET fb == ((reg[1] \div 32768) + bit) % 2
      sh == <<((2 * reg[1]) % 65536) + (reg[2] \div 32768), (2 * reg[2]) % 65536>>
      p == Halves(POLYNOMIAL)
  IN IF fb = 1 THEN <<sh[1] ^^ p[1], sh[2] ^^ p[2]>> ELSE sh
\* Eight steps of the register on the bits of byte b, most significant first.
RefByte(reg, b) ==
  LET r[k \in 0 .. 8] ==
        IF k = 0 THEN reg ELSE RefBit(r[k - 1], (b \div 2^(8 - k)) % 2)
  IN r[8]

-----------------------------------------------------------------------------
(* CRCKernel<<<1, B>>>: the device version.                               *)

VARIABLES
  data,     \* the bytes the kernel reads
  pc,       \* pc[x]: where thread x is
  i,        \* i[x]: thread x's window loop index (threadIdx.x + k*B)
  j,        \* thread 0's byte loop index in the window
  crcVal,   \* thread 0's crc_val
  buffer,   \* __shared__ buffer[B]
  tbl,      \* tbl[x]: thread x has stored its crc_table entry
  printed   \* the value thread 0 printed (~crc_val), or <<>> before

vars == <<data, pc, i, j, crcVal, buffer, tbl, printed>>

Init ==
  /\ data \in Inputs
  /\ pc = [x \in Threads |-> "table"]
  /\ i = [x \in Threads |-> x]
  /\ j = 0
  /\ crcVal = CrcSeed
  /\ buffer = [x \in Threads |-> 0]
  /\ tbl = [x \in Threads |-> FALSE]
  /\ printed = <<>>

\* 75-80: thread x builds crc_table[threadIdx.x] (the value of crcInit).
BuildTable(x) ==
  /\ pc[x] = "table"
  /\ tbl' = [tbl EXCEPT ![x] = TRUE]
  /\ pc' = [pc EXCEPT ![x] = "cond"]
  /\ UNCHANGED <<data, i, j, crcVal, buffer, printed>>

\* 83: for (i = threadIdx.x; i < bytes; i += 256); a thread whose first
\* index is past the data never enters the loop.
LoopTest(x) ==
  /\ pc[x] = "cond"
  /\ pc' = [pc EXCEPT ![x] = IF i[x] < Len(data) THEN "store" ELSE "exit"]
  /\ UNCHANGED <<data, i, j, crcVal, buffer, tbl, printed>>

\* Mutant: the __syncthreads at 95 is left out.
SecondBarrierDropped == "inc"
\* 95: __syncthreads after thread 0 has folded the window.
SecondBarrier == "sync2"

\* Where thread x goes once the barrier at 85 lets it through.
AfterFirstBarrier(x) == IF x = 0 THEN "work" ELSE SecondBarrier

\* Mutant: the __syncthreads at 85 is left out.
AfterStoreNoBarrier(x) == AfterFirstBarrier(x)
\* 84-85: buffer[threadIdx.x] = data[i]; __syncthreads().
AfterStore(x) == "sync1"

Store(x) ==
  /\ pc[x] = "store"
  /\ buffer' = [buffer EXCEPT ![x] = data[i[x] + 1]]
  /\ pc' = [pc EXCEPT ![x] = AfterStore(x)]
  /\ UNCHANGED <<data, i, j, crcVal, tbl, printed>>

\* 88-89: the bytes of thread 0's window: min(bytes - i, 256).
WindowLen == IF Len(data) - i[0] > B THEN B ELSE Len(data) - i[0]

(* 87-94: thread 0 folds buffer[j] into crc_val, one byte per step, then  *)
(* goes to the barrier at 95.                                             *)
Fold ==
  /\ pc[0] = "work"
  /\ IF j < WindowLen
     THEN /\ crcVal' = UpdateByte(crcVal, buffer[j])
          /\ j' = j + 1
          /\ UNCHANGED pc
     ELSE /\ pc' = [pc EXCEPT ![0] = SecondBarrier]
          /\ UNCHANGED <<j, crcVal>>
  /\ UNCHANGED <<data, i, buffer, tbl, printed>>

\* The loop increment i += 256 (and thread 0's j = 0 for the next window).
Increment(x) ==
  /\ pc[x] = "inc"
  /\ i' = [i EXCEPT ![x] = @ + B]
  /\ j' = IF x = 0 THEN 0 ELSE j
  /\ pc' = [pc EXCEPT ![x] = "cond"]
  /\ UNCHANGED <<data, crcVal, buffer, tbl, printed>>

\* 98-99: thread 0 prints ~crc_val; every thread exits.
Exit(x) ==
  /\ pc[x] = "exit"
  /\ printed' = IF x = 0 THEN NotW(crcVal) ELSE printed
  /\ pc' = [pc EXCEPT ![x] = "done"]
  /\ UNCHANGED <<data, i, j, crcVal, buffer, tbl>>

(* __syncthreads: the barrier opens once every thread that has not       *)
(* exited waits at one; exited threads count as arrived, which is how    *)
(* the hardware treats the threads that leave the loop early.            *)
Waiting == {x \in Threads : pc[x] \in {"sync1", "sync2"}}
Barrier ==
  /\ Waiting # {}
  /\ \A x \in Threads : x \in Waiting \/ pc[x] = "done"
  /\ pc' = [x \in Threads |->
              CASE pc[x] = "sync1" -> AfterFirstBarrier(x)
                [] pc[x] = "sync2" -> "inc"
                [] OTHER -> pc[x]]
  /\ UNCHANGED <<data, i, j, crcVal, buffer, tbl, printed>>

Step(x) == BuildTable(x) \/ LoopTest(x) \/ Store(x) \/ Increment(x) \/ Exit(x)

KernelDone == \A x \in Threads : pc[x] = "done"
Finished == KernelDone /\ UNCHANGED vars

Next == (\E x \in Threads : Step(x)) \/ Fold \/ Barrier \/ Finished

Spec == Init /\ [][Next]_vars

-----------------------------------------------------------------------------
TypeOK ==
  /\ pc \in [Threads -> {"table", "cond", "store", "sync1", "work", "sync2",
                         "inc", "exit", "done"}]
  /\ crcVal \in Word /\ buffer \in [Threads -> Bytes] /\ j \in 0 .. B
  /\ printed \in Word \cup {<<>>}

(* Each table step of the CRC fold (crcInit's table, 62-63 and 91-92)   *)
(* is eight steps of the bit-serial CRC-32 shift register: whenever      *)
(* thread 0 is about to fold a byte, the table step and the shift        *)
(* register agree on the register it holds and the byte it reads.        *)
CrcMatchesReference ==
  pc[0] = "work" /\ j < WindowLen =>
    Halves(UpdateByte(crcVal, buffer[j])) = RefByte(Halves(crcVal), buffer[j])

(* Thread 0 only folds a byte once every thread has stored its crc_table *)
(* entry: the table of the block is complete before it is read.          *)
TableReadyWhenRead ==
  pc[0] = "work" /\ j < WindowLen => \A x \in Threads : tbl[x]

(* When the kernel has run, the CRC it printed is calcCRCHost of the     *)
(* same data, for lengths below, at and across multiples of the window,  *)
(* although the threads leave the window loop after different numbers   *)
(* of iterations and so of __syncthreads.                                *)
KernelCrcMatchesHost == printed # <<>> => printed = CalcCRCHost(data)
====
