--------------------------- MODULE AllReduceCalls ---------------------------
(***************************************************************************)
(* What a sequence of ncclAllReduce calls promises at the level of whole  *)
(* calls, one ring of N ranks: a rank starts its k-th call once its ring  *)
(* successor has finished call k-1 (the opCount handshake at kernel       *)
(* start), and a rank finishes call k only once every rank has started    *)
(* call k (its result depends on every rank's input).  started[r] and     *)
(* finished[r] count the calls rank r has begun and ended.                *)
(***************************************************************************)
EXTENDS Integers

CONSTANTS N, MaxOps

Ranks == 0 .. N - 1
Succ(r) == (r + 1) % N

VARIABLES started, finished

Init ==
  /\ started = [r \in Ranks |-> 0]
  /\ finished = [r \in Ranks |-> 0]

\* Rank r begins its next call after its successor ended the previous one.
Begin(r) ==
  /\ started[r] = finished[r] /\ started[r] < MaxOps
  /\ finished[Succ(r)] >= started[r]
  /\ started' = [started EXCEPT ![r] = @ + 1]
  /\ UNCHANGED finished

\* Rank r ends its current call once every rank has begun it.
End(r) ==
  /\ started[r] = finished[r] + 1
  /\ \A q \in Ranks : started[q] >= started[r]
  /\ finished' = [finished EXCEPT ![r] = @ + 1]
  /\ UNCHANGED started

Next == \E r \in Ranks : Begin(r) \/ End(r)

\* Every rank keeps issuing calls and every call it begins ends.
Spec == Init /\ [][Next]_<<started, finished>>
          /\ \A r \in Ranks : WF_<<started, finished>>(Begin(r) \/ End(r))
====
