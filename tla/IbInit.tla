------------------------------- MODULE IbInit -------------------------------
(***************************************************************************)
(* initDevices of src/src/transport/net_ib.cu (67-151), called by every   *)
(* entry point of the IB transport (ncclIbSupport, ncclIbDevices,         *)
(* ncclIbPtrSupport, GetSocketAddr, ncclIbConnect) and so by concurrent   *)
(* threads.  It uses double-checked locking on ncclNIbDevs (-1 until the  *)
(* devices are detected) and ncclIbLock, and fills ncclIbDevs[] one       *)
(* active port at a time, counting with ncclNIbDevs++.                    *)
(*                                                                         *)
(* A thread's position is pc[t]; the device loop's position is dev[t] and *)
(* port[t], the ports added for the current device found[t].  seen[t] is  *)
(* the ncclNIbDevs the caller goes on to use when initDevices returns.    *)
(* A thread is one call of ncclIbSupport (858-861) or ncclIbDevices       *)
(* (152-175), api[t]; after initDevices, ncclIbDevices allocates the      *)
(* scores array and fills it in a loop over the devices, reading          *)
(* ncclNIbDevs without the lock each time.                                *)
(***************************************************************************)
EXTENDS Integers, Sequences, FiniteSets, Functions

CONSTANTS
  Threads,   \* the threads calling initDevices
  Usable,    \* Usable[d]: active ports of device d that match NCCL_IB_HCA
  Failing,   \* the calls that may fail: a subset of FailPoints
  MaxIbDevs, \* MAX_IB_DEVS, the size of ncclIbDevs[]
  NoOwner    \* ncclIbLock is free

FailPoints ==
  {"symbols", "ifname", "devlist", "open", "query", "port", "close", "free"}
Devices == 1 .. Len(Usable)
TotalPorts == SumFunction(Usable)

ASSUME /\ Failing \subseteq FailPoints /\ NoOwner \notin Threads
       /\ MaxIbDevs \in Nat
       /\ \A d \in Devices : Usable[d] \in Nat

VARIABLES
  pc,        \* pc[t]: where thread t is in initDevices
  dev,       \* dev[t]: the device loop index d (1-based)
  port,      \* port[t]: the port loop index
  found,     \* found[t]: ports of the current device added
  nDevs,     \* ncclNIbDevs
  owner,     \* the thread holding ncclIbLock, or NoOwner
  seen,      \* seen[t]: ncclNIbDevs when initDevices returned to t's caller
  scanners,  \* the threads that ran the detection (history)
  api,       \* api[t]: the entry point thread t called
  scLen,     \* scLen[t]: the entries of ncclIbDevices' sc array
  scNext     \* scNext[t]: the loop index d of ncclIbDevices' score loop

vars == <<pc, dev, port, found, nDevs, owner, seen, scanners, api, scLen, scNext>>
Apis == {"support", "devices"}

Init ==
  /\ pc = [t \in Threads |-> "start"]
  /\ dev = [t \in Threads |-> 1]
  /\ port = [t \in Threads |-> 1]
  /\ found = [t \in Threads |-> 0]
  /\ nDevs = -1
  /\ owner = NoOwner
  /\ seen = [t \in Threads |-> -1]
  /\ scanners = {}
  /\ api \in [Threads -> Apis]
  /\ scLen = [t \in Threads |-> 0]
  /\ scNext = [t \in Threads |-> 0]

(* initDevices returns to its caller, who reads ncclNIbDevs: ncclIbSupport *)
(* returns ncclNIbDevs > 0 (860), ncclIbDevices sets *ndev (154) and goes *)
(* on to the scores.                                                      *)
Return(t) ==
  /\ pc' = [pc EXCEPT ![t] = IF api[t] = "devices" THEN "alloc" ELSE "done"]
  /\ seen' = [seen EXCEPT ![t] = nDevs]

Goto(t, l) == pc' = [pc EXCEPT ![t] = l]

\* net_ib.cu 68-69: the ibverbs symbols are loaded (else return), then the
\* unlocked check of ncclNIbDevs.
Unscanned(n) == n = -1

Check(t) ==
  /\ pc[t] = "start"
  /\ \/ "symbols" \in Failing /\ Return(t)
     \/ Unscanned(nDevs) /\ Goto(t, "lock") /\ UNCHANGED seen
     \/ ~Unscanned(nDevs) /\ Return(t)
  /\ UNCHANGED <<dev, port, found, nDevs, owner, scanners, api, scLen, scNext>>

\* pthread_mutex_lock(&ncclIbLock), 70.
Lock(t) ==
  /\ pc[t] = "lock" /\ owner = NoOwner
  /\ owner' = t
  /\ Goto(t, "recheck")
  /\ UNCHANGED <<dev, port, found, nDevs, seen, scanners, api, scLen, scNext>>

\* Mutant: the check under the lock is left out.
NeedsScanAlways(n) == TRUE
\* net_ib.cu 71: the check under the lock.
NeedsScan(n) == n = -1

Recheck(t) ==
  /\ pc[t] = "recheck"
  /\ Goto(t, IF NeedsScan(nDevs) THEN "ifname" ELSE "unlock")
  /\ UNCHANGED <<dev, port, found, nDevs, owner, seen, scanners, api, scLen, scNext>>

(* 73-93: find the sideband IP interface; if there is none, return (with  *)
(* ncclIbLock held).  Otherwise ncclNIbDevs = 0 before any device is      *)
(* known.                                                                 *)
FindInterface(t) ==
  /\ pc[t] = "ifname"
  /\ \/ /\ "ifname" \in Failing
        /\ Return(t)
        /\ UNCHANGED <<nDevs, scanners>>
     \/ /\ nDevs' = 0
        /\ scanners' = scanners \cup {t}
        /\ Goto(t, "devlist")
        /\ UNCHANGED seen
  /\ UNCHANGED <<dev, port, found, owner, api, scLen, scNext>>

\* 102: wrap_ibv_get_device_list; on failure return (lock held).
DeviceList(t) ==
  /\ pc[t] = "devlist"
  /\ \/ "devlist" \in Failing /\ Return(t)
     \/ Goto(t, "dev") /\ UNCHANGED seen
  /\ UNCHANGED <<dev, port, found, nDevs, owner, scanners, api, scLen, scNext>>

(* 104-116: the next device: open it and query it (either failing skips  *)
(* the device), or leave the loop.                                        *)
OpenDevice(t) ==
  /\ pc[t] = "dev"
  /\ IF dev[t] \in Devices
     THEN \/ /\ {"open", "query"} \cap Failing # {}
             /\ dev' = [dev EXCEPT ![t] = @ + 1]
             /\ UNCHANGED <<pc, port, found>>
          \/ /\ Goto(t, "port")
             /\ port' = [port EXCEPT ![t] = 1]
             /\ found' = [found EXCEPT ![t] = 0]
             /\ UNCHANGED dev
     ELSE Goto(t, "free") /\ UNCHANGED <<dev, port, found>>
  /\ UNCHANGED <<nDevs, owner, seen, scanners, api, scLen, scNext>>

\* Mutant: the port loop runs one index too far.
PortInRangeInclusive(t) == port[t] <= Usable[dev[t]] + 1
\* 117: for (port = 1; port <= phys_port_cnt; port++), over the usable ports.
PortInRange(t) == port[t] <= Usable[dev[t]]

(* 118-137: the next usable port: record it in ncclIbDevs[ncclNIbDevs]    *)
(* (no check against MAX_IB_DEVS) and increment ncclNIbDevs; a failed     *)
(* port query skips it.                                                   *)
AddPort(t) ==
  /\ pc[t] = "port"
  /\ IF PortInRange(t)
     THEN /\ port' = [port EXCEPT ![t] = @ + 1]
          /\ \/ /\ "port" \in Failing
                /\ UNCHANGED <<nDevs, found>>
             \/ /\ nDevs' = nDevs + 1
                /\ found' = [found EXCEPT ![t] = @ + 1]
          /\ UNCHANGED pc
     ELSE Goto(t, "close") /\ UNCHANGED <<port, nDevs, found>>
  /\ UNCHANGED <<dev, owner, seen, scanners, api, scLen, scNext>>

(* 140: a device without a usable port is closed; if closing fails,       *)
(* return (lock held).                                                    *)
CloseDevice(t) ==
  /\ pc[t] = "close"
  /\ \/ /\ found[t] = 0 /\ "close" \in Failing
        /\ Return(t)
        /\ UNCHANGED dev
     \/ /\ Goto(t, "dev")
        /\ dev' = [dev EXCEPT ![t] = @ + 1]
        /\ UNCHANGED seen
  /\ UNCHANGED <<port, found, nDevs, owner, scanners, api, scLen, scNext>>

\* 143: wrap_ibv_free_device_list; on failure return (lock held).
FreeList(t) ==
  /\ pc[t] = "free"
  /\ \/ "free" \in Failing /\ Return(t)
     \/ Goto(t, "unlock") /\ UNCHANGED seen
  /\ UNCHANGED <<dev, port, found, nDevs, owner, scanners, api, scLen, scNext>>

\* 146-149: read NCCL_IB_TIMEOUT, pthread_mutex_unlock, return.
Unlock(t) ==
  /\ pc[t] = "unlock"
  /\ owner' = NoOwner
  /\ Return(t)
  /\ UNCHANGED <<dev, port, found, nDevs, scanners, api, scLen, scNext>>

(* ncclIbDevices 159: sc = malloc(ncclNIbDevs*sizeof(int)).  With        *)
(* ncclNIbDevs == -1 the size converts to a huge size_t and malloc       *)
(* returns NULL: no entry can be written.                                 *)
ScoresAlloc(t) ==
  /\ pc[t] = "alloc"
  /\ scLen' = [scLen EXCEPT ![t] = IF nDevs < 0 THEN 0 ELSE nDevs]
  /\ scNext' = [scNext EXCEPT ![t] = 0]
  /\ Goto(t, "score")
  /\ UNCHANGED <<dev, port, found, nDevs, owner, seen, scanners, api>>

(* 162-169: for (d=0; d<ncclNIbDevs; d++) sc[d] = ..., ncclNIbDevs read  *)
(* again at every test; then *scores = sc (173).                          *)
ScoreDevice(t) ==
  /\ pc[t] = "score"
  /\ IF scNext[t] < nDevs
     THEN scNext' = [scNext EXCEPT ![t] = @ + 1] /\ UNCHANGED pc
     ELSE Goto(t, "done") /\ UNCHANGED scNext
  /\ UNCHANGED <<dev, port, found, nDevs, owner, seen, scanners, api, scLen>>

Step(t) ==
  \/ Check(t) \/ Lock(t) \/ Recheck(t) \/ FindInterface(t) \/ DeviceList(t)
  \/ OpenDevice(t) \/ AddPort(t) \/ CloseDevice(t) \/ FreeList(t) \/ Unlock(t)
  \/ ScoresAlloc(t) \/ ScoreDevice(t)

AllReturned == \A t \in Threads : pc[t] = "done"

\* Every caller has returned.
Finished == AllReturned /\ UNCHANGED vars

Next == (\E t \in Threads : Step(t)) \/ Finished

\* Every thread is scheduled; pthread_mutex_lock admits a waiter once the
\* lock is free (weak fairness per thread).
Spec == Init /\ [][Next]_vars /\ \A t \in Threads : WF_vars(Step(t))

-----------------------------------------------------------------------------
TypeOK ==
  /\ pc \in [Threads -> {"start", "lock", "recheck", "ifname", "devlist", "dev",
                         "port", "close", "free", "unlock", "alloc",
                         "score", "done"}]
  /\ nDevs \in -1 .. TotalPorts /\ owner \in Threads \cup {NoOwner}
  /\ seen \in [Threads -> -1 .. TotalPorts] /\ scanners \subseteq Threads
  /\ dev \in [Threads -> 1 .. Len(Usable) + 1]
  /\ found \in [Threads -> 0 .. TotalPorts]
  /\ api \in [Threads -> Apis]
  /\ scLen \in [Threads -> 0 .. TotalPorts]
  /\ scNext \in [Threads -> 0 .. TotalPorts]

(* Double-checked locking: the devices are detected (and ncclIbDevs[]     *)
(* filled) by at most one thread, however the threads interleave.        *)
DevicesScannedOnce == Cardinality(scanners) <= 1

(* No thread returns from initDevices while holding ncclIbLock: a held    *)
(* lock blocks every later caller that still sees ncclNIbDevs == -1.      *)
LockReleasedOnReturn == \A t \in Threads : pc[t] = "done" => owner # t

(* Every port recorded lies inside ncclIbDevs[MAX_IB_DEVS]: the write at   *)
(* ncclIbDevs[ncclNIbDevs] happens while ncclNIbDevs < MAX_IB_DEVS.       *)
DevTableInBounds == nDevs <= MaxIbDevs

(* Once every call has returned, every caller saw the final device count *)
(* (ncclIbSupport returns ncclNIbDevs > 0, ncclIbDevices reports          *)
(* ncclNIbDevs devices).                                                  *)
CallersSeeAllDevices == AllReturned => \A t \in Threads : seen[t] = nDevs

(* ncclIbDevices only writes sc[d] inside the array it allocated: the     *)
(* ncclNIbDevs it sized sc with (159) is still the bound of its loop      *)
(* (162), although another thread may be filling ncclIbDevs[] meanwhile.  *)
ScoresInBounds ==
  \A t \in Threads : pc[t] = "score" /\ scNext[t] < nDevs => scNext[t] < scLen[t]
====
