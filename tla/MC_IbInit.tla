----------------------------- MODULE MC_IbInit -----------------------------
(* Instantiation of IbInit for TLC: the threads are model values, the     *)
(* devices a short sequence of usable port counts.                        *)
EXTENDS IbInit, TLC

\* Two HCAs, the first with one usable port and the second with two.
MC_TwoHcas == <<1, 2>>

\* Two HCAs with two usable ports each.
MC_FourPorts == <<2, 2>>

\* Only failures after which the device loop goes on.
MC_SkipFailures == {"open", "query", "port"}

\* Every call inside initDevices may fail.
MC_AllFailures == FailPoints

\* Failures of the calls after which initDevices returns.
MC_ReturnFailures == {"symbols", "ifname", "devlist", "close", "free"}
\* Threads are interchangeable.
Perms == Permutations(Threads)
====
