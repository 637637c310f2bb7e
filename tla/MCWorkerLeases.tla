--------------------------- MODULE MCWorkerLeases ---------------------------
(* One project contended by two schedulers, with two worker generations.   *)
EXTENDS WorkerLeases, TLC

CONSTANTS p1, t1, t2, s1, s2, g1, g2

MCProjectOf     == t1 :> p1 @@ t2 :> p1
MCProjectOf1   == t1 :> p1
MCInteractive   == t1 :> g1 @@ t2 :> g2
MCInteractive1 == t1 :> g1
MCMaxGlobalJobs == s1 :> 1 @@ s2 :> 1

\* No statement reads the pid or heartbeat of a row that is not active.
View ==
  <<now, lease, expires, wstate, run, failures, guardian, procs, scheds,
    [t \in ActiveWorkers |-> <<wpid[t], heartbeat[t]>>]>>

\* No guard reads failure_count, and no property of that run does.
OwnershipView ==
  <<now, lease, expires, wstate, run, guardian, procs, scheds,
    [t \in ActiveWorkers |-> <<wpid[t], heartbeat[t]>>]>>

Symmetric == Permutations({s1, s2})
=============================================================================
