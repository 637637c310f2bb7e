--------------------------- MODULE MCLeaseCapacity --------------------------
(* Two projects compete for one global worker slot.                        *)
EXTENDS WorkerLeases, TLC

CONSTANTS p1, p2, t1, t2, s1, s2, g1, g2

MCProjectOf     == t1 :> p1 @@ t2 :> p2
MCInteractive   == t1 :> g1 @@ t2 :> g2
MCMaxGlobalJobs == s1 :> 1 @@ s2 :> 1

\* No statement reads the pid or heartbeat of a row that is not active.
View ==
  <<now, lease, expires, wstate, run, failures, guardian, procs, scheds,
    [t \in ActiveWorkers |-> <<wpid[t], heartbeat[t]>>]>>

Symmetric == Permutations({s1, s2})
=============================================================================
