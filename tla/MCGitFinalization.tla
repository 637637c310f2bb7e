-------------------------- MODULE MCGitFinalization --------------------------
(* Instances of GitFinalization: the sessions s1 (commit and push), s2       *)
(* (commit) and u1 (without a journal) and the schedulers f1 and f2.         *)
EXTENDS GitFinalization

CONSTANTS s1, s2, u1, f1, f2, w1, w2

Scene(with, works, commits, inputs) ==
  [with |-> with, works |-> works, commits |-> commits, inputs |-> inputs]

\* One task, from its seal to the proof of its publication.
Publication == Scene({s1, f1}, {w1, w2}, 3,
                     {"commit", "rewind", "early", "crash", "die", "kill",
                      "network"})
\* Two tasks on one branch.
TwoTasks == Scene({s1, s2, f1}, {w1}, 3, {"early", "die", "network", "rewind"})
\* A Done list in another order than the sealed one.
Order == Scene({s1, f1}, {w1}, 4,
               {"order", "commit", "publish", "upstream", "stall"})
\* Two schedulers and a session without a journal.
Leases == Scene({s1, u1, f1, f2}, {}, 2,
                {"stop", "resume", "die", "crash", "checkout", "stall"})
Safety == {Publication, TwoTasks, Order, Leases}

\* Faults that come to an end, and an order to repair.
Faulty   == Scene({s1, s2, f1}, {w1}, 3, {"crash", "die", "network", "stall"})
Reorder  == Scene({s1, f1}, {}, 3,
                  {"order", "die", "stall", "kill", "crash"})
Progress == {Faulty, Reorder}

\* A repair that is killed with the index locked.
Killed == {Reorder}

\* A hand-back of a session without a journal beside a pending journal.
Handback == {Scene({s1, u1, f1}, {}, 2, {"resume"})}
=============================================================================
