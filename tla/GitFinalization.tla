--------------------------- MODULE GitFinalization ---------------------------
(***************************************************************************)
(* How the work of a Codex session becomes one proven Git commit.  The     *)
(* agent stages its work and runs `clt done' (application.rs), which seals *)
(* the tree its commit must have; the agent commits; CLT finds the commit, *)
(* compares it with the seal, publishes it in commit-and-push mode, proves *)
(* the publication and completes the journal (managed_git.rs).  The worker *)
(* of the run does so after Codex exits and the scheduler under a          *)
(* finalizer lease, while the user, the agent and crashes change the       *)
(* checkout, the remote and the board.                                     *)
(*                                                                         *)
(* Commits are numbered as they are created; the first is the commit every *)
(* journal recorded as its start.  A tree is what the proofs look at: the  *)
(* sessions whose task is completed on its board, the set of changes in    *)
(* it, and whether the Done list is in its other order.  Generations of a  *)
(* journal only grow, so a copy holds the current one or a stale one.      *)
(***************************************************************************)
EXTENDS Integers, Sequences, FiniteSets

CONSTANTS
  Managed,     \* sessions with a bound Git journal
  Unmanaged,   \* sessions of the project without one
  PushMode,    \* the managed sessions in commit-and-push mode
  Finalizers,  \* scheduler processes
  Changes,     \* the changes that can be made
  Scenarios,   \* who takes part, and which inputs and bounds apply
  None

Sessions  == Managed \cup Unmanaged
Worker    == "worker"
Processes == Finalizers \cup {Worker}
Events    == {"commit", "rewind", "publish", "checkout", "upstream", "order",
              "stop", "resume", "early", "crash", "stall", "die", "kill",
              "network"}

ASSUME GitConstants ==
  /\ PushMode \subseteq Managed /\ Managed \cap Unmanaged = {}
  /\ None \notin Sessions \cup Processes \cup Nat
  /\ None \notin [parent : Nat, tree : [done : SUBSET Managed,
                                       work : SUBSET Changes, ord : BOOLEAN]]
  /\ {Worker, "dead", "left"} \cap Finalizers = {}

ASSUME GitScenarios ==
  \A e \in Scenarios :
    /\ e.with \subseteq Sessions \cup Finalizers /\ e.works \subseteq Changes
    /\ e.inputs \subseteq Events /\ e.commits \in Nat \ {0}

VARIABLES
  env,                      \* the scenario, which never changes
  object, tip, onBranch,    \* commits; the frozen branch; it is checked out
  index, lock,              \* staged changes; who created index.lock
  remote, published,        \* remote tip; every commit the remote ever had
  upstream,                 \* upstream and push URL are the frozen ones
  jstate, seal, oid, acked, \* git_finalizations, by session
  wins,                     \* success runs recorded for a session
  board,                    \* where its task is
  ctl,                      \* its session_controls row
  run, child, wk,           \* the session run, its Codex, its worker
  lease, flock,             \* project lease; clt-finalization.lock
  cmd,                      \* the agent's `clt done' command
  pc, todo,                 \* a reconciling process, the journals before it
  ps, pstate, pfresh, pfirst,  \* and its copy of the one at hand
  poid, pnew                \* the commit at hand, and the amended one

git  == <<object, tip, onBranch, index, lock>>
rem  == <<remote, published, upstream>>
jrn  == <<jstate, seal, oid>>
book == <<acked, wins>>
live == <<run, child, wk>>
procs == <<pc, todo, ps, pstate, pfresh, pfirst, poid, pnew>>
world == <<git, rem, jrn, book, board>>
regs == <<ctl, live, lease, flock>>
copy == <<ps, pstate, pfresh, pfirst, poid, pnew>>
vars == <<env, git, rem, jrn, book, board, ctl, live, lease, flock, cmd, procs>>

With       == env.with     \* the sessions and schedulers that take part
Works      == env.works    \* the changes they make
Inputs     == env.inputs   \* the user actions and faults that may happen
MaxCommits == env.commits  \* bound on the commits ever created

-----------------------------------------------------------------------------
(* Commits, seals and proofs.                                              *)

Base == 1
Line(c) == object[c].line
Tree(c) == object[c].tree

Commit(parent, by, claim, tree) ==
  [parent |-> parent, line |-> Line(parent) \cup {Len(object) + 1},
   by |-> by, claim |-> claim, tree |-> tree]

Room == Len(object) < MaxCommits

\* git_ref_completed_task_identity: the board of a commit has s in Done, once.
DoneIn(s, c) == s \in Tree(c).done

Finalizing == {"tracking", "commit_pending", "push_pending"}
Pending    == Finalizing \cup {"working"}

\* git_commit_matches_agent_staged_manifest.
MatchesSeal(c, s) ==
  /\ seal[s] # None
  /\ object[c].parent = seal[s].parent
  /\ Tree(c) = seal[s].tree

\* git_commit_is_compatible_concurrent_work.
Compatible(c, s) ==
  /\ object[c].claim = None /\ object[c].by = "user" /\ ~DoneIn(s, c)

\* git_commit_is_proven_completed_other_session.
ProvenOther(c, s) ==
  \E t \in Managed \ {s} :
    /\ object[c].claim = t /\ jstate[t] = "completed"
    /\ oid[t] = c /\ MatchesSeal(c, t)

\* Mutant: the commits made since the start are not audited.
RangeSafeUnaudited(s, c) == Base \in Line(c)

\* agent_git_range_is_safe_before_manifest, and that the start is retained.
RangeSafe(s, c) ==
  /\ Base \in Line(c)
  /\ \A d \in Line(c) \ {Base} : Compatible(d, s) \/ ProvenOther(d, s)

\* The first-parent commits after the sealed parent.
After(s) == Line(tip) \ Line(seal[s].parent)

\* find_agent_git_task_commit_with_policy: the commit, or none.
TaskCommits(s) ==
  IF /\ seal[s] # None /\ seal[s].parent \in Line(tip)
     /\ DoneIn(s, tip) /\ ~DoneIn(s, seal[s].parent)
     /\ Cardinality({c \in After(s) : object[c].claim = s}) = 1
  THEN {c \in After(s) : /\ object[c].claim = s /\ object[c].by = "agent"
                         /\ DoneIn(s, c) /\ object[c].parent = seal[s].parent}
  ELSE {}

\* local_agent_git_task_commit_is_retained.
Retained(s, c) ==
  /\ onBranch /\ board[s] \in {"done", "twice"}
  /\ c \in Line(tip) /\ DoneIn(s, tip)

\* agent_git_upstream_tip_proves_task_commit.
Proves(c, s) == oid[s] \in Line(c) /\ DoneIn(s, c)

\* is_only_selected_order: the Done list is in the other order, no more.
OnlyOrder(c, s) ==
  /\ object[c].parent = seal[s].parent
  /\ Tree(c) # seal[s].tree
  /\ [Tree(c) EXCEPT !.ord = ~@] = seal[s].tree

-----------------------------------------------------------------------------
(* The journal.                                                            *)

\* A write moves the generation on: every other copy is stale from then on.
Staled(s) == [p \in Processes |-> pfresh[p] /\ ps[p] # s]

\* The variables of a process between journals.
Forget(p) ==
  /\ ps' = [ps EXCEPT ![p] = None] /\ pstate' = [pstate EXCEPT ![p] = None]
  /\ pfirst' = [pfirst EXCEPT ![p] = FALSE]
  /\ poid' = [poid EXCEPT ![p] = None] /\ pnew' = [pnew EXCEPT ![p] = None]

NewState(s, st) == jstate' = [jstate EXCEPT ![s] = st]

\* Mutant: the queue entry of a finished task is nulled, not deleted.
FollowQueueNulled(s, st) ==
  ctl' = IF st = "completed" /\ ctl[s] = "queued"
         THEN [ctl EXCEPT ![s] = None] ELSE ctl

\* compare_and_set_git_finalization: the queued resume row follows the
\* generation, and goes when the journal is terminal.
FollowQueue(s, st) ==
  ctl' = IF st = "completed" /\ ctl[s] = "queued"
         THEN [ctl EXCEPT ![s] = "none"] ELSE ctl

-----------------------------------------------------------------------------
(* The agent of the running session and its `clt done' command.            *)

NoCmd == [at |-> "idle", s |-> None, fresh |-> FALSE, owner |-> FALSE,
          seal |-> None]

\* The board lock is held by `clt done' and by a board-order repair.
Repairing == {"unpublished", "amend", "swap", "ref"}
BoardFree == cmd.at = "idle" /\ \A p \in Processes : pc[p] \notin Repairing

AgentStages(w) ==
  /\ child /\ lock = None /\ w \notin index
  /\ index' = index \cup {w}
  /\ UNCHANGED <<env, object, tip, onBranch, lock, rem, jrn, book, board, regs,
                 cmd, procs>>

\* The tree of the index, with the selected task in Done.
StagedTree(s, o) ==
  [done |-> Tree(tip).done \cup {s}, work |-> index, ord |-> o]

\* move_task_to_done_with_agent_store up to capture_agent_git_staged_manifest.
DoneSeal ==
  /\ child /\ BoardFree /\ run \in Managed
  /\ jstate[run] = "working" /\ board[run] = "doing"
  /\ onBranch /\ RangeSafe(run, tip) /\ lock = None
  /\ ~DoneIn(run, tip)
  /\ cmd' = [at |-> "sealed", s |-> run, fresh |-> TRUE, owner |-> TRUE,
             seal |-> [parent |-> tip, tree |-> StagedTree(run, Tree(tip).ord)]]
  /\ UNCHANGED <<env, world, regs, procs>>

\* track_git_finalization_with_manifest_blocking, or the same state again when
\* an earlier command got as far as TRACKING.
DoneTrack ==
  /\ cmd.at = "sealed"
  /\ \/ /\ cmd.fresh /\ cmd.owner
        /\ NewState(cmd.s, "tracking")
        /\ seal' = [seal EXCEPT ![cmd.s] = cmd.seal]
        /\ pfresh' = Staled(cmd.s)
        /\ cmd' = [cmd EXCEPT !.at = "tracked"]
     \/ /\ ~(cmd.fresh /\ cmd.owner)
        /\ cmd' = NoCmd
        /\ UNCHANGED <<jstate, seal, pfresh>>
  /\ UNCHANGED <<env, git, rem, oid, book, board, regs, pc, ps, pstate, pfirst,
                 poid, pnew, todo>>

DoneAgain ==
  /\ child /\ BoardFree /\ run \in Managed
  /\ jstate[run] = "tracking" /\ board[run] \in {"doing", "both"}
  /\ pfresh' = Staled(run)
  /\ cmd' = [at |-> "tracked", s |-> run, fresh |-> TRUE, owner |-> TRUE,
             seal |-> seal[run]]
  /\ UNCHANGED <<env, world, regs, pc, ps, pstate, pfirst, poid, pnew, todo>>

\* move_task_without_reordering_after_lock: the destination is written, then
\* the source is removed.  After an interrupted move Done has it twice.
DoneMove ==
  /\ cmd.at \in {"tracked", "written", "rewritten"}
  /\ board' = [board EXCEPT ![cmd.s] = CASE cmd.at = "tracked"   -> "both"
                                         [] cmd.at = "written"   -> "done"
                                         [] cmd.at = "rewritten" -> "twice"]
  /\ cmd' = [cmd EXCEPT !.at = IF cmd.at # "tracked" THEN "moved"
                               ELSE IF board[cmd.s] = "both" THEN "rewritten"
                               ELSE "written"]
  /\ UNCHANGED <<env, git, rem, jrn, book, regs, procs>>

\* compare_and_set_owned_git_finalization_blocking to COMMIT-PENDING.
DoneFinish ==
  /\ cmd.at = "moved"
  /\ \/ /\ cmd.fresh /\ cmd.owner
        /\ NewState(cmd.s, "commit_pending")
        /\ pfresh' = Staled(cmd.s)
     \/ ~(cmd.fresh /\ cmd.owner) /\ UNCHANGED <<jstate, pfresh>>
  /\ cmd' = NoCmd
  /\ UNCHANGED <<env, git, rem, seal, oid, book, board, regs, pc, ps, pstate,
                 pfirst, poid, pnew, todo>>

\* reseal_provisional_done_task: `clt done done' on a provisional Done task.
ResealCapture ==
  /\ child /\ BoardFree /\ run \in Managed
  /\ jstate[run] = "commit_pending" /\ board[run] = "done"
  /\ onBranch /\ RangeSafe(run, tip) /\ ~DoneIn(run, tip) /\ lock = None
  /\ \E o \in IF "order" \in Inputs THEN BOOLEAN ELSE {Tree(tip).ord} :
       cmd' = [at |-> "resealed", s |-> run, fresh |-> TRUE, owner |-> TRUE,
               seal |-> [parent |-> tip, tree |-> StagedTree(run, o)]]
  /\ cmd'.seal # seal[run]
  /\ UNCHANGED <<env, world, regs, procs>>

\* Mutant: the resealed manifest is stored without comparing generations.
ResealStoreBlind ==
  /\ cmd.at = "resealed"
  /\ seal' = [seal EXCEPT ![cmd.s] = cmd.seal]
  /\ pfresh' = Staled(cmd.s)
  /\ cmd' = NoCmd
  /\ UNCHANGED <<env, git, rem, jstate, oid, book, board, regs, pc, ps, pstate,
                 pfirst, poid, pnew, todo>>

\* reseal_git_finalization_manifest_blocking.
ResealStore ==
  /\ cmd.at = "resealed"
  /\ \/ /\ cmd.fresh /\ cmd.owner
        /\ seal' = [seal EXCEPT ![cmd.s] = cmd.seal]
        /\ pfresh' = Staled(cmd.s)
     \/ ~(cmd.fresh /\ cmd.owner) /\ UNCHANGED <<seal, pfresh>>
  /\ cmd' = NoCmd
  /\ UNCHANGED <<env, git, rem, jstate, oid, book, board, regs, pc, ps, pstate,
                 pfirst, poid, pnew, todo>>

\* git commit by the agent, with its identity and trailer.
AgentCommits ==
  /\ child /\ run \in Managed /\ onBranch /\ lock = None /\ Room
  /\ "early" \in Inputs \/ (jstate[run] = "commit_pending" /\ ~DoneIn(run, tip))
  /\ \E o \in IF "order" \in Inputs THEN BOOLEAN ELSE {Tree(tip).ord} :
       object' = Append(object, Commit(tip, "agent", run,
         [done |-> Tree(tip).done \cup {s \in {run} : board[s] = "done"},
          work |-> index, ord |-> o]))
  /\ tip' = Len(object')
  /\ UNCHANGED <<env, onBranch, index, lock, rem, jrn, book, board, regs, cmd,
                 procs>>

CmdDies ==
  /\ "kill" \in Inputs /\ cmd.at # "idle"
  /\ cmd' = NoCmd
  /\ UNCHANGED <<env, world, regs, procs>>

-----------------------------------------------------------------------------
(* The user's checkout, remote and sessions.                               *)

UserCommits(w) ==
  /\ "commit" \in Inputs /\ onBranch /\ lock = None /\ Room
  /\ w \notin Tree(tip).work
  /\ object' = Append(object, Commit(tip, "user", None,
                                     [Tree(tip) EXCEPT !.work = @ \cup {w}]))
  /\ tip' = Len(object') /\ index' = index \cup {w}
  /\ UNCHANGED <<env, onBranch, lock, rem, jrn, book, board, regs, cmd, procs>>

UserRewinds ==
  /\ "rewind" \in Inputs /\ onBranch /\ lock = None /\ tip # Base
  /\ tip' = object[tip].parent
  /\ UNCHANGED <<env, object, onBranch, index, lock, rem, jrn, book, board,
                 regs, cmd, procs>>

UserPublishes ==
  /\ "publish" \in Inputs /\ remote # tip /\ remote \in Line(tip)
  /\ remote' = tip /\ published' = published \cup Line(tip)
  /\ UNCHANGED <<env, upstream, git, jrn, book, board, regs, cmd, procs>>

UserSwitches ==
  /\ "checkout" \in Inputs /\ onBranch' = ~onBranch
  /\ UNCHANGED <<env, object, tip, index, lock, rem, jrn, book, board, regs,
                 cmd, procs>>

UserReconfigures ==
  /\ "upstream" \in Inputs /\ upstream' = ~upstream
  /\ UNCHANGED <<env, remote, published, git, jrn, book, board, regs, cmd,
                 procs>>

\* Stop of an idle session, and its resume or an interactive hand-back.
UserStops(s) ==
  /\ "stop" \in Inputs /\ ctl[s] \in {"resume", "queued"}
  /\ ctl' = [ctl EXCEPT ![s] = "stopped"]
  /\ UNCHANGED <<env, world, live, lease, flock, cmd, procs>>

UserResumes(s) ==
  /\ "resume" \in Inputs /\ ctl[s] = "stopped"
  /\ s \in Managed => jstate[s] \in Pending
  /\ ctl' = [ctl EXCEPT ![s] = "resume"]
  /\ UNCHANGED <<env, world, live, lease, flock, cmd, procs>>

-----------------------------------------------------------------------------
(* Runs: Codex, its worker, and what becomes of them.                      *)

Launch(s) ==
  /\ run = None /\ wk = "none" /\ lease = None
  /\ run' = s /\ child' = TRUE /\ wk' = "live" /\ lease' = Worker
  /\ ctl' = [ctl EXCEPT ![s] = "running"]

\* The choice of a scheduler pass after Git reconciliation: nothing while a
\* publication is pending, a finalizing session before all others.
MaySchedule(s) ==
  /\ s \in Managed => jstate[s] \in Pending
  /\ \A t \in Managed : jstate[t] # "push_pending"
  /\ (\E t \in Managed : jstate[t] \in Finalizing)
       => s \in Managed /\ jstate[s] \in Finalizing

\* acquire_agent_job_stage for the session the pass chose.
SchedulerRuns(p) ==
  /\ pc[p] = "chosen" /\ lease = None
  /\ ctl[ps[p]] \in {"resume", "queued"}
  /\ Launch(ps[p])
  /\ pc' = [pc EXCEPT ![p] = "idle"] /\ Forget(p)
  /\ UNCHANGED <<env, world, flock, cmd, pfresh, todo>>

\* The pass could not acquire the job, or found nothing to run.
PassEnds(p) ==
  /\ pc[p] \in {"chosen", "released"}
  /\ pc' = [pc EXCEPT ![p] = "idle"] /\ Forget(p)
  /\ UNCHANGED <<env, world, regs, cmd, pfresh, todo>>

\* run_agent_session_resume_worker: it looks at its own session only.
ResumeWorkerRuns(s) ==
  /\ "resume" \in Inputs /\ ctl[s] = "resume"
  /\ Launch(s)
  /\ UNCHANGED <<env, world, flock, cmd, procs>>

CodexExits ==
  /\ child /\ child' = FALSE
  /\ UNCHANGED <<env, world, ctl, run, wk, lease, flock, cmd, procs>>

\* The run's token is on its running row no longer.
Disown == cmd' = [cmd EXCEPT !.owner = FALSE]

\* The worker has a journal to reconcile and may take the lock for it.
NeedsProof == /\ IF run \in Managed THEN jstate[run] \in Finalizing ELSE FALSE
              /\ flock = None

\* The end of execute_agent_job: the row and the lease of the run.
WorkerSettles ==
  /\ run # None /\ wk = "live" /\ ~child
  /\ pc[Worker] = "settle" \/ (pc[Worker] = "idle" /\ ~NeedsProof)
  /\ ctl' = [ctl EXCEPT ![run] =
               IF run \in Managed /\ jstate[run] \in Pending \ {"push_pending"}
               THEN "resume" ELSE "none"]
  /\ wins' = IF run \in Managed /\ jstate[run] = "completed" /\ ~acked[run]
             THEN [wins EXCEPT ![run] = @ + 1] ELSE wins
  /\ run' = None /\ wk' = "none" /\ lease' = None
  /\ pc' = [pc EXCEPT ![Worker] = "idle"] /\ Disown
  /\ UNCHANGED <<env, git, rem, jrn, acked, board, child, flock, copy, todo>>

WorkerDies ==
  /\ "die" \in Inputs /\ wk = "live"
  /\ wk' = "dead"
  /\ pc' = [pc EXCEPT ![Worker] = "idle"]
  /\ flock' = IF flock = Worker THEN None ELSE flock
  /\ Forget(Worker) /\ pfresh' = [pfresh EXCEPT ![Worker] = FALSE]
  /\ UNCHANGED <<env, world, ctl, run, child, lease, cmd, todo>>

\* Recovery of a dead worker's row after its lease ran out, and of the control
\* row once its Codex is gone too.
WorkerAbandoned ==
  /\ wk = "dead" /\ wk' = "none"
  /\ lease' = IF lease = Worker THEN None ELSE lease
  /\ UNCHANGED <<env, world, ctl, run, child, flock, cmd, procs>>

RowRecovered ==
  /\ run # None /\ wk = "none" /\ ~child
  /\ ctl' = [ctl EXCEPT ![run] = "resume"]
  /\ run' = None /\ Disown
  /\ UNCHANGED <<env, world, child, wk, lease, flock, procs>>

-----------------------------------------------------------------------------
(* The scheduler's Git phase: the finalizer lease.                         *)

\* ensure_pending_git_finalization_resume_requested_blocking.
EnsureResume(s) ==
  /\ jstate[s] \in Pending \ {"push_pending"} /\ ctl[s] \in {"none", "resume"}
  /\ ctl' = [ctl EXCEPT ![s] = "queued"]
  /\ UNCHANGED <<env, world, live, lease, flock, cmd, procs>>

\* Mutant: only tagged requests of a pending publication are cleared.
ClearPushResumeTagged(s) ==
  /\ jstate[s] = "push_pending" /\ ctl[s] = "queued" /\ wk = "none"
  /\ ctl' = [ctl EXCEPT ![s] = "none"]
  /\ UNCHANGED <<env, world, live, lease, flock, cmd, procs>>

\* clear_autonomous_push_resume_request_blocking.
ClearPushResume(s) ==
  /\ jstate[s] = "push_pending" /\ ctl[s] \in {"resume", "queued"}
  /\ wk = "none"
  /\ ctl' = [ctl EXCEPT ![s] = "none"]
  /\ UNCHANGED <<env, world, live, lease, flock, cmd, procs>>

\* Mutant: only the worker rows are looked at.
NonblockingAny(s) == TRUE

\* GIT_FINALIZATION_NONBLOCKING_CONTROL (without interactive sessions).
Nonblocking(s) ==
  \/ ctl[s] \in {"none", "stopped"}
  \/ ctl[s] = "queued" /\ jstate[s] \in Pending

\* try_acquire_git_finalization_lease; a dead scheduler's lease is reclaimed.
AcquireFinalizer(p) ==
  /\ pc[p] = "idle" /\ p \in With
  /\ lease \in {None, "dead"} /\ wk = "none"
  /\ \E s \in Managed : jstate[s] \in Pending
  /\ \A s \in Sessions : Nonblocking(s)
  /\ lease' = p /\ pc' = [pc EXCEPT ![p] = "leased"]
  /\ todo' = [todo EXCEPT ![p] = {s \in Managed : jstate[s] \in Finalizing}]
  /\ UNCHANGED <<env, world, ctl, live, flock, cmd, copy>>

\* The heartbeat fails for the whole lease time: others may have it now.
LeaseLapses ==
  /\ "stall" \in Inputs /\ lease \in Finalizers
  /\ lease' = None
  /\ UNCHANGED <<env, world, ctl, live, flock, cmd, procs>>

\* The lease of a scheduler that was killed runs out.
DeadLeaseExpires ==
  /\ lease = "dead" /\ lease' = None
  /\ UNCHANGED <<env, world, ctl, live, flock, cmd, procs>>

\* Release, and the choice made from what the phase left.
ReleaseFinalizer(p) ==
  /\ pc[p] = "leased" /\ (todo[p] = {} \/ ~onBranch \/ lease # p)
  /\ todo' = [todo EXCEPT ![p] = {}]
  /\ lease' = IF lease = p THEN None ELSE lease
  /\ \/ \E s \in Sessions :
          /\ lease = p /\ MaySchedule(s) /\ ctl[s] \in {"resume", "queued"}
          /\ ps' = [ps EXCEPT ![p] = s] /\ pc' = [pc EXCEPT ![p] = "chosen"]
     \/ pc' = [pc EXCEPT ![p] = "released"] /\ UNCHANGED ps
  /\ UNCHANGED <<env, world, ctl, live, flock, cmd, pstate, pfresh, pfirst,
                 poid, pnew>>

\* A pass over a project without a pending journal.
SchedulesPlain(p) ==
  /\ p \in With /\ pc[p] = "idle"
  /\ \A s \in Managed : jstate[s] \notin Pending
  /\ \E s \in Unmanaged :
       /\ ctl[s] = "resume"
       /\ ps' = [ps EXCEPT ![p] = s] /\ pc' = [pc EXCEPT ![p] = "chosen"]
  /\ UNCHANGED <<env, world, regs, cmd, pstate, pfresh, pfirst,
                 poid, pnew, todo>>

\* Mutant: an acknowledgement always writes a run of its own.
AcknowledgeAnew(s) ==
  /\ jstate[s] = "completed" /\ ~acked[s] /\ lease = None /\ wk = "none"
  /\ acked' = [acked EXCEPT ![s] = TRUE]
  /\ wins' = [wins EXCEPT ![s] = @ + 1]
  /\ UNCHANGED <<env, git, rem, jrn, board, regs, cmd, procs>>

\* acknowledge_completed_git_finalization_session_blocking: the success run of
\* the worker is reused, a missing one is written.
Acknowledge(s) ==
  /\ jstate[s] = "completed" /\ ~acked[s] /\ lease = None /\ wk = "none"
  /\ acked' = [acked EXCEPT ![s] = TRUE]
  /\ wins' = [wins EXCEPT ![s] = IF @ = 0 THEN 1 ELSE @]
  /\ ctl' = IF ctl[s] = "queued" THEN [ctl EXCEPT ![s] = "none"] ELSE ctl
  /\ UNCHANGED <<env, git, rem, jrn, board, live, lease, flock, cmd, procs>>

\* retire_completed_resume_request: a finished task needs no more runs.
RetireCompleted(s) ==
  /\ jstate[s] = "completed" /\ board[s] = "done" /\ ctl[s] = "resume"
  /\ lease = None /\ wk = "none"
  /\ ctl' = [ctl EXCEPT ![s] = "stopped"]
  /\ UNCHANGED <<env, world, live, lease, flock, cmd, procs>>

-----------------------------------------------------------------------------
(* reconcile_agent_git_finalization.                                       *)

\* ensure_agent_git_finalization_fence: a worker has none.
Fenced(p) == p = Worker \/ lease = p

MayReconcile(p, s) ==
  IF p = Worker
  THEN pc[p] = "idle" /\ run = s /\ wk = "live" /\ ~child /\ ctl[s] = "running"
  ELSE pc[p] = "leased" /\ lease = p /\ s \in todo[p]

\* The journal is read, and clt-finalization.lock taken.
Begin(p, s) ==
  /\ MayReconcile(p, s) /\ jstate[s] \in Finalizing /\ flock = None
  /\ flock' = p /\ todo' = [todo EXCEPT ![p] = @ \ {s}]
  /\ ps' = [ps EXCEPT ![p] = s] /\ pstate' = [pstate EXCEPT ![p] = jstate[s]]
  /\ pfresh' = [pfresh EXCEPT ![p] = TRUE]
  /\ pfirst' = [pfirst EXCEPT ![p] = TRUE]
  /\ pc' = [pc EXCEPT ![p] = "loop"]
  /\ UNCHANGED <<env, world, ctl, live, lease, cmd, poid, pnew>>

\* The lock is busy, or nothing is left to prove: on to the next journal.
Skip(p, s) ==
  /\ p # Worker /\ MayReconcile(p, s)
  /\ flock # None \/ jstate[s] \notin Finalizing
  /\ todo' = [todo EXCEPT ![p] = @ \ {s}]
  /\ UNCHANGED <<env, world, regs, cmd, pc, copy>>

\* Back in the loop with the journal as it is now.
Reread(p, st) ==
  /\ pc' = [pc EXCEPT ![p] = "loop"]
  /\ pstate' = [pstate EXCEPT ![p] = st]
  /\ pfirst' = [pfirst EXCEPT ![p] = FALSE]

\* Leave the loop, for the next journal or for the end of the run; the lock
\* on a repaired index is dropped.
Leave(p) ==
  /\ Forget(p)
  /\ pc' = [pc EXCEPT ![p] = IF p = Worker THEN "settle" ELSE "leased"]
  /\ flock' = None
  /\ lock' = IF lock = p THEN None ELSE lock

\* Returned without a result, or with an error that is stored under the
\* generation read first (reconcile_pending_agent_git_finalizations).
GiveUp(p) ==
  /\ Leave(p)
  /\ \/ pfresh' = [pfresh EXCEPT ![p] = FALSE] /\ UNCHANGED cmd
     \/ /\ p # Worker /\ lease = p /\ pfirst[p] /\ pfresh[p]
        /\ pfresh' = Staled(ps[p])
        /\ cmd' = [cmd EXCEPT !.fresh = @ /\ cmd.s # ps[p]]

\* A step of the loop that gets no further.
Stuck(p) ==
  /\ GiveUp(p)
  /\ UNCHANGED <<env, object, tip, onBranch, index, rem, jrn, book, board, ctl,
                 live, lease, todo>>

InLoop(p, st) == pc[p] = "loop" /\ pstate[p] = st

\* TRACKING: the interrupted board move is finished under the board lock.
RepairBoard(p) ==
  /\ InLoop(p, "tracking")
  /\ \/ /\ Fenced(p) /\ onBranch /\ tip = seal[ps[p]].parent /\ BoardFree
        /\ board' = [board EXCEPT ![ps[p]] = "done"]
        /\ pc' = [pc EXCEPT ![p] = "moved"]
        /\ UNCHANGED <<env, git, rem, jrn, book, regs, cmd, copy, todo>>
     \/ /\ ~(Fenced(p) /\ onBranch /\ tip = seal[ps[p]].parent)
        /\ Stuck(p)

\* A commit that proves the task: as sealed, and still in the branch.
Accepted(s, c) == MatchesSeal(c, s) /\ Retained(s, c)

\* COMMIT-PENDING: find the task commit; a finalizer may repair its order.
FindCommit(p) ==
  /\ InLoop(p, "commit_pending")
  /\ \/ \E c \in TaskCommits(ps[p]) :
          /\ poid' = [poid EXCEPT ![p] = c]
          /\ \/ /\ Fenced(p) /\ Accepted(ps[p], c)
                /\ pc' = [pc EXCEPT ![p] = "found"]
             \/ /\ p # Worker /\ lease = p /\ OnlyOrder(c, ps[p])
                /\ pc' = [pc EXCEPT ![p] = "repair"]
          /\ UNCHANGED <<env, world, regs, cmd, ps, pstate, pfresh, pfirst,
                         pnew, todo>>
     \/ /\ ~\E c \in TaskCommits(ps[p]) :
               \/ Fenced(p) /\ Accepted(ps[p], c)
               \/ p # Worker /\ lease = p /\ OnlyOrder(c, ps[p])
        /\ Stuck(p)

\* PUSH-PENDING: the commit must still be as sealed and in the branch.
CheckCommit(p) ==
  /\ InLoop(p, "push_pending")
  /\ \/ /\ Fenced(p) /\ Accepted(ps[p], oid[ps[p]])
        /\ poid' = [poid EXCEPT ![p] = oid[ps[p]]]
        /\ pc' = [pc EXCEPT ![p] = "fetch"]
        /\ UNCHANGED <<env, world, regs, cmd, ps, pstate, pfresh, pfirst,
                       pnew, todo>>
     \/ ~(Fenced(p) /\ Accepted(ps[p], oid[ps[p]])) /\ Stuck(p)

\* A remote command that fails, times out or loses its answer.
RemoteFails(p) ==
  /\ "network" \in Inputs /\ pc[p] \in {"fetch", "push", "refetch"}
  /\ Stuck(p)

\* fetch_agent_git_upstream_tip, before and after the push; poid is the commit
\* to be pushed and then the tip that was fetched.
Fetch(p) ==
  /\ pc[p] \in {"fetch", "refetch"}
  /\ \/ /\ Fenced(p) /\ upstream
        /\ IF pc[p] = "refetch" \/ Proves(remote, ps[p])
           THEN /\ poid' = [poid EXCEPT ![p] = remote]
                /\ pc' = [pc EXCEPT ![p] = "prove"]
           ELSE pc' = [pc EXCEPT ![p] = "push"] /\ UNCHANGED poid
        /\ UNCHANGED <<env, world, regs, cmd, ps, pstate, pfresh, pfirst,
                       pnew, todo>>
     \/ ~(Fenced(p) /\ upstream) /\ Stuck(p)

\* push_agent_git_commit_to_frozen_destination, not forced; the answer may be
\* lost after the remote took the commit.
Push(p) ==
  /\ pc[p] = "push"
  /\ \/ /\ Fenced(p) /\ upstream /\ remote \in Line(poid[p])
        /\ remote' = poid[p] /\ published' = published \cup Line(poid[p])
        /\ \/ /\ pc' = [pc EXCEPT ![p] = "refetch"]
              /\ UNCHANGED <<flock, lock, cmd, copy>>
           \/ "network" \in Inputs /\ GiveUp(p)
        /\ UNCHANGED <<env, object, tip, onBranch, index, upstream, jrn, book,
                       board, ctl, live, lease, todo>>
     \/ ~(Fenced(p) /\ upstream /\ remote \in Line(poid[p])) /\ Stuck(p)

\* The fetched tip proves the publication, the branch still has the commit.
ProvePush(p) ==
  /\ pc[p] = "prove"
  /\ \/ /\ Fenced(p) /\ Proves(poid[p], ps[p]) /\ Retained(ps[p], oid[ps[p]])
        /\ poid' = [poid EXCEPT ![p] = oid[ps[p]]]
        /\ pc' = [pc EXCEPT ![p] = "proven"]
        /\ UNCHANGED <<env, world, regs, cmd, ps, pstate, pfresh, pfirst,
                       pnew, todo>>
     \/ /\ ~(/\ Fenced(p) /\ Proves(poid[p], ps[p])
             /\ Retained(ps[p], oid[ps[p]]))
        /\ Stuck(p)

\* The state the proof of each step leads to.
NextOf(p) ==
  CASE pc[p] = "moved"  -> "commit_pending"
    [] pc[p] = "found"  -> IF ps[p] \in PushMode THEN "push_pending"
                           ELSE "completed"
    [] pc[p] = "proven" -> "completed"

\* The generation the step was proved for is still the journal's.
StillCurrent(p) == pfresh[p]

\* compare_and_set_git_finalization_blocking after each proof; when somebody
\* else was first the journal is read again.
Store(p) ==
  /\ pc[p] \in {"moved", "found", "proven"}
  /\ LET s == ps[p] IN
     \/ /\ StillCurrent(p)
        /\ NewState(s, NextOf(p)) /\ FollowQueue(s, NextOf(p))
        /\ oid' = IF pc[p] = "moved" THEN oid ELSE [oid EXCEPT ![s] = poid[p]]
        /\ pfresh' = [Staled(s) EXCEPT ![p] = TRUE]
        /\ cmd' = [cmd EXCEPT !.fresh = @ /\ cmd.s # s]
        /\ Reread(p, NextOf(p))
     \/ /\ ~StillCurrent(p)
        /\ pfresh' = [pfresh EXCEPT ![p] = TRUE]
        /\ Reread(p, jstate[s])
        /\ UNCHANGED <<jstate, oid, ctl, cmd>>
  /\ UNCHANGED <<env, git, rem, seal, book, board, live, lease, flock, ps,
                 poid, pnew, todo>>

\* A terminal journal, or one that went back to the agent.
Finish(p) ==
  /\ pc[p] = "loop" /\ pstate[p] \notin Finalizing
  /\ Leave(p)
  /\ pfresh' = [pfresh EXCEPT ![p] = FALSE]
  /\ UNCHANGED <<env, object, tip, onBranch, index, rem, jrn, book, board, ctl,
                 live, lease, cmd, todo>>

-----------------------------------------------------------------------------
(* managed_git/repair.rs: the Done list of an unpublished task commit at    *)
(* the tip of the branch is put in the sealed order by rewriting it.       *)


\* The closure `recheck'.
Recheck(p) ==
  LET s == ps[p] IN
  /\ lease = p /\ ctl[s] = "queued" /\ board[s] = "done"
  /\ pfresh[p] /\ tip = poid[p] /\ Retained(s, poid[p])

RepairStep(p, at, next) ==
  /\ pc[p] = at /\ Recheck(p)
  /\ pc' = [pc EXCEPT ![p] = next]

\* require_unpublished, by the refs of the repository and of its remotes.
Unpublished(c) == c \notin Line(remote)

\* The board lock is taken, then the remotes are asked.
RepairChecks(p) ==
  /\ BoardFree /\ RepairStep(p, "repair", "unpublished")
  /\ Unpublished(poid[p])
  /\ UNCHANGED <<env, world, regs, cmd, copy, todo>>

\* index.lock is created.
RepairLocks(p) ==
  /\ RepairStep(p, "unpublished", "amend")
  /\ lock = None /\ lock' = p
  /\ UNCHANGED <<env, object, tip, onBranch, index, rem, jrn, book, board,
                 regs, cmd, copy, todo>>

\* git commit --amend of the sealed tree in an isolated worktree.
RepairAmends(p) ==
  /\ pc[p] = "amend" /\ Room
  /\ object' = Append(object, Commit(object[poid[p]].parent, "agent", ps[p],
                                     seal[ps[p]].tree))
  /\ pnew' = [pnew EXCEPT ![p] = Len(object')]
  /\ pc' = [pc EXCEPT ![p] = "swap"]
  /\ UNCHANGED <<env, tip, onBranch, index, lock, rem, jrn, book, board, regs,
                 cmd, todo, ps, pstate, pfresh, pfirst, poid>>

\* The corrected index takes the place of the old one and of its lock.
RepairIndex(p) ==
  /\ RepairStep(p, "swap", "ref")
  /\ lock' = None
  /\ UNCHANGED <<env, object, tip, onBranch, index, rem, jrn, book, board,
                 regs, cmd, copy, todo>>

\* Mutant: the branch is moved whatever it points at.
SameTipAssumed(p) == TRUE

\* git update-ref with the old value.
SameTip(p) == tip = poid[p]

\* The branch is moved; the loop goes on with the same record.
RepairMoves(p) ==
  /\ pc[p] = "ref" /\ SameTip(p)
  /\ tip' = pnew[p]
  /\ pc' = [pc EXCEPT ![p] = "loop"]
  /\ UNCHANGED <<env, object, onBranch, index, lock, rem, jrn, book, board,
                 regs, cmd, copy, todo>>

\* A check fails or the index is busy: the original commit is kept.
RepairFails(p) ==
  /\ \/ pc[p] = "repair" /\ BoardFree /\ ~(Recheck(p) /\ Unpublished(poid[p]))
     \/ pc[p] = "unpublished" /\ ~(Recheck(p) /\ lock = None)
     \/ pc[p] = "amend" /\ ~Room
     \/ pc[p] = "swap" /\ ~Recheck(p)
     \/ pc[p] = "ref" /\ ~SameTip(p)
  /\ Stuck(p)

-----------------------------------------------------------------------------

\* A scheduler is killed: the kernel drops its file locks, index.lock stays.
FinalizerCrashes(p) ==
  /\ "crash" \in Inputs /\ p \in Finalizers
  /\ pc[p] \notin {"idle", "released", "chosen"}
  /\ pc' = [pc EXCEPT ![p] = "idle"]
  /\ lease' = IF lease = p THEN "dead" ELSE lease
  /\ flock' = IF flock = p THEN None ELSE flock
  /\ lock' = IF lock = p THEN "left" ELSE lock
  /\ todo' = [todo EXCEPT ![p] = {}]
  /\ Forget(p) /\ pfresh' = [pfresh EXCEPT ![p] = FALSE]
  /\ UNCHANGED <<env, object, tip, onBranch, index, rem, jrn, book, board, ctl,
                 live, cmd>>

Init ==
  /\ env \in Scenarios
  /\ object = <<[parent |-> 0, line |-> {Base}, by |-> "user", claim |-> None,
                 tree |-> [done |-> {}, work |-> {}, ord |-> FALSE]]>>
  /\ tip = Base /\ onBranch = TRUE /\ index = {} /\ lock = None
  /\ remote = Base /\ published = {Base} /\ upstream = TRUE
  /\ jstate = [s \in Managed |-> IF s \in With THEN "working" ELSE "absent"]
  /\ seal = [s \in Managed |-> None] /\ oid = [s \in Managed |-> None]
  /\ acked = [s \in Managed |-> FALSE] /\ wins = [s \in Managed |-> 0]
  /\ board = [s \in Managed |-> "doing"]
  /\ ctl = [s \in Sessions |-> IF s \notin With THEN "none"
                               ELSE IF s \in Managed THEN "resume" ELSE "stopped"]
  /\ run = None /\ child = FALSE /\ wk = "none"
  /\ lease = None /\ flock = None /\ cmd = NoCmd
  /\ pc = [p \in Processes |-> "idle"] /\ todo = [p \in Processes |-> {}]
  /\ ps = [p \in Processes |-> None]
  /\ pstate = [p \in Processes |-> None]
  /\ pfresh = [p \in Processes |-> FALSE]
  /\ pfirst = [p \in Processes |-> FALSE]
  /\ poid = [p \in Processes |-> None] /\ pnew = [p \in Processes |-> None]

Agent == \/ \E w \in Works : AgentStages(w)
         \/ DoneSeal \/ DoneTrack \/ DoneAgain \/ DoneMove \/ DoneFinish
         \/ ResealCapture \/ ResealStore \/ AgentCommits \/ CmdDies
         \/ CodexExits

User == \/ \E w \in Works : UserCommits(w)
        \/ UserRewinds \/ UserPublishes \/ UserSwitches \/ UserReconfigures
        \/ \E s \in Sessions : UserStops(s) \/ UserResumes(s)
        \/ \E s \in Sessions : ResumeWorkerRuns(s)

Reconcile(p) ==
  \/ \E s \in Managed : Begin(p, s) \/ Skip(p, s)
  \/ RepairBoard(p) \/ FindCommit(p) \/ CheckCommit(p) \/ RemoteFails(p)
  \/ Fetch(p) \/ Push(p) \/ ProvePush(p) \/ Store(p) \/ Finish(p)
  \/ RepairChecks(p) \/ RepairLocks(p) \/ RepairAmends(p) \/ RepairIndex(p)
  \/ RepairMoves(p) \/ RepairFails(p)

Scheduler(p) ==
  \/ AcquireFinalizer(p) \/ ReleaseFinalizer(p) \/ SchedulesPlain(p)
  \/ SchedulerRuns(p) \/ PassEnds(p) \/ FinalizerCrashes(p)

Registry ==
  \/ \E s \in Managed : EnsureResume(s) \/ ClearPushResume(s)
                        \/ Acknowledge(s) \/ RetireCompleted(s)
  \/ WorkerSettles \/ WorkerDies \/ WorkerAbandoned \/ RowRecovered
  \/ LeaseLapses \/ DeadLeaseExpires

Next == Agent \/ User \/ Registry \/ (\E p \in Processes : Reconcile(p))
        \/ (\E p \in Finalizers : Scheduler(p))

Spec == Init /\ [][Next]_vars

\* A step of reconciliation that is not a failure of the remote.
Proceed(p) ==
  \/ \E s \in Managed : Begin(p, s) \/ Skip(p, s)
  \/ RepairBoard(p) \/ FindCommit(p) \/ CheckCommit(p) \/ Fetch(p) \/ Push(p)
  \/ ProvePush(p) \/ Store(p) \/ Finish(p)
  \/ RepairChecks(p) \/ RepairLocks(p) \/ RepairAmends(p) \/ RepairIndex(p)
  \/ RepairMoves(p) \/ RepairFails(p)

\* Live processes go on, a run ends (it has a time limit), dead workers are
\* recovered, and the scheduler's passes come back.  Neither users nor the
\* agent's own commands are obliged to anything.
Fairness ==
  /\ WF_vars(CodexExits) /\ WF_vars(WorkerSettles)
  /\ WF_vars(WorkerAbandoned) /\ WF_vars(RowRecovered)
  /\ WF_vars(DeadLeaseExpires)
  /\ WF_vars(DoneTrack \/ DoneMove \/ DoneFinish \/ ResealStore)
  /\ \A s \in Managed : /\ WF_vars(EnsureResume(s))
                         /\ WF_vars(ClearPushResume(s))
                         /\ SF_vars(Acknowledge(s))
                         /\ SF_vars(RetireCompleted(s))
  /\ \A p \in Processes : WF_vars(Proceed(p))
  /\ \A p \in Finalizers : /\ SF_vars(AcquireFinalizer(p))
                            /\ WF_vars(ReleaseFinalizer(p))
                            /\ WF_vars(SchedulesPlain(p))
                            /\ WF_vars(SchedulerRuns(p) \/ PassEnds(p))

FairSpec == Spec /\ Fairness

-----------------------------------------------------------------------------

CommitIds == 1 .. Len(object)
Trees == [done : SUBSET Managed, work : SUBSET Works, ord : BOOLEAN]

TypeOK ==
  /\ tip \in CommitIds /\ remote \in CommitIds /\ published \subseteq CommitIds
  /\ \A c \in CommitIds : Tree(c) \in Trees /\ Line(c) \subseteq CommitIds
  /\ index \subseteq Works /\ lock \in Finalizers \cup {None, "left"}
  /\ \A s \in Managed :
       /\ jstate[s] \in Pending \cup {"completed", "absent"}
       /\ seal[s] # None => /\ seal[s].parent \in CommitIds
                            /\ seal[s].tree \in Trees
       /\ oid[s] \in CommitIds \cup {None}
       /\ board[s] \in {"doing", "both", "twice", "done"}
  /\ \A s \in Sessions :
       ctl[s] \in {"none", "running", "resume", "queued", "stopped"}
  /\ run \in Sessions \cup {None} /\ wk \in {"none", "live", "dead"}
  /\ lease \in Processes \cup {None, "dead"} /\ flock \in Processes \cup {None}

\* A proven journal names one commit of the agent that carries the task's
\* trailer and has exactly the parent and the tree of the stored seal: a seal
\* is never replaced under a proof, nor a proof stored over a newer seal.
ProofMatchesSeal ==
  \A s \in Managed :
    jstate[s] \in {"push_pending", "completed"} =>
      /\ oid[s] # None /\ MatchesSeal(oid[s], s)
      /\ object[oid[s]].claim = s /\ object[oid[s]].by = "agent"

\* Work of another session that was never proven stays out of a proven task:
\* every agent commit between the start and the proven commit is the proven
\* commit of another completed session.
NoUnprovenWorkBelow ==
  \A s \in Managed :
    oid[s] # None =>
      \A c \in Line(oid[s]) \ {Base, oid[s]} :
        object[c].by = "agent" =>
          \E t \in Managed \ {s} : oid[t] = c /\ jstate[t] = "completed"

\* What a stored proof stands for, when seals are replaced, commits rewritten
\* and other sessions commit meanwhile.
ProofIsSound == ProofMatchesSeal /\ NoUnprovenWorkBelow

\* Commits, seals, proofs and completion as TaskDelivery sees them.
Delivery == INSTANCE TaskDelivery WITH
  Tasks <- Managed, Publishing <- PushMode,
  offers <- {[id |-> c, claim |-> object[c].claim,
              terms |-> [parent |-> object[c].parent,
                         tree |-> object[c].tree]] : c \in 1 .. Len(object)},
  terms <- seal, delivered <- oid, public <- published,
  accepted <- {s \in Managed : jstate[s] = "completed"}

\* The finalization of a task is a delivery in the sense of TaskDelivery:
\* sealed terms are revised only before a proof, one commit that meets them is
\* delivered, and acceptance is final and follows the publication.
IsDelivery == Delivery!Spec

\* A scheduler that holds the finalizer lease has the checkout to itself: no
\* Codex of the project is alive, also when its worker died before it.
NoFinalizerOverCodex == lease \in Finalizers => ~child

\* A finished task is recorded as one success, by its worker or by the
\* acknowledgement, also when the worker died in between.
OneSuccess == \A s \in Managed : wins[s] <= 1 /\ (acked[s] => wins[s] = 1)

\* Faults come to an end.
Faults == LeaseLapses \/ WorkerDies \/ (\E p \in Processes : RemoteFails(p))
          \/ (\E p \in Finalizers : FinalizerCrashes(p))
          \/ (\E p \in Processes : Push(p) /\ pc'[p] # "refetch")
Calm == <>[][~Faults]_vars

\* What CLT needs to finish a task without the agent or the user.
Provable(s) ==
  \/ jstate[s] = "completed"
  \/ jstate[s] = "commit_pending" /\ \E c \in TaskCommits(s) : Accepted(s, c)
  \/ /\ jstate[s] = "push_pending" /\ Accepted(s, oid[s])
     /\ upstream /\ (remote \in Line(oid[s]) \/ Proves(remote, s))

\* A task whose commit is there and stays provable is completed, and told so
\* to the user, after any finite number of crashes, lost leases, dead workers
\* and lost answers of the remote.
ProvableIsCompleted ==
  Calm => \A s \in Managed : <>[]Provable(s) => <>[]acked[s]

\* A task commit whose only fault is the order of the Done list.
Repairable(s) ==
  /\ jstate[s] = "commit_pending" /\ ctl[s] # "stopped" /\ Room
  /\ \E c \in TaskCommits(s) :
       OnlyOrder(c, s) /\ tip = c /\ Retained(s, c) /\ Unpublished(c)


\* What repair.rs:363 says of a busy index: the repair can be retried when the
\* owner of the lock is gone, killed or not.
KilledRepairRetries ==
  Calm => \A s \in Managed :
    [](Repairable(s) => <>(~Repairable(s) \/ jstate[s] = "completed"))

\* An exact session that was handed back to automation is run.
HandbackRuns ==
  Calm => \A s \in Unmanaged : ctl[s] = "resume" ~> ctl[s] # "resume"

\* A repair never drops a commit but the one it repairs.
RepairKeepsOthers ==
  [][\A p \in Finalizers :
       pc[p] = "ref" /\ tip' # tip /\ pc'[p] = "loop" =>
         Line(tip) \ {poid[p]} \subseteq object'[tip'].line]_vars

=============================================================================
