----------------------------- MODULE GitJournal ------------------------------
(***************************************************************************)
(* The Git journal of a Codex session before its work is sealed, and the   *)
(* task on the board it stands for.  A run freezes the checkout as its     *)
(* launch boundary (managed_git.rs), the registration of its session turns *)
(* the boundary into a journal (sessions_runs.rs), `clt doing' binds the   *)
(* journal to a task (application.rs), and whatever ends the attempt       *)
(* retires the journal: the worker, a scheduler pass, the user who deletes *)
(* or completes the task, or a recovery that puts the task back into Todo  *)
(* (git_journals.rs, git_recovery.rs).  From the seal on the journal is    *)
(* the one of GitFinalization; here it is sealed, then push_pending or     *)
(* completed.                                                              *)
(*                                                                         *)
(* A board maps each task to its set of entries: one, or the two that a    *)
(* crash in a move between Markdown files leaves.  A commit is the board   *)
(* it holds.  A copy of a journal row that equals the row has its          *)
(* generation: every write changes a field that no later write restores.   *)
(***************************************************************************)
EXTENDS Integers, Sequences, FiniteSets

CONSTANTS
  Sessions,    \* Codex conversations
  Scenarios,   \* inputs and bounds, one of which a behaviour starts with
  None

VARIABLES
  env,                \* the scenario, which never changes
  tree, tip, branch,  \* commits; the tip of each branch; the one checked out
  board,              \* the task board in the worktree
  mode, smode,        \* Git mode of the project; session_git_modes
  launch,             \* agent_git_launch_states
  jr,                 \* git_finalizations, by session
  ctl,                \* session_controls, by session
  next, wk,           \* the next run token; the active worker
  codex,              \* live Codex processes
  lease,              \* the project lease and whether its holder is dead
  hist,               \* the runs table
  op,                 \* the holder of the board lock, with its next steps
  plan,               \* the recovery that the user or a pass has in mind
  pass, left,         \* the scheduler's pass; journals it has yet to repair
  closed              \* history: attempts that were ended and not resumed

Events == {"add", "commit", "switch", "unlink", "stop", "resume", "mode",
           "delete", "complete", "recover", "restart", "rebuild", "conflict",
           "reconcile", "die", "crash"}

ASSUME JournalScenarios ==
  \A x \in Scenarios :
    /\ x.inputs \subseteq Events /\ x.first \subseteq x.tasks
    /\ {x.gitOn, x.folder} \subseteq BOOLEAN
    /\ {x.runs, x.hist, x.commits} \subseteq Nat \ {0}
    /\ None \notin Sessions \cup x.tasks \cup Nat

Inputs     == env.inputs   \* the user actions and faults that may happen
Tasks      == env.tasks    \* the tasks that may be on the board
First      == env.first    \* those there, and committed, from the start
GitOn      == env.gitOn    \* the Git mode at first is another than off
Folder     == env.folder   \* a file per task: a move is one rename
MaxRuns    == env.runs     \* bounds: the runs that are dispatched,
MaxHist    == env.hist     \* the rows of the runs table
MaxCommits == env.commits  \* and the commits

git   == <<tree, tip, branch>>
modes == <<mode, smode>>
run   == <<next, wk, codex>>
sched == <<pass, left>>
vars  == <<env, git, board, modes, launch, jr, ctl, run, lease, hist, op, plan,
           sched, closed>>

-----------------------------------------------------------------------------
(* The board, the checkout and the rows.                                   *)

Entry(col, link, stop) == [col |-> col, link |-> link, stop |-> stop]
Active   == {"todo", "doing"}
Branches == {"main", "side"}
HeadOid  == tip[branch]

\* linked_tasks, collect_codex_session_tasks_in_board: task and entry.
Linked(s) == {x \in UNION {{t} \X board[t] : t \in Tasks} : x[2].link = s}
One(S)    == Cardinality(S) = 1
The(S)    == CHOOSE x \in S : TRUE

\* task_entry_is_ready; blocked and manual tasks are left out.
Ready(e)  == e.col = "todo" /\ ~e.stop
ReadyTodo == {x \in UNION {{t} \X board[t] : t \in Tasks} : Ready(x[2])}

\* git_ref_active_task_identity_count: the entries of t in commit c.
ActiveIn(c, t) == Cardinality({e \in tree[c][t] : e.col \in Active})

NoRow      == [st |-> "none", tok |-> None]
Queue      == 0                \* the token of a queued Git resume
RecTok(id) == MaxRuns + id     \* the token a recovery of run id leaves

Pending      == {"working", "sealed", "push_pending"}
JState(s)    == IF jr[s] = None THEN "none" ELSE jr[s].st
IsPending(s) == JState(s) \in Pending
Unbound(s)   == JState(s) = "working" /\ jr[s].task = None

\* session_controls without a process, or no row at all.
Idle(s) == ctl[s].st \in {"none", "stopped", "resume"}

Lease(h) == [h |-> h, dead |-> FALSE]

\* The records that stand where there may also be none.
JournalRows(tasks, own, start) ==
  [st : Pending \cup {"completed", "cancelled"}, task : tasks \cup {None},
   own : {None} \cup own, start : start, branch : Branches,
   why : {None, "unused", "obsolete", "orphan", "complete", "delete", "branch",
          "restart"}]
Launches(runs) == [run : runs, start : Nat, branch : Branches]
Workers(runs) ==
  [run : runs, s : Sessions \cup {None}, want : Sessions \cup {None},
   sel : {"resume", "doing", "todo"}, git : BOOLEAN,
   at : {"start", "bound", "live"}, start : Nat \cup {None},
   branch : Branches \cup {None}, up : BOOLEAN]

StepNames == {"attach", "mark", "copy", "drop", "rename", "remove", "clean",
              "release"}
CommandRows(tasks) ==
  [by : {"user", "pass", "worker", "agent"}, s : Sessions \cup {None},
   t : tasks \cup {None},
   e : {None} \cup [col : Active \cup {"done"}, link : Sessions \cup {None},
                    stop : BOOLEAN],
   to : {None, "done"} \cup Active, todo : Seq(StepNames)]

ASSUME NoneIsNoRow ==
  /\ None \notin Launches(Nat) /\ None \notin Workers(Nat)
  /\ None \notin {"failure", "branch", "missing"}
  /\ None \notin [h : {"user", "pass", "run"}, dead : BOOLEAN]
  /\ \A x \in Scenarios :
       None \notin JournalRows(x.tasks, Nat, Nat) \cup CommandRows(x.tasks)

\* Mutant: the launch boundary is not copied.
JournalNoStart(task, own, start, br) ==
  [st |-> "working", task |-> task, own |-> own, start |-> None,
   branch |-> None, why |-> None]

Journal(task, own, start, br) ==
  [st |-> "working", task |-> task, own |-> own, start |-> start,
   branch |-> br, why |-> None]
Cancelled(j, why) == [j EXCEPT !.st = "cancelled", !.own = None, !.why = why]

Row(s, st, tok) == ctl' = [ctl EXCEPT ![s] = [st |-> st, tok |-> tok]]
ClearRow(s)     == ctl' = [ctl EXCEPT ![s] = NoRow]

Failed == {"failure", "conflict", "missing", "branch"}
RunsOf(s) == {i \in 1..Len(hist) : hist[i].s = s}
Newest(S) == IF S = {} THEN 0 ELSE CHOOSE i \in S : \A j \in S : j <= i

\* latest_run_for_codex_session_blocking, run_for_worker_token_blocking.
SessionRun(s) == Newest(RunsOf(s))
OwnerRun(j)   == IF j = None THEN 0 ELSE IF j.own = None THEN 0
                 ELSE Newest({i \in 1..Len(hist) : hist[i].tok = j.own})

\* `was' is history: the conversation the run had, which its row need not name.
Report(s, res, tok, was) ==
  hist' = Append(hist, [s |-> s, res |-> res, tok |-> tok, was |-> was])

-----------------------------------------------------------------------------
(* The user, Git and the project's settings.                               *)

UserAdds(t) ==
  /\ "add" \in Inputs /\ op = None
  /\ board[t] = {} /\ \A c \in 1..Len(tree) : tree[c][t] = {}
  /\ board' = [board EXCEPT ![t] = {Entry("todo", None, FALSE)}]
  /\ UNCHANGED <<env, git, modes, launch, jr, ctl, run, lease, hist, op, plan,
                 sched, closed>>

\* checkpoint_agent_git_task_board_before_launch: only a changed board.
Checkpoint ==
  IF board = tree[HeadOid] THEN UNCHANGED <<tree, tip>>
  ELSE /\ Len(tree) < MaxCommits
       /\ tree' = Append(tree, board)
       /\ tip' = [tip EXCEPT ![branch] = Len(tree) + 1]

UserCommits ==
  /\ "commit" \in Inputs /\ Len(tree) < MaxCommits
  /\ tree' = Append(tree, board)
  /\ tip' = [tip EXCEPT ![branch] = Len(tree) + 1]
  /\ UNCHANGED <<env, branch, board, modes, launch, jr, ctl, run, lease, hist,
                 op, plan, sched, closed>>

\* git switch takes a changed board along where both commits agree on it.
UserSwitches ==
  /\ "switch" \in Inputs /\ op = None
  /\ LET to == IF branch = "main" THEN "side" ELSE "main" IN
     /\ branch' = to
     /\ \/ tree[tip[to]] = tree[HeadOid] /\ UNCHANGED board
        \/ /\ tree[tip[to]] # tree[HeadOid] /\ board = tree[HeadOid]
           /\ board' = tree[tip[to]]
  /\ UNCHANGED <<env, tree, tip, modes, launch, jr, ctl, run, lease, hist, op,
                 plan, sched, closed>>

\* The marker of the conversation is edited out of the task text.
UserUnlinks(t, e) ==
  /\ "unlink" \in Inputs /\ op = None /\ e \in board[t] /\ e.link # None
  /\ board' = [board EXCEPT ![t] = (@ \ {e}) \cup {[e EXCEPT !.link = None]}]
  /\ UNCHANGED <<env, git, modes, launch, jr, ctl, run, lease, hist, op, plan,
                 sched, closed>>

UserStops(s) ==
  /\ "stop" \in Inputs
  /\ \/ ctl[s].st = "running" /\ Row(s, "stopreq", ctl[s].tok)
     \/ ctl[s].st = "resume" /\ Row(s, "stopped", ctl[s].tok)
  /\ UNCHANGED <<env, git, board, modes, launch, jr, run, lease, hist, op,
                 plan, sched, closed>>

UserResumes(s) ==
  /\ "resume" \in Inputs /\ ctl[s].st = "stopped"
  /\ Row(s, "resume", ctl[s].tok) /\ closed' = closed \ {s}
  /\ UNCHANGED <<env, git, board, modes, launch, jr, run, lease, hist, op,
                 plan, sched>>

\* set_project_git_mode: sessions of before keep the mode off.
UserSetsMode ==
  /\ "mode" \in Inputs /\ mode' = ~mode
  /\ smode' = [s \in Sessions |->
       IF /\ ~mode /\ smode[s] = "new" /\ jr[s] = None /\ launch = None
          /\ ctl[s].tok # None
       THEN "off" ELSE smode[s]]
  /\ UNCHANGED <<env, git, board, launch, jr, ctl, run, lease, hist, op, plan,
                 sched, closed>>

\* A registry rebuilt from its snapshot: no run, journals without owners,
\* their sessions queued; a snapshot of version 1 holds no session modes.
Rebuild(old) ==
  /\ "rebuild" \in Inputs /\ wk = None /\ codex = {} /\ launch = None
  /\ pass = "idle" /\ op = None
  /\ jr' = [s \in Sessions |-> IF jr[s] = None THEN None
                               ELSE [jr[s] EXCEPT !.own = None]]
  /\ ctl' = [s \in Sessions |->
       IF JState(s) \in {"working", "sealed"}
       THEN [st |-> "resume", tok |-> Queue]
       ELSE IF JState(s) = "push_pending" \/ ctl[s].st = "none" THEN NoRow
       ELSE [st |-> "stopped", tok |-> None]]
  /\ smode' = IF old THEN [s \in Sessions |-> "new"] ELSE smode
  /\ lease' = None /\ hist' = <<>>
  /\ UNCHANGED <<env, git, board, mode, launch, run, op, plan, sched, closed>>

-----------------------------------------------------------------------------
(* Work under the board lock: steps on one entry, each a write of its own. *)
(* The lock goes with its process; whatever was written stays.             *)

\* Mutant: the source is removed before the destination is written.
MoveSourceFirst == <<"drop", "copy">>

\* move_task_without_reordering: the destination first, then the source.
Move == IF Folder THEN <<"rename">> ELSE <<"copy", "drop">>

Steps(kind, e) ==
  CASE kind = "activate" -> <<"attach">> \o Move
    [] kind \in {"move", "done"} -> Move
    [] kind = "complete" -> Move \o <<"release">>
    [] kind = "delete"   -> <<"remove", "release">>
    [] kind = "relink"   -> <<"attach">>
    [] kind = "dedup"    -> <<"remove">>
    [] kind = "retire"   -> <<"release">>
    [] kind = "recover"  -> <<"mark">>
                            \o (IF e.col = "todo" THEN <<>> ELSE Move)
                            \o <<"clean", "release">>

\* by: user, pass, worker or the agent in a Codex; t and e: the entry.
Op(kind, by, s, t, e, to) ==
  [by |-> by, s |-> s, t |-> t, e |-> e, to |-> to, todo |-> Steps(kind, e)]

Starts(o) == op = None /\ op' = o
OpDone(e) == op' = IF Len(op.todo) = 1 THEN None
                   ELSE [op EXCEPT !.todo = Tail(@), !.e = e]
Put(old, new) == board' = [board EXCEPT ![op.t] = (@ \ old) \cup new]
At(step) == IF op = None THEN FALSE ELSE op.todo[1] = step
HeldBy(by) == IF op = None THEN FALSE ELSE op.by = by

BoardStep ==
  /\ LET e == op.e
         to == [e EXCEPT !.col = op.to]
         linked == [e EXCEPT !.link = op.s]
         marked == [e EXCEPT !.stop = TRUE] IN
     \/ At("attach") /\ Put({e}, {linked}) /\ OpDone(linked)
     \/ At("mark")   /\ Put({e}, {marked}) /\ OpDone(marked)
     \/ At("copy")   /\ Put({}, {to}) /\ OpDone(e)
     \/ At("drop")   /\ Put({e}, {}) /\ OpDone(e)
     \/ At("rename") /\ Put({e}, {to}) /\ OpDone(to)
     \/ At("remove") /\ Put({e}, {}) /\ OpDone(e)
     \/ /\ At("clean")
        /\ LET old == The({x \in board[op.t] : x.col = "todo"
                                               /\ x.link = op.s})
           IN Put({old}, {Entry("todo", None, FALSE)})
        /\ OpDone(e)
  /\ UNCHANGED <<env, git, modes, launch, jr, ctl, run, lease, hist, plan,
                 sched, closed>>

\* release_lease_blocking; a session-scoped deletion has no lease.
OpReleases ==
  /\ At("release") /\ OpDone(op.e)
  /\ lease' = IF lease = Lease(op.by) THEN None ELSE lease
  /\ UNCHANGED <<env, git, board, modes, launch, jr, ctl, run, hist, plan,
                 sched, closed>>

\* The process of the user or of the pass dies; its lease is left to expire.
Widow(by) == IF lease # None /\ lease.h = by
             THEN [lease EXCEPT !.dead = TRUE] ELSE lease

UserDies ==
  /\ "crash" \in Inputs /\ HeldBy("user")
  /\ op' = None /\ lease' = Widow("user")
  /\ UNCHANGED <<env, git, board, modes, launch, jr, ctl, run, hist, plan,
                 sched, closed>>

PassDies ==
  /\ "crash" \in Inputs /\ (pass # "idle" \/ HeldBy("pass"))
  /\ op' = IF HeldBy("pass") THEN None ELSE op
  /\ lease' = Widow("pass")
  /\ pass' = "idle" /\ left' = {} /\ plan' = [plan EXCEPT !["pass"] = None]
  /\ UNCHANGED <<env, git, board, modes, launch, jr, ctl, run, hist, closed>>

\* clean_expired_leases: the scheduler drops it before it looks at projects.
LeaseExpires ==
  /\ lease # None /\ lease.dead /\ lease' = None
  /\ UNCHANGED <<env, git, board, modes, launch, jr, ctl, run, hist, op, plan,
                 sched, closed>>

-----------------------------------------------------------------------------
(* The user ends an attempt: `clt done' or `clt delete' on its task.       *)

\* The project fence of cancel_idle_working_git_finalization.
ProjectIdle ==
  /\ wk = None /\ launch = None /\ lease = None
  /\ \A s \in Sessions : Idle(s)

\* can_delete_idle_task: every live worker belongs to another session.
SessionIdle(s) ==
  /\ Idle(s) /\ launch = None
  /\ wk # None => /\ wk.run # jr[s].own /\ wk.want # s /\ ctl[s].tok # wk.run
                  /\ wk.want # None \/ \E x \in Sessions \ {s} :
                                          ctl[x].tok = wk.run
  /\ lease # None => lease.h = "run" /\ wk # None

\* mutate_user_managed_task_with_store_after_lock.
UserEnds(kind, t, e) ==
  LET s == e.link
      to == IF kind = "complete" THEN "done" ELSE e.col
      done(k) == Starts(Op(k, "user", s, t, e, to)) IN
  /\ kind \in Inputs /\ e \in board[t] /\ (kind = "complete" => e.col # "done")
  /\ \/ /\ (IF s = None THEN TRUE ELSE ~IsPending(s))
        /\ done(IF kind = "complete" THEN "move" ELSE "dedup")
        /\ UNCHANGED <<jr, ctl, lease, closed>>
     \/ /\ s # None /\ JState(s) = "working" /\ done(kind)
        /\ \/ kind = "delete" /\ SessionIdle(s) /\ UNCHANGED lease
           \/ kind = "complete" /\ ProjectIdle /\ lease' = Lease("user")
        /\ jr' = [jr EXCEPT ![s] = Cancelled(@, kind)]
        /\ closed' = closed \cup {s}
        /\ IF kind = "delete" THEN Row(s, "stopped", None) ELSE ClearRow(s)
  /\ UNCHANGED <<env, git, board, modes, launch, run, hist, plan, sched>>

-----------------------------------------------------------------------------
(* A worker: it prepares the boundary, releases Codex, registers the       *)
(* session that Codex announces and settles what is left of the journal.   *)

\* verify_agent_git_start_state_unchanged.
Unchanged(b) == b.start = HeadOid /\ b.branch = branch

\* reclaim_unchanged_git_launch_state: its worker is terminal, no row has it.
Reclaimable ==
  launch # None => /\ Unchanged(launch)
                   /\ \A s \in Sessions : ctl[s].tok # launch.run

\* require_agent_git_todo_candidates_committed, on the board just committed.
TodoCommitted ==
  /\ ReadyTodo # {}
  /\ \A x \in ReadyTodo :
       Cardinality({e \in board[x[1]] : e.col \in Active}) = 1

WorkerUp(at) == wk # None /\ wk.up /\ wk.at = at

\* The run is recorded, the worker completed and its lease released.
WorkerEnds(s, res) ==
  /\ Len(hist) < MaxHist /\ Report(s, res, wk.run, wk.s)
  /\ wk' = None /\ lease' = None

PrepareFresh ==
  /\ WorkerUp("start") /\ wk.want = None /\ wk.s = None
  /\ \/ /\ Reclaimable /\ launch' = None
        /\ \/ /\ ~wk.git
              /\ codex' = codex \cup {[s |-> None, run |-> wk.run, git |-> FALSE]}
              /\ wk' = [wk EXCEPT !.at = "live"] /\ UNCHANGED <<tree, tip>>
           \/ /\ wk.git /\ op = None /\ TodoCommitted /\ Checkpoint
              /\ wk' = [wk EXCEPT !.at = "bound", !.start = tip'[branch],
                                  !.branch = branch]
              /\ UNCHANGED codex
        /\ UNCHANGED <<lease, hist>>
     \/ /\ IF Reclaimable THEN wk.git /\ op = None /\ ~TodoCommitted ELSE TRUE
        /\ launch' = IF Reclaimable THEN None ELSE launch
        /\ WorkerEnds(None, "failure") /\ UNCHANGED <<tree, tip, codex>>
  /\ UNCHANGED <<env, branch, board, modes, jr, ctl, next, op, plan, sched,
                 closed>>

\* record_git_launch_state, then the gated Codex is released.
RecordLaunch ==
  /\ WorkerUp("bound")
  /\ \/ /\ Unchanged(wk) /\ launch = None
        /\ launch' = [run |-> wk.run, start |-> wk.start, branch |-> wk.branch]
        /\ codex' = codex \cup {[s |-> None, run |-> wk.run, git |-> TRUE]}
        /\ wk' = [wk EXCEPT !.at = "live"] /\ UNCHANGED <<lease, hist>>
     \/ /\ ~(Unchanged(wk) /\ launch = None)
        /\ WorkerEnds(None, "failure") /\ UNCHANGED <<launch, codex>>
  /\ UNCHANGED <<env, git, board, modes, jr, ctl, next, op, plan, sched,
                 closed>>

\* mark_session_running: the boundary becomes the journal of the session.
Register(s) ==
  /\ WorkerUp("live") /\ wk.s = None
  /\ LET c == [s |-> None, run |-> wk.run, git |-> wk.git] IN
     /\ c \in codex
     /\ codex' = (codex \ {c}) \cup {[c EXCEPT !.s = s]}
  /\ jr[s] = None /\ smode[s] = "new" /\ ctl[s] = NoRow
  /\ Linked(s) = {} /\ SessionRun(s) = 0
  /\ \/ /\ ~wk.git /\ smode' = [smode EXCEPT ![s] = "off"]
        /\ UNCHANGED <<jr, launch>>
     \/ /\ wk.git /\ smode' = [smode EXCEPT ![s] = "commit"]
        /\ jr' = [jr EXCEPT ![s] = Journal(None, wk.run, launch.start,
                                           launch.branch)]
        /\ launch' = None
  /\ Row(s, "running", wk.run) /\ wk' = [wk EXCEPT !.s = s]
  /\ UNCHANGED <<env, git, board, mode, next, lease, hist, op, plan, sched,
                 closed>>

\* session_can_enable_git and the linked Doing task it needs.
CanEnable(s) ==
  /\ launch = None /\ \A x \in Sessions : Idle(x)
  /\ One(Linked(s)) /\ \A x \in Linked(s) : x[2].col = "doing"
                          /\ Cardinality({e \in board[x[1]] :
                                            e.col \in Active}) = 1

\* validate_todo_session_start, before anything is prepared and again under
\* the board lock: the conversation of a Todo is at rest.
TodoStart(s) ==
  wk.sel = "todo" => /\ One(Linked(s)) /\ ctl[s] = NoRow
                     /\ JState(s) \in {"none", "working"}

\* enable_agent_git_for_resumed_session: a session of the mode off gets its
\* journal when the project has turned Git on.
EnableGit ==
  /\ WorkerUp("start") /\ wk.s # None /\ op = None
  /\ LET s == wk.s IN
     /\ mode /\ jr[s] = None /\ smode[s] = "off"
     /\ \/ /\ TodoStart(s) /\ CanEnable(s) /\ Checkpoint
           /\ jr' = [jr EXCEPT ![s] = Journal(The(Linked(s))[1], wk.run,
                                              tip'[branch], branch)]
           /\ smode' = [smode EXCEPT ![s] = "commit"]
           /\ UNCHANGED <<wk, lease, hist>>
        \/ /\ ~(TodoStart(s) /\ CanEnable(s)) /\ WorkerEnds(s, "failure")
           /\ UNCHANGED <<tree, tip, jr, smode>>
  /\ UNCHANGED <<env, branch, board, mode, launch, ctl, next, codex, op, plan,
                 sched, closed>>

\* Why a known session is not resumed: validate_todo_session_start,
\* verify_agent_git_resume_branch, a missing journal, a row that moved on.
Refusal(s) ==
  CASE ~TodoStart(s) -> "failure"
    [] jr[s] # None /\ jr[s].branch # branch -> "branch"
    [] jr[s] = None /\ mode /\ smode[s] # "off" -> "missing"
    [] ctl[s].st # (IF wk.sel = "resume" THEN "resume" ELSE "none")
         -> "failure"
    [] Cardinality(Linked(s)) > 1 /\ \E x \in Linked(s) : Ready(x[2])
         -> "failure"
    [] OTHER -> None

\* register_known_session, ensure_agent_git_working_record (an unbound
\* journal is adopted), bind_agent_git_working_task_identity (a bound one is
\* rotated to this run); a ready Todo goes to Doing before Codex is released.
ResumeKnown ==
  /\ WorkerUp("start") /\ wk.s # None /\ op = None
  /\ LET s == wk.s
         ready == {x \in Linked(s) : Ready(x[2])} IN
     /\ ~(mode /\ jr[s] = None /\ smode[s] = "off")
     /\ Refusal(s) = None
     /\ Row(s, "running", wk.run)
     /\ jr' = IF JState(s) # "working" THEN jr
              ELSE [jr EXCEPT ![s].own =
                      IF Unbound(s) \/ Linked(s) # {} THEN wk.run ELSE @]
     /\ codex' = codex \cup {[s |-> s, run |-> wk.run, git |-> jr[s] # None]}
     /\ wk' = [wk EXCEPT !.at = "live"]
     /\ IF ready = {} THEN UNCHANGED op
        ELSE LET x == The(ready) IN
             Starts(Op("move", "worker", s, x[1], x[2], "doing"))
  /\ UNCHANGED <<env, git, board, modes, launch, next, lease, hist, plan,
                 sched, closed>>

ResumeRefused ==
  /\ WorkerUp("start") /\ wk.s # None /\ op = None
  /\ ~(mode /\ jr[wk.s] = None /\ smode[wk.s] = "off")
  /\ Refusal(wk.s) # None /\ WorkerEnds(wk.s, Refusal(wk.s))
  /\ UNCHANGED <<env, git, board, modes, launch, jr, ctl, next, codex, op,
                 plan, sched, closed>>

\* The Codex process of a run ends, and with it a command of its agent.
CodexExits(c) ==
  /\ codex' = codex \ {c}
  /\ op' = IF HeldBy("agent") /\ op.s = c.s THEN None ELSE op
  /\ UNCHANGED <<env, git, board, modes, launch, jr, ctl, next, wk, lease,
                 hist, plan, sched, closed>>

\* reconcile_agent_git_finalization, as far as GitFinalization takes it.
Reconciled(j) ==
  IF j = None THEN {None}
  ELSE {j} \cup {[j EXCEPT !.st = x] :
                   x \in IF j.st = "sealed" THEN {"push_pending", "completed"}
                         ELSE IF j.st = "push_pending" THEN {"completed"} ELSE {}}

\* finalize_agent_job on the journal: the new journal, the outcome and
\* whether the session is kept for an exact retry.
Settlement(s, j, ok) ==
  LET res == IF ok THEN "idle" ELSE "failure"
      st == IF j = None THEN "none" ELSE j.st
      out(x, r, keep) == [j |-> x, res |-> r, keep |-> keep]
      retry == wk.sel = "resume" /\ ~ok IN
  CASE st = "working" /\ Linked(s) = {} /\ (ok \/ j.task = None) ->
         IF j.own = wk.run THEN out(Cancelled(j, "unused"), res, retry)
         ELSE out(j, "failure", TRUE)
    [] st \in {"working", "sealed"} /\ ~(st = "working" /\ Linked(s) = {}
                                         /\ (ok \/ j.task = None)) ->
         out(j, "failure", TRUE)
    [] st = "push_pending" -> out(j, "failure", FALSE)
    [] st = "completed" -> out(j, "success", FALSE)
    [] OTHER -> out(j, res, retry)

WorkerSettles(ok) ==
  /\ WorkerUp("live") /\ ~HeldBy("worker")
  /\ \A c \in codex : c.run # wk.run
  /\ LET s == wk.s IN
     \/ /\ s = None /\ WorkerEnds(None, IF ok THEN "idle" ELSE "failure")
        /\ UNCHANGED <<jr, ctl>>
     \/ /\ s # None /\ ctl[s] = [st |-> "stopreq", tok |-> wk.run]
        /\ Row(s, "stopped", wk.run) /\ WorkerEnds(s, "stopped")
        /\ UNCHANGED jr
     \/ /\ s # None /\ ctl[s].st # "stopreq" /\ op = None
        /\ \E j \in Reconciled(jr[s]) :
             LET x == Settlement(s, j, ok) IN
             /\ jr' = [jr EXCEPT ![s] = x.j]
             /\ IF x.keep THEN Row(s, "resume", wk.run) ELSE ClearRow(s)
             /\ \E r \in {x.res} \cup
                    (IF "conflict" \in Inputs /\ ~ok /\ x.res = "failure"
                        /\ wk.want # None
                     THEN {"conflict"} ELSE {}) : WorkerEnds(s, r)
  /\ UNCHANGED <<env, git, board, modes, launch, next, codex, op, plan, sched,
                 closed>>

WorkerDies ==
  /\ "die" \in Inputs /\ wk # None /\ wk.up
  /\ wk' = [wk EXCEPT !.up = FALSE]
  /\ op' = IF HeldBy("worker") THEN None ELSE op
  /\ UNCHANGED <<env, git, board, modes, launch, jr, ctl, next, codex, lease,
                 hist, plan, sched, closed>>

\* A boundary that no session has consumed holds its worker until the Codex
\* that was released with it is reaped.
Reaped == launch # None /\ launch.run = wk.run =>
            \A c \in codex : c.run # wk.run

\* abandon_worker: its run is recorded too, without a session.
Abandon ==
  /\ wk # None /\ ~wk.up /\ Reaped /\ WorkerEnds(None, "failure")
  /\ UNCHANGED <<env, git, board, modes, launch, jr, ctl, next, codex, op, plan,
                 sched, closed>>

\* Mutant: the Codex process is not looked at.
NoCodexCheck(s) == TRUE

NoCodex(s) == \A c \in codex : c.s # s

\* recover_orphaned_session: no worker and no Codex behind the row.
RowRecovered(s) ==
  /\ ctl[s].st \in {"running", "stopreq"}
  /\ wk # None => wk.run # ctl[s].tok
  /\ NoCodex(s)
  /\ Row(s, IF ctl[s].st = "running" THEN "resume" ELSE "stopped", ctl[s].tok)
  /\ UNCHANGED <<env, git, board, modes, launch, jr, run, lease, hist, op,
                 plan, sched, closed>>

-----------------------------------------------------------------------------
(* The agent in a registered Codex, through the clt command.               *)

\* running_session_for_automated_child.
RunsIn(c) == c.s # None /\ ctl[c.s] = [st |-> "running", tok |-> c.run]

\* effective_agent_git_mode.
Managed(s) ==
  CASE IsPending(s) -> TRUE
    [] jr[s] = None /\ smode[s] # "new" -> smode[s] = "commit"
    [] OTHER -> mode

\* move_task_to_doing_with_agent_git_journal, _with_agent_session.
AgentActivates(c, t, e) ==
  LET s == c.s IN
  /\ c \in codex /\ RunsIn(c) /\ e \in board[t] /\ Ready(e)
  /\ e.link \in {None, s}
  /\ \/ /\ Managed(s) /\ JState(s) = "working" /\ jr[s].own = c.run
        /\ Unchanged(jr[s]) /\ ActiveIn(jr[s].start, t) = 1
        /\ jr[s].task \in {None, t}
        /\ jr' = [jr EXCEPT ![s].task = t]
     \/ /\ ~Managed(s) /\ Linked(s) \subseteq {<<t, e>>} /\ UNCHANGED jr
  /\ Starts(Op("activate", "agent", s, t, e, "doing"))
  /\ UNCHANGED <<env, git, board, modes, launch, ctl, run, lease, hist, plan,
                 sched, closed>>

\* `clt done': the journal is sealed, then the task goes to Done.
AgentSeals(c) ==
  LET s == c.s IN
  /\ c \in codex /\ RunsIn(c) /\ One(Linked(s))
  /\ LET t == The(Linked(s))[1]
         e == The(Linked(s))[2] IN
     /\ e.col = "doing"
     /\ \/ /\ Managed(s) /\ JState(s) = "working" /\ jr[s].own = c.run
           /\ jr[s].task = t /\ jr[s].branch = branch
           /\ jr' = [jr EXCEPT ![s].st = "sealed"]
        \/ ~Managed(s) /\ UNCHANGED jr
     /\ Starts(Op("done", "agent", s, t, e, "done"))
  /\ UNCHANGED <<env, git, board, modes, launch, ctl, run, lease, hist, plan,
                 sched, closed>>

-----------------------------------------------------------------------------
(* Recovery: plan, then execute under the board lock.                      *)

\* An unfinished recovery of run id left its session stopped.
Interrupted(s, id) ==
  /\ JState(s) = "cancelled" /\ jr[s].why = "branch"
  /\ ctl[s] = [st |-> "stopped", tok |-> RecTok(id)]

Plan(s, id, restart, auto, tok) ==
  LET x == IF Linked(s) = {} THEN <<None, None>> ELSE The(Linked(s)) IN
  [s |-> s, t |-> x[1], e |-> x[2], run |-> id, j |-> jr[s],
   branch |-> branch, restart |-> restart, auto |-> auto, tok |-> tok]

\* plan_git_recovery, asked for one conversation.
GitPlan(s, auto) ==
  LET id == Len(hist)
      open == JState(s) \in {"working", "sealed"} /\ jr[s].branch # branch IN
  {p \in {Plan(s, id, FALSE, auto, None)} :
     /\ id > 0 /\ hist[id].res \in Failed /\ hist[id].s \in {None, s}
     /\ IF Linked(s) = {}
        THEN jr[s] # None /\ jr[s].branch # branch
             /\ (open \/ Interrupted(s, id))
        ELSE One(Linked(s)) /\ (IF jr[s] = None THEN hist[id].res = "missing"
                                ELSE open \/ Interrupted(s, id))}

\* Mutant: an attempt that is retired already is not restarted.
RestartPlanOpen(s, tok) ==
  LET id == IF SessionRun(s) # 0 THEN SessionRun(s) ELSE OwnerRun(jr[s]) IN
  {p \in {Plan(s, id, TRUE, FALSE, tok)} :
     One(Linked(s)) /\ JState(s) \in {"none", "working"} /\ id # 0}

\* plan_task_restart.
RestartPlan(s, tok) ==
  LET id == IF SessionRun(s) # 0 THEN SessionRun(s) ELSE OwnerRun(jr[s]) IN
  {p \in {Plan(s, id, TRUE, FALSE, tok)} :
     /\ One(Linked(s)) /\ JState(s) \in {"none", "working", "cancelled"}
     /\ id # 0}

\* writer_conflict_at_startup, of the last two runs of the session.
Conflicts(s) ==
  LET r == SessionRun(s)
      q == Newest(RunsOf(s) \ {r}) IN
  q # 0 /\ hist[r].res = "conflict" /\ hist[q].res = "conflict"

\* recover_writer_conflict_automatically, until it makes its plan.
ConflictFound(s) ==
  /\ ctl[s].st = "resume" /\ ctl[s].tok # None /\ Conflicts(s)
  /\ JState(s) \in {"none", "working"}

ConflictPlan(s) ==
  {p \in RestartPlan(s, ctl[s].tok) :
     /\ p.e.col \in Active /\ ~p.e.stop
     /\ p.j = None => smode[s] = "off"}

\* restart_preserves_other_git_work.
PreservesOthers(s) ==
  \A x \in Sessions \ {s} : IsPending(x) =>
     /\ JState(x) = "working" /\ One(Linked(x))
     /\ The(Linked(x))[2].col = "todo" /\ The(Linked(x))[2].stop

\* begin_missing_git_recovery: the run is still the one that was reviewed,
\* the journal is the very row, nothing else lives in the project.
BeginRun(p) ==
  /\ p.run \in 1..Len(hist)
  /\ IF p.restart
     THEN p.run = (IF SessionRun(p.s) # 0 THEN SessionRun(p.s)
                   ELSE OwnerRun(p.j))
     ELSE p.run = Len(hist) /\ hist[p.run].res \in Failed

\* Mutant: the journal may have moved on since the review.
BeginJournalAny(p) == p.j # None => jr[p.s] # None

BeginJournal(p) ==
  /\ jr[p.s] = p.j
  /\ p.j # None => p.j.st \in {"working", "cancelled"}
                              \cup (IF p.restart THEN {} ELSE {"sealed"})

BeginIdle(p) ==
  /\ wk = None /\ launch = None /\ lease = None
  /\ \A x \in Sessions \ {p.s} :
       IsPending(x) => p.restart /\ JState(x) = "working"
  /\ \A x \in Sessions :
       \/ ctl[x].st \in {"none", "stopped"}
       \/ /\ ctl[x].st = "resume"
          /\ x = p.s \/ (p.restart /\ JState(x) = "working")
  /\ p.auto => ctl[p.s].st = "resume"
  /\ p.tok # None =>
       /\ Conflicts(p.s) /\ ctl[p.s] = [st |-> "resume", tok |-> p.tok]
       /\ \/ hist[p.run].tok = p.tok
          \/ p.tok = Queue /\ p.j # None

\* execute_git_recovery: the board is as it was reviewed, then the fence.
CanExecute(p) ==
  /\ Linked(p.s) = (IF p.t = None THEN {} ELSE {<<p.t, p.e>>})
  /\ p.restart => PreservesOthers(p.s)
  /\ (p.j # None \/ p.restart) => p.branch = branch
  /\ BeginRun(p) /\ BeginJournal(p) /\ BeginIdle(p)

\* Only a missing journal lets a task in Done be; no task, nothing to move.
RecoverySteps(p) ==
  IF p.t = None \/ (p.e.col = "done" /\ p.j = None /\ ~p.restart)
  THEN "retire" ELSE "recover"

Executes(by) ==
  LET p == plan[by]
      s == p.s IN
  /\ p # None /\ op = None
  /\ plan' = [plan EXCEPT ![by] = None]
  /\ pass' = IF by = "pass" THEN "idle" ELSE pass
  /\ \/ /\ CanExecute(p)
        /\ Starts(Op(RecoverySteps(p), by, s, p.t, p.e, "todo"))
        /\ jr' = IF p.j = None \/ (p.restart /\ p.j.st = "cancelled") THEN jr
                 ELSE [jr EXCEPT ![s] = Cancelled(@, IF p.restart THEN "restart"
                                                     ELSE "branch")]
        /\ lease' = Lease(by) /\ Row(s, "stopped", RecTok(p.run))
        /\ closed' = closed \cup {s}
     \/ ~CanExecute(p) /\ UNCHANGED <<jr, lease, ctl, closed, op>>
  /\ UNCHANGED <<env, git, board, modes, launch, run, hist, left>>

UserPlans(s) ==
  /\ op = None /\ plan["user"] = None
  /\ \E p \in (IF "recover" \in Inputs THEN GitPlan(s, FALSE) ELSE {})
              \cup (IF "restart" \in Inputs THEN RestartPlan(s, None) ELSE {}) :
       plan' = [plan EXCEPT !["user"] = p]
  /\ UNCHANGED <<env, git, board, modes, launch, jr, ctl, run, lease, hist, op,
                 sched, closed>>

UserDeclines ==
  /\ plan["user"] # None /\ plan' = [plan EXCEPT !["user"] = None]
  /\ UNCHANGED <<env, git, board, modes, launch, jr, ctl, run, lease, hist, op,
                 sched, closed>>

-----------------------------------------------------------------------------
(* The scheduler's pass over the project.                                  *)

PassAt(stage) == pass = stage /\ ~HeldBy("pass")

\* Mutant: a session with a row is left to its next run.
AbandonedNoRow(s) ==
  Unbound(s) /\ ProjectIdle /\ Linked(s) = {} /\ ctl[s] = NoRow

\* retire_abandoned_unbound_git_journals: no task, or one that is Done.
Abandoned(s) ==
  /\ Unbound(s) /\ ProjectIdle
  /\ \/ Linked(s) = {} /\ jr[s].own # None
     \/ One(Linked(s)) /\ The(Linked(s))[2].col = "done"

\* Another session has completed the task of s on the same branch.
Replaced(s) ==
  /\ JState(s) = "working" /\ jr[s].task # None /\ Linked(s) = {}
  /\ LET E == board[jr[s].task] IN
     /\ One(E) /\ The(E).col = "done" /\ The(E).link # None
     /\ LET x == The(E).link IN
        /\ JState(x) = "completed" /\ jr[x].task = jr[s].task
        /\ jr[x].branch = jr[s].branch /\ jr[s].start <= jr[x].start

\* Mutant: a session with a row is left to its next run.
SupersededNoRow(s) == Replaced(s) /\ ProjectIdle /\ ctl[s] = NoRow

\* retire_superseded_working_git_journals.
Superseded(s) == Replaced(s) /\ ProjectIdle

\* A pass takes up a project that has no worker.
PassRetires ==
  /\ PassAt("idle") /\ wk = None /\ op = None /\ pass' = "plan"
  /\ LET S == {s \in Sessions : Abandoned(s) \/ Superseded(s)} IN
     /\ jr' = [s \in Sessions |-> IF s \in S THEN Cancelled(jr[s], "obsolete")
                                  ELSE jr[s]]
     /\ ctl' = [s \in Sessions |-> IF s \in S THEN NoRow ELSE ctl[s]]
  /\ UNCHANGED <<env, git, board, modes, launch, run, lease, hist, op, plan,
                 left, closed>>

\* recover_writer_conflict_automatically; an error ends the pass, a plan
\* that does not apply is passed over.
PassPlans ==
  /\ PassAt("plan") /\ op = None
  /\ LET found == {s \in Sessions : ConflictFound(s)} IN
     \/ \E s \in found : \E p \in ConflictPlan(s) :
          /\ plan' = [plan EXCEPT !["pass"] = p] /\ pass' = "exec"
     \/ /\ \E s \in found : RestartPlan(s, ctl[s].tok) = {}
        /\ pass' = "idle" /\ UNCHANGED plan
     \/ /\ \A s \in found : RestartPlan(s, ctl[s].tok) # {}
                            /\ ConflictPlan(s) = {}
        /\ pass' = "gate" /\ UNCHANGED plan
  /\ UNCHANGED <<env, git, board, modes, launch, jr, ctl, run, lease, hist, op,
                 left, closed>>

\* ensure_pending_git_finalization_resume_requested and
\* clear_autonomous_push_resume_request, over the pending journals.
Requeued(s) ==
  CASE JState(s) \in {"working", "sealed"} /\ ~Unbound(s)
       /\ ctl[s].st \in {"none", "resume"} -> [st |-> "resume", tok |-> Queue]
    [] JState(s) = "push_pending" /\ ctl[s].st = "resume" -> NoRow
    [] OTHER -> ctl[s]

\* GIT_FINALIZATION_NONBLOCKING_CONTROL.
Nonblocking(row, s) == \/ row.st \in {"none", "stopped"}
                       \/ row.st = "resume" /\ row.tok = Queue /\ IsPending(s)

\* The journals are requeued, then the finalizer's lease or no pass.
PassGates ==
  /\ PassAt("gate")
  /\ IF \A s \in Sessions : ~IsPending(s)
     THEN pass' = "decide" /\ UNCHANGED <<ctl, lease>>
     ELSE /\ ctl' = [s \in Sessions |-> Requeued(s)]
          /\ IF /\ wk = None /\ lease = None
                /\ \A s \in Sessions : Nonblocking(Requeued(s), s)
             THEN pass' = "fin" /\ lease' = Lease("pass")
             ELSE pass' = "idle" /\ UNCHANGED lease
  /\ UNCHANGED <<env, git, board, modes, launch, jr, run, hist, op, plan, left,
                 closed>>

\* A journal of another branch: reported once, then recovered without lease.
OffBranch == {s \in Sessions : JState(s) \in {"working", "sealed"}
                               /\ jr[s].branch # branch}

PassReports(s) ==
  /\ PassAt("fin") /\ s \in OffBranch /\ lease' = None
  /\ LET n == Len(hist) IN
     IF \/ n = MaxHist
        \/ n > 0 /\ hist[n].s = s /\ hist[n].res = "branch"
     THEN UNCHANGED hist ELSE Report(s, "branch", None, s)
  /\ pass' = "branch" /\ left' = {s}
  /\ UNCHANGED <<env, git, board, modes, launch, jr, ctl, run, op, plan,
                 closed>>

\* recover_changed_branch_automatically.
PassPlansBranch ==
  /\ PassAt("branch") /\ op = None /\ left' = {}
  /\ \E s \in left :
       LET P == {p \in GitPlan(s, TRUE) :
                   /\ ctl[s].st = "resume" /\ p.j # None
                   /\ p.t # None => ~p.e.stop} IN
       IF P = {} THEN pass' = "idle" /\ UNCHANGED plan
       ELSE pass' = "exec" /\ plan' = [plan EXCEPT !["pass"] = The(P)]
  /\ UNCHANGED <<env, git, board, modes, launch, jr, ctl, run, lease, hist, op,
                 closed>>

PassReconciles ==
  /\ PassAt("fin") /\ OffBranch = {}
  /\ \E f \in [Sessions -> UNION {Reconciled(jr[s]) : s \in Sessions}] :
       /\ \A s \in Sessions : f[s] \in Reconciled(jr[s])
       /\ jr' = f
       \* acknowledge_completed_git_finalization_session
       /\ ctl' = [s \in Sessions |->
                    IF jr[s] # f[s] /\ f[s].st = "completed"
                       /\ ctl[s].tok = Queue
                    THEN NoRow ELSE ctl[s]]
  /\ pass' = "repair"
  /\ left' = {s \in Sessions : JState(s) = "working" /\ ~Unbound(s)}
  /\ UNCHANGED <<env, git, board, modes, launch, run, lease, hist, op, plan,
                 closed>>

\* Mutant: a task that lost its link is left alone.
RepairLinked(s) == {}

\* repair_working_git_task_link: what it does to the entries of the journal.
Repair(s) ==
  LET t == jr[s].task
      act == {e \in board[t] : e.col \in Active}
      mine == {e \in act : e.link = s}
      held == ctl[s].st \in {"stopped", "stopreq"}
      pair == /\ Cardinality(mine) = 2 /\ {e.col : e \in mine} = Active
              /\ One({e.stop : e \in mine}) IN
  CASE One(mine) /\ Ready(The(mine)) /\ ~held ->
         {Op("move", "pass", s, t, The(mine), "doing")}
    [] pair ->
         {Op("dedup", "pass", s, t, e, None) : e \in
            {e \in mine : e.col = IF held \/ e.stop THEN "doing" ELSE "todo"}}
    [] mine = {} /\ One(act) /\ The(act).link = None ->
         {Op(IF Ready(The(act)) /\ ~held THEN "activate" ELSE "relink",
             "pass", s, t, The(act), "doing")}
    [] OTHER -> {}

PassRepairs(s) ==
  /\ PassAt("repair") /\ s \in left /\ op = None /\ left' = left \ {s}
  /\ IF Repair(s) = {} THEN UNCHANGED op ELSE op' = The(Repair(s))
  /\ UNCHANGED <<env, git, board, modes, launch, jr, ctl, run, lease, hist,
                 plan, pass, closed>>

PassReleases ==
  /\ PassAt("repair") /\ left = {} /\ lease' = None /\ pass' = "decide"
  /\ UNCHANGED <<env, git, board, modes, launch, jr, ctl, run, hist, op, plan,
                 left, closed>>

\* terminal_task_for_codex_session: a task of the session that may run.
MayRun(s) == \E x \in Linked(s) : x[2].col \in Active /\ ~x[2].stop

\* queued_resume_can_wait: a stop on the task outranks a queued resume.
Waits(s) == ctl[s].st = "resume"
            /\ \E x \in Linked(s) : x[2].col # "done" /\ x[2].stop

\* Mutant: a Doing task without a row is resumed whatever became of it.
InterruptedDoingAny(s) ==
  ctl[s] = NoRow /\ \E x \in Linked(s) : x[2].col = "doing"

\* interrupted_codex_session_in_doing.
InterruptedDoing(s) ==
  /\ ctl[s] = NoRow
  /\ \E x \in Linked(s) : x[2].col = "doing" /\ ~x[2].stop
  /\ ~(JState(s) = "cancelled" /\ jr[s].why \in {"complete", "delete"})

\* acquire_agent_job_stage: the lease and the worker of the new run.
Dispatch(sel, s, want) ==
  /\ next <= MaxRuns /\ wk = None /\ lease = None
  /\ next' = next + 1 /\ lease' = Lease("run")
  /\ wk' = [run |-> next, s |-> s, want |-> want, sel |-> sel, git |-> mode,
            at |-> "start", start |-> None, branch |-> None, up |-> TRUE]

\* The session of a pending journal goes first, a sealed one before others.
Sealed   == {s \in Sessions : JState(s) = "sealed"}
GitFirst == IF Sealed # {} THEN Sealed
            ELSE {s \in Sessions : JState(s) = "working" /\ MayRun(s)}
Queued   == {s \in Sessions : ctl[s].st = "resume" /\ ~Waits(s)}

\* A queued resume that is dropped instead of run: its task is Done, its
\* commit is proved, or nothing is left of it.
Obsolete(s) ==
  \/ /\ One(Linked(s)) /\ The(Linked(s))[2].col = "done"
     /\ ctl[s].tok # Queue /\ ~IsPending(s)
  \/ JState(s) = "completed" /\ ctl[s].tok = Queue
  \/ Linked(s) = {} /\ JState(s) \in {"none", "cancelled"}

\* A queued working session that lost its task is linked again first.
Unlinked(s) == /\ JState(s) = "working" /\ ~Unbound(s) /\ Linked(s) = {}
               /\ Repair(s) # {}

PassRelinks ==
  /\ PassAt("decide") /\ op = None /\ GitFirst = {}
  /\ \A s \in Sessions : JState(s) # "push_pending"
  /\ \E s \in Queued : Unlinked(s) /\ op' = The(Repair(s))
  /\ UNCHANGED <<env, git, board, modes, launch, jr, ctl, run, lease, hist,
                 plan, sched, closed>>

\* One launch per pass, in the order of the code; or none.
PassDecides ==
  /\ PassAt("decide") /\ pass' = "idle"
  /\ LET pushing == \E s \in Sessions : JState(s) = "push_pending"
         free == GitFirst = {} /\ Queued = {} /\ \A s \in Sessions : Idle(s)
         doing == {s \in Sessions : InterruptedDoing(s)} IN
     \/ \E s \in GitFirst : /\ ~pushing /\ ctl[s].st \in {"none", "resume"}
                            /\ Row(s, "resume", Queue)
                            /\ Dispatch("resume", s, s)
     \/ \E s \in Queued : /\ ~pushing /\ GitFirst = {} /\ ~Obsolete(s)
                          /\ ~Unlinked(s)
                          /\ Dispatch("resume", s, s) /\ UNCHANGED ctl
     \/ \E s \in Queued : /\ ~pushing /\ GitFirst = {} /\ Obsolete(s)
                          /\ wk = None /\ lease = None
                          /\ ClearRow(s) /\ UNCHANGED <<next, wk, lease>>
     \/ \E s \in doing : /\ ~pushing /\ free
                         /\ Dispatch("doing", s, s) /\ UNCHANGED ctl
     \/ \E x \in ReadyTodo : /\ ~pushing /\ free /\ doing = {}
                             /\ Dispatch("todo", x[2].link, None)
                             /\ UNCHANGED ctl
     \/ /\ \/ pushing \/ wk # None \/ lease # None \/ next > MaxRuns
           \/ \E s \in GitFirst : ctl[s].st \notin {"none", "resume"}
           \/ GitFirst = {} /\ Queued = {}
              /\ (~free \/ (doing = {} /\ ReadyTodo = {}))
        /\ UNCHANGED <<next, wk, lease, ctl>>
  /\ UNCHANGED <<env, git, board, modes, launch, jr, codex, hist, op, plan,
                 left, closed>>

\* `clt agent reconcile' on an unbound journal without an owner and a task.
CancelOrphan(s) ==
  /\ "reconcile" \in Inputs /\ op = None
  /\ Unbound(s) /\ jr[s].own = None /\ Linked(s) = {}
  /\ wk = None /\ lease = None
  /\ \A x \in Sessions : Nonblocking(ctl[x], x)
  /\ ctl[s].st = "stopped" => ctl[s].tok \in {None, Queue}
  /\ jr' = [jr EXCEPT ![s] = Cancelled(@, "orphan")] /\ ClearRow(s)
  /\ UNCHANGED <<env, git, board, modes, launch, run, lease, hist, op, plan,
                 sched, closed>>

-----------------------------------------------------------------------------
Init ==
  /\ env \in Scenarios
  /\ board = [t \in Tasks |-> IF t \in First THEN {Entry("todo", None, FALSE)}
                              ELSE {}]
  /\ tree = <<board>> /\ tip = [b \in Branches |-> 1] /\ branch = "main"
  /\ mode = GitOn /\ smode = [s \in Sessions |-> "new"]
  /\ launch = None /\ jr = [s \in Sessions |-> None]
  /\ ctl = [s \in Sessions |-> NoRow]
  /\ next = 1 /\ wk = None /\ codex = {} /\ lease = None /\ hist = <<>>
  /\ op = None /\ plan = [w \in {"user", "pass"} |-> None]
  /\ pass = "idle" /\ left = {} /\ closed = {}

PassNext ==
  \/ PassRetires \/ PassPlans \/ PassGates \/ PassPlansBranch
  \/ PassReconciles \/ PassReleases \/ PassDecides \/ PassRelinks
  \/ Executes("pass")
  \/ \E s \in Sessions : PassReports(s) \/ PassRepairs(s)

WorkerNext ==
  \/ PrepareFresh \/ RecordLaunch \/ EnableGit \/ ResumeKnown \/ ResumeRefused
  \/ Abandon
  \/ \E ok \in BOOLEAN : WorkerSettles(ok)
  \/ \E s \in Sessions : Register(s) \/ RowRecovered(s)

AgentNext ==
  \E c \in codex : \/ CodexExits(c) \/ AgentSeals(c)
                   \/ \E t \in Tasks : \E e \in board[t] :
                        AgentActivates(c, t, e)

UserNext ==
  \/ UserCommits \/ UserSwitches \/ UserSetsMode \/ UserDeclines
  \/ Executes("user")
  \/ \E s \in Sessions : \/ UserStops(s) \/ UserResumes(s) \/ UserPlans(s)
                         \/ CancelOrphan(s)
  \/ \E t \in Tasks : \/ UserAdds(t)
                      \/ \E e \in board[t] :
                           \/ UserUnlinks(t, e)
                           \/ UserEnds("complete", t, e)
                           \/ UserEnds("delete", t, e)

FaultNext == UserDies \/ PassDies \/ WorkerDies \/ \E old \in BOOLEAN : Rebuild(old)

Next == \/ BoardStep \/ OpReleases \/ LeaseExpires
        \/ PassNext \/ WorkerNext \/ AgentNext \/ UserNext \/ FaultNext

Spec == Init /\ [][Next]_vars

\* Every process goes on with what it does: the scheduler's passes, workers,
\* the holder of the board lock; Codex runs into its time limit.  Nothing is
\* asked of the user, of the agent's commands or of a fault.
Fairness == /\ WF_vars(BoardStep) /\ WF_vars(OpReleases)
            /\ WF_vars(LeaseExpires) /\ WF_vars(PassNext)
            /\ WF_vars(WorkerNext)
            /\ WF_vars(\E c \in codex : CodexExits(c))

FairSpec == Spec /\ Fairness

-----------------------------------------------------------------------------
(* Properties.                                                             *)

Rows == [st : {"none", "running", "stopreq", "stopped", "resume"},
         tok : {None} \cup 0..(MaxRuns + MaxHist)]
Journals == JournalRows(Tasks, 1..MaxRuns, 1..MaxCommits)
Entries == [col : Active \cup {"done"}, link : Sessions \cup {None},
            stop : BOOLEAN]

TypeOK ==
  /\ tip \in [Branches -> 1..Len(tree)] /\ Len(tree) <= MaxCommits
  /\ branch \in Branches /\ board \in [Tasks -> SUBSET Entries]
  /\ mode \in BOOLEAN /\ smode \in [Sessions -> {"new", "off", "commit"}]
  /\ jr \in [Sessions -> Journals \cup {None}] /\ ctl \in [Sessions -> Rows]
  /\ next \in 1..(MaxRuns + 1) /\ Len(hist) <= MaxHist
  /\ codex \subseteq [s : Sessions \cup {None}, run : 1..MaxRuns, git : BOOLEAN]
  /\ lease \in {None} \cup [h : {"user", "pass", "run"}, dead : BOOLEAN]
  /\ pass \in {"idle", "plan", "exec", "gate", "fin", "branch", "repair",
               "decide"}
  /\ left \subseteq Sessions /\ closed \subseteq Sessions

\* Whoever retires a journal, it is never the journal of a session whose
\* Codex is alive (the fences of git_journals.rs).
NoRetireUnderCodex ==
  [][\A c \in codex : c.s # None =>
       ~(IsPending(c.s) /\ jr'[c.s].st = "cancelled")]_vars

\* At most one pending journal is bound to a task.
OneAttemptPerTask ==
  \A s, x \in Sessions :
     IsPending(s) /\ IsPending(x) /\ jr[s].task # None
     /\ jr[s].task = jr[x].task => s = x

\* Whatever dies where, a task leaves the board only when the user deletes
\* it or switches to a branch that does not have it.
TaskIsKept ==
  [][\A t \in Tasks : board[t] # {} /\ board'[t] = {} =>
       \/ branch' # branch
       \/ op # None /\ op.by = "user" /\ op.todo[1] = "remove"]_vars

\* No Codex starts in a conversation whose attempt the user or a recovery
\* ended, unless the user resumes it.
NoUnaskedRun ==
  [][\A c \in codex' \ codex : c.s \notin closed]_vars

\* A recovery or restart of s was interrupted: its row and its task stopped.
InterruptedRecovery(s) ==
  /\ op = None /\ \E x \in Linked(s) : x[2].stop
  /\ ctl[s].st = "stopped" /\ ctl[s].tok \in {RecTok(i) : i \in 1..MaxHist}

CanRetry(s) == GitPlan(s, FALSE) \cup RestartPlan(s, None) # {}

\* A worker of s died, so that the row of its run does not name s.
LostRun(s) == \E i \in 1..Len(hist) : hist[i].was = s /\ hist[i].s # s

\* A recovery that was interrupted (git_recovery.rs) leaves one task that says it
\* is stopped: one entry on a folder board, and on a Markdown board two at times,
\* of which the user has to delete one.  An only entry can be restarted, or
\* recovered again, but for one case: the row of a dead worker's run has lost the
\* name of the conversation, and the last run is not what the recovery was for.
Retryable ==
  \A s \in Sessions : InterruptedRecovery(s) =>
    /\ \A x, y \in Linked(s) : x[1] = y[1]
    /\ Folder => One(Linked(s))
    /\ One(Linked(s)) /\ (~LostRun(s) \/ Interrupted(s, Len(hist))) => CanRetry(s)

\* What git_recovery.rs:694-695 and features.md:616-617 say without exception, of
\* a Markdown board and of a worker that died too: whatever an interrupted
\* recovery leaves can be recovered or restarted as it stands.
InterruptedCanRetry == \A s \in Sessions : InterruptedRecovery(s) => CanRetry(s)

\* A journal that was never bound to a task and whose session is linked nowhere.
TaskLess(s) == Unbound(s) /\ jr[s].own # None /\ Linked(s) = {}

\* A task-less journal does not fence its project for ever: it is bound or
\* retired, unless a launch boundary that no session consumed stays in its way.
AbandonedIsRetired ==
  \A s \in Sessions : (TaskLess(s) ~> ~Unbound(s)) \/ <>[](launch # None)

\* What scheduler.rs:1030-1033 says of every task-less journal: its project is
\* not skipped for ever.
TaskLessIsRetired == \A s \in Sessions : TaskLess(s) ~> ~Unbound(s)

\* A working attempt whose task another session has completed is retired.
ReplacedIsRetired == \A s \in Sessions : Replaced(s) ~> ~Replaced(s)

\* Finished work is not thrown away: a journal whose commit is verified is
\* never retired, and a sealed one only when the checkout has left its branch,
\* whatever restart, completion or recovery was reviewed before the seal.
WorkIsKept ==
  [][\A s \in Sessions :
       JState(s) # "none" /\ jr'[s].st = "cancelled" =>
       \/ JState(s) \in {"working", "cancelled"}
       \/ JState(s) = "sealed" /\ jr[s].branch # branch]_vars

\* The commit an attempt starts from has its task, once, in Todo or Doing:
\* the proof of the task commit compares with it.
JournalCoversTask ==
  \A s \in Sessions : IsPending(s) /\ jr[s].task # None =>
     One({e \in tree[jr[s].start][jr[s].task] : e.col \in Active})

\* A Codex that has not announced its session has its boundary on record.
BoundaryOfLive ==
  \A c \in codex : c.s = None /\ c.git => launch # None /\ launch.run = c.run

\* What an attempt rests on, whoever dies in between: a bound journal is the
\* only one of its task, the commit it starts from can prove the task, and a
\* Codex that has not announced its session still has the boundary its journal
\* is created from.  The first part needs a user who does not take the link of
\* a stopped session off its task between the repair and the choice of a pass,
\* by an edit or by switching to a commit without it.
AttemptIsSound == OneAttemptPerTask /\ JournalCoversTask /\ BoundaryOfLive
=============================================================================
