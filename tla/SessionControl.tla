--------------------------- MODULE SessionControl ---------------------------
(***************************************************************************)
(* Control of the Codex sessions of one project: the `session_controls'    *)
(* rows (agent/repositories/sessions_runs.rs) and everybody who writes     *)
(* them: the runner of an automated run and its supervisor (runner.rs,     *)
(* worker.rs), the user who stops a session or takes it over and the       *)
(* guardian that runs Codex interactively for it (session_control.rs,      *)
(* tui.rs), the replacement supervisor of an orphaned Codex                *)
(* (session_recovery.rs) and the scheduler that recovers abandoned rows    *)
(* (scheduler.rs, reconcile_stale_agent_session_controls).                 *)
(*                                                                         *)
(* A row and the project lease are written in one registry transaction     *)
(* (one step).  Time is abstract: a lease that is not renewed may expire   *)
(* at any moment, and a row may be old or recent when it is looked at.     *)
(***************************************************************************)
EXTENDS Integers, FiniteSets

CONSTANTS
  Sessions,    \* Codex session ids
  Runs,        \* automated launches: run token, child pid and lease holder
  Users,       \* one interactive attempt each: the provisional holder
  Guardian,    \* the guardian holder (and child pid) of a user's attempt
  Rescuers,    \* replacement supervisors, each with its own lease holder
  Schedulers,  \* processes that reconcile stale rows
  Scenarios,   \* casts and inputs, one of which a behaviour starts with
  None         \* SQL NULL

Guardians == {Guardian[u] : u \in Users}
Holders   == Runs \cup Users \cup Guardians \cup Rescuers

ASSUME SessionConstants ==
  /\ None \notin Sessions \cup Holders
  /\ \A x \in Scenarios :
       /\ x.inline \subseteq Runs /\ x.stall \subseteq Holders
       /\ x.modes \subseteq {"interrupt", "idle", "shared"}

\* Holder names carry the kind of their process, its pid and a generation.
ASSUME HolderNames ==
  /\ Runs \cap (Users \cup Guardians \cup Rescuers) = {}
  /\ Users \cap (Guardians \cup Rescuers) = {}
  /\ Guardians \cap Rescuers = {}
  /\ \A u, v \in Users : Guardian[u] = Guardian[v] => u = v

VARIABLES
  env,              \* the scenario, which never changes
  state, child, token, iholder, ilaunch,  \* session_controls, by session
  lease, expired,   \* the project's lease: its holder, and whether it is over
  workers,          \* the runs with an active agent_workers row
  rpc, sess, seen,  \* a runner: where it is, its session, the action it saw
  todo,             \* it was started for ready work, not for a queued session
  sup, codex,       \* its supervisor process and its Codex process group
  upc, usess, mode, \* a user's attempt: where it is, on what, how it began
  gpc, gchild, disp,\* its guardian, the guardian's Codex, what happens after
  xpc, xrun,        \* a replacement supervisor and the generation it attached
  snap,             \* what a scheduler read of a row and of the lease
  parked            \* history: sessions with a run, stopped on request and
                    \* not resumed since (a planned one rests as `stopped')

Cast     == env.cast    \* the sessions and processes that take part
Inline   == env.inline  \* runs without an agent_workers row (Git off)
Modes    == env.modes   \* the ways users open a session
Mortal   == env.mortal  \* the processes that may be killed
MayStall == env.stall   \* holders that may live on without renewing a lease

rows  == <<state, child, token, iholder, ilaunch>>
own   == <<lease, expired>>
runs  == <<rpc, sess, seen, todo, sup, codex>>
users == <<upc, usess, mode, gpc, gchild, disp>>
resc  == <<xpc, xrun>>
vars  == <<env, rows, own, workers, runs, users, resc, snap, parked>>

-----------------------------------------------------------------------------
(* Rows, leases and processes.                                             *)

RowStates == {"none", "running", "stop_requested", "interrupt_requested",
              "ready_interactive", "interactive", "resume_requested",
              "stopped"}
Automated == {"running", "stop_requested", "interrupt_requested"}

\* Mutant: the two interactive columns are swapped.
SetRowSwapped(s, st, ch, tk, h, l) ==
  /\ state'   = [state EXCEPT ![s] = st]
  /\ child'   = [child EXCEPT ![s] = ch]
  /\ token'   = [token EXCEPT ![s] = tk]
  /\ iholder' = [iholder EXCEPT ![s] = l]
  /\ ilaunch' = [ilaunch EXCEPT ![s] = h]

\* One UPDATE, INSERT or DELETE ("none") of a row.
SetRow(s, st, ch, tk, h, l) ==
  /\ state'   = [state EXCEPT ![s] = st]
  /\ child'   = [child EXCEPT ![s] = ch]
  /\ token'   = [token EXCEPT ![s] = tk]
  /\ iholder' = [iholder EXCEPT ![s] = h]
  /\ ilaunch' = [ilaunch EXCEPT ![s] = l]

DeleteRow(s) == SetRow(s, "none", None, None, None, None)

\* A row at rest: state, no process, no interactive owner; the token stays.
Rest(s, st) == SetRow(s, st, None, token[s], None, None)

\* A row nobody is working on.
Unowned(s) == child[s] = None /\ iholder[s] = None /\ ilaunch[s] = None

WriteLease(h) == lease' = h /\ expired' = FALSE

ReleaseLease(h) ==
  IF lease = h THEN lease' = None /\ expired' = FALSE ELSE UNCHANGED own

\* try_acquire_lease: expiry does not free the lease of an active worker.
CanAcquire == lease = None \/ (expired /\ lease \notin workers)

\* The process named by a holder has been observed to be gone.
Gone(h) ==
  \/ h \in Runs      /\ rpc[h] \in {"dead", "done"}
  \/ h \in Users     /\ upc[h] = "dead"
  \/ h \in Rescuers  /\ xpc[h] \in {"dead", "done"}
  \/ \E u \in Users : h = Guardian[u] /\ gpc[u] \in {"dead", "failed", "done"}

\* A lease that is not renewed for its timeout.
LeaseExpires ==
  /\ lease # None /\ ~expired
  /\ lease \in MayStall \/ Gone(lease)
  /\ expired' = TRUE
  /\ UNCHANGED <<env, rows, lease, workers, runs, users, resc, snap, parked>>

\* Mutant: a process without a lease is taken for dead.
GroupAbsentAssumed(pid) == TRUE

\* The whole process group of a recorded child pid is absent.
GroupAbsent(pid) ==
  \/ pid \in Runs /\ codex[pid] \notin {"gated", "live"}
  \/ \E u \in Users : pid = Guardian[u] /\ gchild[u] \notin {"gated", "live"}

\* agent_lease_is_reclaimable.  The pid in a worker's or an interactive
\* holder's name is not parsed here, so those are reclaimed by time alone.
Reclaimable ==
  IF lease \in Rescuers THEN Gone(lease)
  ELSE expired \/ (lease \in Inline /\ Gone(lease))

LeaseActive == lease # None /\ ~Reclaimable

\* try_reclaim_inactive_agent_lease, by a scheduler or before a rescue.
ReclaimLease ==
  /\ lease # None /\ lease \notin workers
  /\ \/ Reclaimable
     \/ /\ lease \in Users \cup Guardians /\ Gone(lease)
        /\ \A s \in Sessions : iholder[s] # lease
  /\ ReleaseLease(lease)
  /\ UNCHANGED <<env, rows, workers, runs, users, resc, snap, parked>>

Init ==
  /\ env \in Scenarios
  /\ state = [s \in Sessions |-> "none"]
  /\ child = [s \in Sessions |-> None]
  /\ token = [s \in Sessions |-> None]
  /\ iholder = [s \in Sessions |-> None]
  /\ ilaunch = [s \in Sessions |-> None]
  /\ lease = None /\ expired = FALSE
  /\ workers = {}
  /\ rpc = [r \in Runs |-> IF r \in Cast THEN "off" ELSE "done"]
  /\ sess = [r \in Runs |-> None]
  /\ seen = [r \in Runs |-> "none"]
  /\ todo = [r \in Runs |-> FALSE]
  /\ sup = [r \in Runs |-> "off"]
  /\ codex = [r \in Runs |-> "off"]
  /\ upc = [u \in Users |-> IF u \in Cast THEN "off" ELSE "done"]
  /\ usess = [u \in Users |-> None]
  /\ mode = [u \in Users |-> "off"]
  /\ gpc = [u \in Users |-> "off"]
  /\ gchild = [u \in Users |-> "off"]
  /\ disp = [u \in Users |-> "off"]
  /\ xpc = [x \in Rescuers |-> IF x \in Cast THEN "off" ELSE "dead"]
  /\ xrun = [x \in Rescuers |-> None]
  /\ snap = [c \in Schedulers |-> None]
  /\ parked = {}

-----------------------------------------------------------------------------
(* An automated run.                                                       *)

At(r, pc) == rpc' = [rpc EXCEPT ![r] = pc]

\* A session id Codex has not used yet.
Fresh(s) ==
  /\ s \in Cast /\ state[s] = "none"
  /\ \A r \in Runs : sess[r] # s
  /\ \A u \in Users : usess[u] # s

\* The conversation of a Todo: planned with no run yet, or at rest.
TodoSession(s) ==
  Unowned(s) /\ (state[s] = "none" \/ (state[s] = "stopped" /\ token[s] = None))

\* acquire_agent_job_stage: the lease, for a queued session or for ready
\* work, whose session is a Todo's or new (None).
AcquireJob(r, s) ==
  /\ rpc[r] = "off"
  /\ CanAcquire
  /\ \/ /\ s # None /\ state[s] = "resume_requested"
        /\ UNCHANGED todo
     \/ /\ IF s = None THEN TRUE ELSE s \in Cast /\ ~Fresh(s) /\ TodoSession(s)
        /\ todo' = [todo EXCEPT ![r] = TRUE]
  /\ WriteLease(r)
  /\ At(r, "acquired")
  /\ sess' = [sess EXCEPT ![r] = s]
  /\ UNCHANGED <<env, rows, workers, seen, sup, codex, users, resc, snap,
                 parked>>

\* controls_suspend_ready_work: a queued session may wait for its task.
ReadyWork ==
  \A s \in Sessions :
    \/ state[s] \in {"none", "stopped"}
    \/ state[s] = "resume_requested" /\ Unowned(s)

MayLaunch(r) ==
  /\ todo[r] => ReadyWork
  /\ r \in Inline \/ (workers = {} /\ lease = r)

\* Reserve the worker row, spawn the supervisor and a gated Codex.
Launch(r) ==
  /\ rpc[r] = "acquired" /\ MayLaunch(r)
  /\ workers' = IF r \in Inline THEN workers ELSE workers \cup {r}
  /\ sup' = [sup EXCEPT ![r] = "watching"]
  /\ codex' = [codex EXCEPT ![r] = "gated"]
  /\ At(r, "gated")
  /\ UNCHANGED <<env, rows, own, sess, seen, todo, users, resc, snap, parked>>

Withdraw(r) ==
  /\ rpc[r] = "acquired" /\ ~MayLaunch(r)
  /\ ReleaseLease(r)
  /\ At(r, "done")
  /\ UNCHANGED <<env, rows, workers, sess, seen, todo, sup, codex, users, resc,
                 snap, parked>>

\* register_known_session_with_child: the lease is live and the exact
\* request, or the conversation at rest, is still there.
CanRegister(r, s) ==
  /\ lease = r /\ ~expired
  /\ IF todo[r] THEN TodoSession(s) ELSE state[s] = "resume_requested"

RegisterKnown(r) ==
  /\ rpc[r] = "gated" /\ sess[r] # None
  /\ CanRegister(r, sess[r])
  /\ SetRow(sess[r], "running", r, r, None, None)
  /\ At(r, "registered")
  /\ UNCHANGED <<env, own, workers, sess, seen, todo, sup, codex, users, resc,
                 snap, parked>>

\* cancel_automated_supervisor_launch: the gated child never runs.
RegistrationRefused(r) ==
  /\ rpc[r] = "gated" /\ sess[r] # None
  /\ ~CanRegister(r, sess[r])
  /\ codex' = [codex EXCEPT ![r] = "gone"]
  /\ sup' = [sup EXCEPT ![r] = "gone"]
  /\ At(r, "recording")
  /\ UNCHANGED <<env, rows, own, workers, sess, seen, todo, users, resc, snap,
                 parked>>

\* The launch gate opens: a known session is registered by now.
ReleaseGate(r) ==
  /\ rpc[r] = "registered" \/ (rpc[r] = "gated" /\ sess[r] = None)
  /\ codex' = [codex EXCEPT ![r] = "live"]
  /\ At(r, "running")
  /\ UNCHANGED <<env, rows, own, workers, sess, seen, todo, sup, users, resc,
                 snap, parked>>

\* mark_session_running: Codex announced the id of its new session.
Announce(r, s) ==
  /\ rpc[r] = "running" /\ sess[r] = None /\ Fresh(s)
  /\ IF r \in Inline \/ (r \in workers /\ lease = r)
     THEN /\ SetRow(s, "running", r, r, None, None)
          /\ sess' = [sess EXCEPT ![r] = s]
          /\ UNCHANGED rpc
     ELSE At(r, "stopping") /\ UNCHANGED <<rows, sess>>
  /\ UNCHANGED <<env, own, workers, seen, todo, sup, codex, users, resc, snap,
                 parked>>

\* automated_session_control_action_for_generation
ActionFor(r, s) ==
  CASE token[s] # r -> "none"
    [] child[s] = r /\ state[s] = "stop_requested" -> "stop"
    [] child[s] = r /\ state[s] = "interrupt_requested" -> "interrupt"
    [] child[s] # r /\ state[s] = "stopped" -> "stop"
    [] child[s] # r /\ state[s] = "ready_interactive" -> "interrupt"
    [] OTHER -> "none"

PollControl(r) ==
  /\ rpc[r] = "running" /\ sess[r] # None
  /\ ActionFor(r, sess[r]) # "none"
  /\ seen' = [seen EXCEPT ![r] = ActionFor(r, sess[r])]
  /\ At(r, "stopping")
  /\ UNCHANGED <<env, rows, own, workers, sess, todo, sup, codex, users, resc,
                 snap, parked>>

\* The runner's poll: a lease that is not its own ends the run.
RenewRun(r) ==
  /\ rpc[r] = "running"
  /\ IF lease = r /\ (r \in Inline \/ r \in workers)
     THEN expired /\ expired' = FALSE /\ UNCHANGED rpc
     ELSE At(r, "stopping") /\ UNCHANGED expired
  /\ UNCHANGED <<env, rows, lease, workers, sess, seen, todo, sup, codex,
                 users, resc, snap, parked>>

\* The supervisor reports the process group reaped: Codex ended, timed out
\* or was asked to stop.  The runner looks at the row once more.
Reaped(r) ==
  /\ rpc[r] \in {"running", "stopping"} /\ sup[r] = "watching"
  /\ codex' = [codex EXCEPT ![r] = "gone"]
  /\ sup' = [sup EXCEPT ![r] = "gone"]
  /\ seen' = IF seen[r] = "none" /\ sess[r] # None
             THEN [seen EXCEPT ![r] = ActionFor(r, sess[r])] ELSE seen
  /\ At(r, "reaped")
  /\ UNCHANGED <<env, rows, own, workers, sess, todo, users, resc, snap,
                 parked>>

\* A worker's row counts only while it is active and owns the lease.
MayFinalize(r) == r \in Inline \/ (r \in workers /\ lease = r)

\* The control resolution loop of run_agent_job_inner: a request that arrived
\* late is taken; otherwise the row is removed, or kept for an exact retry.
Resolve(r, retry) ==
  /\ rpc[r] = "reaped"
  /\ LET s == sess[r]
         mine == s # None /\ token[s] = r /\ seen[r] = "none"
         late == mine /\ state[s] \in {"stop_requested", "interrupt_requested"}
     IN /\ seen' = IF late THEN [seen EXCEPT ![r] = ActionFor(r, s)] ELSE seen
        /\ IF mine /\ state[s] = "running" /\ ~retry
           THEN MayFinalize(r) /\ DeleteRow(s)
           ELSE UNCHANGED rows
  /\ At(r, "settling")
  /\ UNCHANGED <<env, own, workers, sess, todo, sup, codex, users, resc, snap,
                 parked>>

\* complete_session_stop and complete_session_interrupt_handoff
Settle(r) ==
  /\ rpc[r] = "settling"
  /\ LET s == sess[r] IN
     CASE /\ seen[r] = "stop" /\ s # None /\ token[s] = r
          /\ state[s] = "stop_requested" /\ MayFinalize(r)
          -> Rest(s, "stopped") /\ parked' = parked \cup {s} /\ UNCHANGED own
       [] /\ seen[r] = "interrupt" /\ s # None /\ token[s] = r
          /\ state[s] = "interrupt_requested" /\ lease = r
          -> /\ SetRow(s, "ready_interactive", None, r, iholder[s], None)
             /\ WriteLease(iholder[s])
             /\ UNCHANGED parked
       [] OTHER -> UNCHANGED <<rows, own, parked>>
  /\ At(r, "recording")
  /\ UNCHANGED <<env, workers, sess, seen, todo, sup, codex, users, resc,
                 snap>>

\* record_agent_result_stage, or abandonment: the worker ends, its lease too.
RecordRun(r) ==
  /\ rpc[r] = "recording"
  /\ ReleaseLease(r)
  /\ workers' = workers \ {r}
  /\ At(r, "done")
  /\ UNCHANGED <<env, rows, sess, seen, todo, sup, codex, users, resc, snap,
                 parked>>

-----------------------------------------------------------------------------
(* Crashes of a run, and what its supervisor does about them.              *)

Active == {"acquired", "gated", "registered", "running", "stopping", "reaped",
           "settling", "recording"}

RunnerDies(r) ==
  /\ r \in Mortal /\ rpc[r] \in Active
  /\ At(r, "dead")
  /\ sup' = IF sup[r] = "watching" THEN [sup EXCEPT ![r] = "orphaned"] ELSE sup
  /\ UNCHANGED <<env, rows, own, workers, sess, seen, todo, codex, users, resc,
                 snap, parked>>

\* EOF on the lifeline: stop the owned process group.
SupervisorReaps(r) ==
  /\ sup[r] = "orphaned"
  /\ codex' = [codex EXCEPT ![r] = "gone"]
  /\ sup' = [sup EXCEPT ![r] = "finalizing"]
  /\ UNCHANGED <<env, rows, own, workers, rpc, sess, seen, todo, users, resc,
                 snap, parked>>

\* The supervisor is killed too: its Codex, if it runs, is an orphan.
SupervisorDies(r) ==
  /\ r \in Mortal /\ sup[r] \in {"orphaned", "finalizing"}
  /\ sup' = [sup EXCEPT ![r] = "gone"]
  /\ codex' = IF codex[r] = "gated" THEN [codex EXCEPT ![r] = "gone"] ELSE codex
  /\ UNCHANGED <<env, rows, own, workers, rpc, sess, seen, todo, users, resc,
                 snap, parked>>

CodexExits(r) ==
  /\ codex[r] = "live" /\ sup[r] = "gone"
  /\ codex' = [codex EXCEPT ![r] = "gone"]
  /\ UNCHANGED <<env, rows, own, workers, rpc, sess, seen, todo, sup, users,
                 resc, snap, parked>>

\* Mutant: a request that waits at the exit is dropped.
AfterExitResume(st) == "resume_requested"

\* The state in which an exit leaves an automated row.
AfterExit(st) ==
  CASE st = "running" -> "resume_requested"
    [] st = "stop_requested" -> "stopped"
    [] st = "interrupt_requested" -> "ready_interactive"

\* finalize_automated_session_after_exit by holder h: the exact generation,
\* and for a hand-off the lease, or nothing at all.
CanTransfer(s, h) == lease \in {h, None, iholder[s]}

FinalizeAfterExit(s, h) ==
  /\ state[s] \in Automated
  /\ parked' = IF AfterExit(state[s]) = "stopped" THEN parked \cup {s}
               ELSE parked
  /\ IF AfterExit(state[s]) = "ready_interactive"
     THEN /\ iholder[s] # None /\ CanTransfer(s, h)
          /\ SetRow(s, "ready_interactive", None, token[s], iholder[s],
                    ilaunch[s])
          /\ IF lease = iholder[s] THEN UNCHANGED own ELSE WriteLease(iholder[s])
     ELSE /\ SetRow(s, AfterExit(state[s]), None, token[s], None, ilaunch[s])
          /\ ReleaseLease(h)

\* supervised_session_control
RowOf(r) == {s \in Sessions : child[s] = r /\ token[s] = r}

\* finalize_disconnected_automated_supervisor, registered session.
SupervisorFinalizes(r) ==
  /\ sup[r] = "finalizing"
  /\ \E s \in RowOf(r) : FinalizeAfterExit(s, r)
  /\ sup' = [sup EXCEPT ![r] = "gone"]
  /\ UNCHANGED <<env, workers, rpc, sess, seen, todo, codex, users, resc,
                 snap>>

\* The same without a row: abandon the worker, release the lease.
SupervisorAbandons(r) ==
  /\ sup[r] = "finalizing" /\ RowOf(r) = {}
  /\ workers' = workers \ {r}
  /\ ReleaseLease(r)
  /\ sup' = [sup EXCEPT ![r] = "gone"]
  /\ UNCHANGED <<env, rows, rpc, sess, seen, todo, codex, users, resc, snap,
                 parked>>

\* reconcile_agent_workers: the service of a dead or silent worker is drained
\* with everything in it before its row is given up (WorkerLeases).
DrainWorker(r) ==
  /\ r \in workers /\ (rpc[r] = "dead" \/ r \in MayStall)
  /\ workers' = workers \ {r}
  /\ ReleaseLease(r)
  /\ At(r, "dead")
  /\ sup' = [sup EXCEPT ![r] = "gone"]
  /\ codex' = [codex EXCEPT ![r] = "gone"]
  /\ UNCHANGED <<env, rows, sess, seen, todo, users, resc, snap, parked>>

-----------------------------------------------------------------------------
(* The exact-session resume worker (run_agent_session_resume_worker), an   *)
(* inline run that waits for its session.                                  *)

\* spawn_agent_session_resume_worker, if there is a run left to model it.
SpawnResume(s) ==
  \/ \E r \in Inline : /\ rpc[r] = "off"
                       /\ At(r, "waiting")
                       /\ sess' = [sess EXCEPT ![r] = s]
  \/ UNCHANGED <<rpc, sess>>

ResumeWorkerAcquires(r) ==
  /\ rpc[r] = "waiting" /\ state[sess[r]] = "resume_requested"
  /\ CanAcquire
  /\ WriteLease(r)
  /\ At(r, "acquired")
  /\ UNCHANGED <<env, rows, workers, sess, seen, todo, sup, codex, users, resc,
                 snap, parked>>

\* It releases a reclaimable lease by its holder, whoever fences it.
ResumeWorkerReleases(r) ==
  /\ rpc[r] = "waiting" /\ state[sess[r]] = "resume_requested"
  /\ lease # None /\ ~CanAcquire /\ Reclaimable
  /\ ReleaseLease(lease)
  /\ UNCHANGED <<env, rows, workers, runs, users, resc, snap, parked>>

\* recover_stale_automated_session_control: the exact state and generation.
RecoverAutomated(s) ==
  /\ Rest(s, AfterExit(state[s]))
  /\ parked' = IF state[s] = "stop_requested" THEN parked \cup {s} ELSE parked

ResumeWorkerRecovers(r) ==
  /\ rpc[r] = "waiting" /\ state[sess[r]] = "running"
  /\ ~LeaseActive /\ GroupAbsent(child[sess[r]])
  /\ RecoverAutomated(sess[r])
  /\ UNCHANGED <<env, own, workers, runs, users, resc, snap>>

ResumeWorkerLeaves(r) ==
  /\ rpc[r] = "waiting"
  /\ state[sess[r]] \notin {"resume_requested", "running"}
  /\ At(r, "done")
  /\ UNCHANGED <<env, rows, own, workers, sess, seen, todo, sup, codex, users,
                 resc, snap, parked>>

-----------------------------------------------------------------------------
(* What a user asks of a session.                                          *)

\* request_session_stop: the running generation that was displayed.
RequestStop(s) ==
  /\ state[s] = "running" /\ child[s] # None
  /\ SetRow(s, "stop_requested", child[s], token[s], iholder[s], ilaunch[s])
  /\ UNCHANGED <<env, own, workers, runs, users, resc, snap, parked>>

\* request_interactive_session_stop: the registered child of a guardian.
RequestInteractiveStop(s) ==
  /\ state[s] = "interactive" /\ child[s] # None
  /\ iholder[s] = ilaunch[s]
  /\ SetRow(s, "stop_requested", child[s], token[s], iholder[s], ilaunch[s])
  /\ UNCHANGED <<env, own, workers, runs, users, resc, snap, parked>>

\* request_stopped_session_resume
RequestResume(s) ==
  /\ state[s] = "stopped" /\ token[s] # None
  /\ Rest(s, "resume_requested")
  /\ parked' = parked \ {s}
  /\ UNCHANGED <<env, own, workers, runs, users, resc, snap>>

\* register_planning_session and its shared form: a conversation with no run.
RegisterPlanning(s) ==
  /\ Fresh(s)
  /\ SetRow(s, "stopped", None, None, None, None)
  /\ UNCHANGED <<env, own, workers, runs, users, resc, snap, parked>>

\* retire_completed_resume_request: the task is Done, its Git work too.
RetireCompleted(s) ==
  /\ state[s] = "resume_requested" /\ Unowned(s)
  /\ workers = {} /\ (lease = None \/ expired)
  /\ Rest(s, "stopped")
  /\ UNCHANGED <<env, own, workers, runs, users, resc, snap, parked>>

\* clear_orphaned_resume_requested_session: no task names the session.
ClearOrphanedRequest(s) ==
  /\ state[s] = "resume_requested" /\ child[s] = None /\ iholder[s] = None
  /\ workers = {} /\ (lease = None \/ expired)
  /\ DeleteRow(s)
  /\ UNCHANGED <<env, own, workers, runs, users, resc, snap, parked>>

UAt(u, pc) == upc' = [upc EXCEPT ![u] = pc]

Opens(u, s, m, pc) ==
  /\ UAt(u, pc)
  /\ usess' = [usess EXCEPT ![u] = s]
  /\ mode' = [mode EXCEPT ![u] = m]
  /\ UNCHANGED <<env, gpc, gchild>>

\* `i' on a running session: request_session_interrupt.
RequestInterrupt(u, s) ==
  /\ upc[u] = "off" /\ "interrupt" \in Modes
  /\ state[s] = "running" /\ child[s] # None
  /\ SetRow(s, "interrupt_requested", child[s], token[s], u, ilaunch[s])
  /\ Opens(u, s, "interrupt", "waiting")
  /\ disp' = [disp EXCEPT ![u] = "resume_exec"]
  /\ UNCHANGED <<env, own, workers, runs, resc, snap, parked>>

\* `i' on a stopped session: first the lease, then the row.
TakeStopped(u, s) ==
  /\ upc[u] = "off" /\ "interrupt" \in Modes
  /\ state[s] = "stopped" /\ CanAcquire
  /\ WriteLease(u)
  /\ Opens(u, s, "takeover", "reserving")
  /\ disp' = [disp EXCEPT ![u] = "resume_exec"]
  /\ UNCHANGED <<env, rows, workers, runs, resc, snap, parked>>

\* tui_inactive_codex_session_control
Inactive(s) ==
  /\ state[s] \in {"stopped", "resume_requested"}
  /\ child[s] = None /\ iholder[s] = None

\* `c' on an idle session: InteractiveAgentLease::try_acquire_idle.
OpenIdle(u, s) ==
  /\ upc[u] = "off" /\ "idle" \in Modes /\ s \in Cast
  /\ state[s] = "none" \/ Inactive(s)
  /\ CanAcquire
  /\ WriteLease(u)
  /\ Opens(u, s, IF Inactive(s) THEN "stopped" ELSE "idle", "reserving")
  /\ UNCHANGED <<env, rows, workers, runs, disp, resc, snap, parked>>

\* `c' alongside another owner of the project: no lease.
OpenShared(u, s) ==
  /\ upc[u] = "off" /\ "shared" \in Modes /\ s \in Cast
  /\ state[s] = "none" \/ Inactive(s)
  /\ Opens(u, s, IF Inactive(s) THEN "stopped_shared" ELSE "shared",
           "reserving")
  /\ UNCHANGED <<env, rows, own, workers, runs, disp, resc, snap, parked>>

OthersStopped(s) ==
  \A q \in Sessions \ {s} : state[q] \in {"none", "stopped"}

OthersUnowned(s) ==
  \A q \in Sessions \ {s} :
    \/ state[q] = "none"
    \/ state[q] \in {"stopped", "resume_requested"} /\ Unowned(q)

\* begin_stopped_session_interactive, reserve_idle_session_interactive and
\* reserve_shared_session_interactive: the row as it was read, or nothing.
CanReserve(u, s) ==
  CASE mode[u] = "takeover" -> state[s] = "stopped"
    [] mode[u] = "idle" -> state[s] = "none" /\ OthersStopped(s)
    [] mode[u] = "stopped" ->
         /\ state[s] \in {"stopped", "resume_requested"} /\ Unowned(s)
         /\ lease = u /\ ~expired /\ workers = {} /\ OthersUnowned(s)
    [] mode[u] = "shared" ->
         state[s] = "none" /\ (lease # None \/ ~OthersStopped(s))
    [] mode[u] = "stopped_shared" ->
         /\ \/ state[s] = "stopped"
            \/ /\ state[s] = "resume_requested"
               /\ child[s] = None /\ iholder[s] = None
               /\ \A r \in workers : token[s] # r /\ sess[r] # s
         /\ lease # None \/ ~OthersStopped(s)

\* What happens to the session afterwards (InteractiveGuardianDisposition):
\* only work that was queued or is unfinished in Doing goes back to exec.
Dispositions(u, s) ==
  IF mode[u] = "takeover" THEN {"resume_exec"}
  ELSE IF mode[u] \in {"shared", "stopped_shared"} THEN {"shared"}
  ELSE IF state[s] = "stopped" THEN {"preserve"}
  ELSE {"preserve", "resume_exec"}

Reserve(u) ==
  /\ upc[u] = "reserving"
  /\ CanReserve(u, usess[u])
  /\ SetRow(usess[u], "ready_interactive", None, token[usess[u]], u, None)
  /\ \E d \in Dispositions(u, usess[u]) : disp' = [disp EXCEPT ![u] = d]
  /\ UAt(u, "ready")
  /\ parked' = IF mode[u] = "takeover" THEN parked \ {usess[u]} ELSE parked
  /\ UNCHANGED <<env, own, workers, runs, usess, mode, gpc, gchild, resc,
                 snap>>

ReserveRefused(u) ==
  /\ upc[u] = "reserving" /\ ~CanReserve(u, usess[u])
  /\ UAt(u, "releasing")
  /\ UNCHANGED <<env, rows, own, workers, runs, usess, mode, gpc, gchild, disp,
                 resc, snap, parked>>

\* prepare_tui_codex_session_interrupt: the row is handed over with its lease.
HandedOver(u) ==
  /\ upc[u] = "waiting"
  /\ state[usess[u]] = "ready_interactive" /\ iholder[usess[u]] = u
  /\ lease = u
  /\ UAt(u, "ready")
  /\ UNCHANGED <<env, rows, own, workers, runs, usess, mode, gpc, gchild, disp,
                 resc, snap, parked>>

\* It gives up: the timeout, or a state it did not expect.
GiveUp(u) ==
  /\ upc[u] = "waiting"
  /\ UAt(u, "cancelling")
  /\ UNCHANGED <<env, rows, own, workers, runs, usess, mode, gpc, gchild, disp,
                 resc, snap, parked>>

\* Mutant: the pending hand-off is forgotten.
CancelNothing(u) == UNCHANGED rows

\* cancel_session_interrupt_handoff and cancel_idle_session_interactive
CancelRow(u) ==
  LET s == usess[u]
  IN CASE mode[u] \in {"interrupt", "takeover"} /\ iholder[s] = u
          /\ state[s] = "interrupt_requested"
          -> SetRow(s, "running", child[s], token[s], None, None)
       [] mode[u] \in {"interrupt", "takeover"} /\ iholder[s] = u
          /\ state[s] = "ready_interactive"
          -> Rest(s, "resume_requested")
       [] mode[u] \in {"stopped", "stopped_shared"} /\ iholder[s] = u
          /\ state[s] = "ready_interactive"
          -> Rest(s, "stopped")
       [] mode[u] \in {"idle", "shared"} /\ iholder[s] = u
          /\ state[s] = "ready_interactive"
          -> DeleteRow(s)
       [] OTHER -> UNCHANGED rows

Cancel(u) ==
  /\ upc[u] = "cancelling"
  /\ CancelRow(u)
  /\ UAt(u, "releasing")
  /\ UNCHANGED <<env, own, workers, runs, usess, mode, gpc, gchild, disp, resc,
                 snap, parked>>

\* The lease guard is dropped; an `i' that failed queues the exact resume.
ReleaseOwn(u) ==
  /\ upc[u] = "releasing"
  /\ ReleaseLease(u)
  /\ UAt(u, "done")
  /\ IF gpc[u] # "off" /\ mode[u] \in {"interrupt", "takeover"}
        /\ state[usess[u]] \in {"resume_requested", "running"}
     THEN SpawnResume(usess[u])
     ELSE UNCHANGED <<rpc, sess>>
  /\ UNCHANGED <<env, rows, workers, seen, todo, sup, codex, usess, mode, gpc,
                 gchild, disp, resc, snap, parked>>

-----------------------------------------------------------------------------
(* The interactive guardian of a user's attempt.                           *)

GAt(u, pc) == gpc' = [gpc EXCEPT ![u] = pc]

HoldsProjectLease(u) == disp[u] # "shared"

StartGuardian(u) ==
  /\ upc[u] = "ready"
  /\ UAt(u, "guarded")
  /\ GAt(u, "starting")
  /\ UNCHANGED <<env, rows, own, workers, runs, usess, mode, gchild, disp,
                 resc, snap, parked>>

\* The task is no longer one that Codex may be opened for.
RevalidationFails(u) ==
  /\ upc[u] = "ready" /\ mode[u] \notin {"interrupt", "takeover"}
  /\ UAt(u, "cancelling")
  /\ UNCHANGED <<env, rows, own, workers, runs, usess, mode, gpc, gchild, disp,
                 resc, snap, parked>>

CanAdopt(u) ==
  /\ HoldsProjectLease(u) => lease = u
  /\ state[usess[u]] = "ready_interactive" /\ iholder[usess[u]] = u

\* adopt_interactive_guardian: lease and row together, or neither.
Adopt(u) ==
  /\ gpc[u] = "starting"
  /\ IF CanAdopt(u)
     THEN /\ SetRow(usess[u], "interactive", None, token[usess[u]],
                    Guardian[u], Guardian[u])
          /\ IF HoldsProjectLease(u) THEN WriteLease(Guardian[u])
             ELSE UNCHANGED own
          /\ GAt(u, "adopted")
     ELSE GAt(u, "failed") /\ UNCHANGED <<rows, own>>
  /\ UNCHANGED <<env, workers, runs, upc, usess, mode, gchild, disp, resc,
                 snap, parked>>

SpawnGated(u) ==
  /\ gpc[u] = "adopted"
  /\ gchild' = [gchild EXCEPT ![u] = "gated"]
  /\ GAt(u, "gated")
  /\ UNCHANGED <<env, rows, own, workers, runs, upc, usess, mode, disp, resc,
                 snap, parked>>

CanRegisterChild(u) ==
  /\ HoldsProjectLease(u) => lease = Guardian[u] /\ ~expired
  /\ state[usess[u]] = "interactive" /\ child[usess[u]] = None
  /\ iholder[usess[u]] = Guardian[u] /\ ilaunch[usess[u]] = Guardian[u]

\* register_interactive_guardian_child
RegisterChild(u) ==
  /\ gpc[u] = "gated"
  /\ IF CanRegisterChild(u)
     THEN /\ SetRow(usess[u], state[usess[u]], Guardian[u], token[usess[u]],
                    iholder[usess[u]], ilaunch[usess[u]])
          /\ GAt(u, "registered")
          /\ UNCHANGED gchild
     ELSE /\ gchild' = [gchild EXCEPT ![u] = "gone"]
          /\ GAt(u, "reaped")
          /\ UNCHANGED rows
  /\ UNCHANGED <<env, own, workers, runs, upc, usess, mode, disp, resc, snap,
                 parked>>

\* The gate opens while the parent is connected; otherwise it closes.
OpenInteractive(u) ==
  /\ gpc[u] = "registered"
  /\ IF upc[u] = "guarded"
     THEN gchild' = [gchild EXCEPT ![u] = "live"] /\ GAt(u, "live")
     ELSE gchild' = [gchild EXCEPT ![u] = "gone"] /\ GAt(u, "reaped")
  /\ UNCHANGED <<env, rows, own, workers, runs, upc, usess, mode, disp, resc,
                 snap, parked>>

RenewGuardian(u) ==
  /\ gpc[u] = "live" /\ HoldsProjectLease(u)
  /\ lease = Guardian[u] /\ expired
  /\ expired' = FALSE
  /\ UNCHANGED <<env, rows, lease, workers, runs, users, resc, snap, parked>>

\* The user left, the lease or the parent was lost, or a stop was asked for:
\* the process group is stopped and reaped.
ReapInteractive(u) ==
  /\ gpc[u] = "live"
  /\ gchild' = [gchild EXCEPT ![u] = "gone"]
  /\ GAt(u, "reaped")
  /\ UNCHANGED <<env, rows, own, workers, runs, upc, usess, mode, disp, resc,
                 snap, parked>>

\* Mutant: a stop of an interrupted session is forgotten on the way back.
AfterInteractiveResume(u, s) ==
  IF disp[u] = "resume_exec" THEN "resume_requested" ELSE "stopped"

\* Where an interactive row goes when its guardian is finished.
AfterInteractive(u, s) ==
  IF disp[u] = "resume_exec" /\ state[s] # "stop_requested"
  THEN "resume_requested" ELSE "stopped"

OwnedBy(u, s) ==
  state[s] \in {"interactive", "stop_requested"} /\ iholder[s] = Guardian[u]

EndInteractive(u, s) ==
  /\ Rest(s, AfterInteractive(u, s))
  /\ parked' = IF state[s] = "stop_requested" /\ token[s] # None
               THEN parked \cup {s} ELSE parked
  /\ IF HoldsProjectLease(u) THEN ReleaseLease(Guardian[u]) ELSE UNCHANGED own

\* finish_interactive_guardian_after_reap
Finish(u) ==
  /\ gpc[u] = "reaped"
  /\ LET s == usess[u] IN
     IF OwnedBy(u, s)
     THEN /\ EndInteractive(u, s)
          /\ GAt(u, IF AfterInteractive(u, s) = "resume_requested"
                    THEN "handback" ELSE "done")
     ELSE /\ GAt(u, IF disp[u] = "resume_exec"
                       /\ state[s] \in {"resume_requested", "running"}
                    THEN "handback" ELSE "failed")
          /\ IF state[s] = "none" /\ HoldsProjectLease(u)
             THEN ReleaseLease(Guardian[u]) ELSE UNCHANGED own
          /\ UNCHANGED <<rows, parked>>
  /\ UNCHANGED <<env, workers, runs, upc, usess, mode, gchild, disp, resc,
                 snap>>

HandBack(u) ==
  /\ gpc[u] = "handback"
  /\ SpawnResume(usess[u])
  /\ GAt(u, "done")
  /\ UNCHANGED <<env, rows, own, workers, seen, todo, sup, codex, upc, usess,
                 mode, gchild, disp, resc, snap, parked>>

\* The TUI's wait for its guardian is over.
GuardianExited(u) ==
  /\ upc[u] = "guarded" /\ gpc[u] \in {"done", "failed", "dead"}
  /\ UAt(u, IF gpc[u] = "done" THEN "releasing" ELSE "cancelling")
  /\ UNCHANGED <<env, rows, own, workers, runs, usess, mode, gpc, gchild, disp,
                 resc, snap, parked>>

UserDies(u) ==
  /\ u \in Mortal /\ upc[u] \notin {"off", "done", "dead"}
  /\ UAt(u, "dead")
  /\ UNCHANGED <<env, rows, own, workers, runs, usess, mode, gpc, gchild, disp,
                 resc, snap, parked>>

\* A gated child exits with its guardian's pipe; a released one lives on.
GuardianDies(u) ==
  /\ Guardian[u] \in Mortal
  /\ gpc[u] \notin {"off", "failed", "done", "dead"}
  /\ GAt(u, "dead")
  /\ gchild' = IF gchild[u] = "gated" THEN [gchild EXCEPT ![u] = "gone"]
               ELSE gchild
  /\ UNCHANGED <<env, rows, own, workers, runs, upc, usess, mode, disp, resc,
                 snap, parked>>

OrphanInteractiveExits(u) ==
  /\ gpc[u] = "dead" /\ gchild[u] = "live"
  /\ gchild' = [gchild EXCEPT ![u] = "gone"]
  /\ UNCHANGED <<env, rows, own, workers, runs, upc, usess, mode, gpc, disp,
                 resc, snap, parked>>

-----------------------------------------------------------------------------
(* The replacement supervisor of an orphaned Codex.                        *)

XAt(x, pc) == xpc' = [xpc EXCEPT ![x] = pc]

\* Mutant: only a session that nobody asked anything of.
RecoverableRunning(s) == state[s] = "running" /\ token[s] = child[s]

\* recoverable_control: an automated generation with a recorded process.
Recoverable(s) ==
  state[s] \in Automated /\ ilaunch[s] = None /\ child[s] # None
                         /\ token[s] = child[s]

\* ensure_orphaned_session_supervision: nobody owns the project any more and
\* the recorded process is still the one that was launched.
Attach(x, s) ==
  /\ xpc[x] \in {"off", "done"}  \* a new process; the name is free again
  /\ Recoverable(s) /\ codex[child[s]] = "live"
  /\ workers = {}
  /\ lease = None \/ (lease \in Inline \cup Rescuers /\ Gone(lease))
  /\ ReleaseLease(lease)
  /\ xrun' = [xrun EXCEPT ![x] = child[s]]
  /\ XAt(x, "attached")
  /\ UNCHANGED <<env, rows, workers, runs, users, snap, parked>>

CanClaim(x, s) ==
  Recoverable(s) /\ lease = None /\ workers = {} /\ OthersStopped(s)

\* claim_orphaned_session_supervision: only the lease is written, so that a
\* request made meanwhile survives.
Claim(x) ==
  /\ xpc[x] = "attached"
  /\ IF \E s \in RowOf(xrun[x]) : CanClaim(x, s)
     THEN WriteLease(x) /\ XAt(x, "supervising")
     ELSE UNCHANGED own /\ XAt(x, "done")
  /\ UNCHANGED <<env, rows, workers, runs, users, xrun, snap, parked>>

\* supervise_attached_process asks for exact ownership in every iteration.
Supervises(x) ==
  /\ xpc[x] = "supervising" /\ lease = x
  /\ \E s \in RowOf(xrun[x]) : Recoverable(s)

RescuerRenews(x) ==
  /\ Supervises(x) /\ expired
  /\ expired' = FALSE
  /\ UNCHANGED <<env, rows, lease, workers, runs, users, resc, snap, parked>>

RescuerStops(x) ==
  /\ Supervises(x) /\ codex[xrun[x]] = "live"
  /\ \E s \in RowOf(xrun[x]) : ActionFor(xrun[x], s) # "none"
  /\ codex' = [codex EXCEPT ![xrun[x]] = "gone"]
  /\ UNCHANGED <<env, rows, own, workers, rpc, sess, seen, todo, sup, users,
                 resc, snap, parked>>

\* finalize_reattached_automated_session
RescuerFinalizes(x) ==
  /\ Supervises(x) /\ GroupAbsent(xrun[x])
  /\ \E s \in RowOf(xrun[x]) : FinalizeAfterExit(s, x)
  /\ XAt(x, "done")
  /\ UNCHANGED <<env, workers, runs, users, xrun, snap>>

RescuerLeaves(x) ==
  /\ xpc[x] = "supervising" /\ ~Supervises(x)
  /\ ReleaseLease(x)
  /\ XAt(x, "done")
  /\ UNCHANGED <<env, rows, workers, runs, users, xrun, snap, parked>>

RescuerDies(x) ==
  /\ x \in Mortal /\ xpc[x] \in {"attached", "supervising"}
  /\ XAt(x, "dead")
  /\ UNCHANGED <<env, rows, own, workers, runs, users, xrun, snap, parked>>

-----------------------------------------------------------------------------
(* reconcile_stale_agent_session_controls: rows and lease are read first,  *)
(* and every recovery compares what it read when it writes.                *)

\* Mutant: a reservation is nobody's business.
NeedsRecoveryActive(s) == state[s] \in Automated \cup {"interactive"}

NeedsRecovery(s) ==
  state[s] \in Automated \cup {"ready_interactive", "interactive"}

ReadRow(c, s) ==
  /\ c \in Cast /\ snap[c] = None /\ NeedsRecovery(s)
  /\ snap' = [snap EXCEPT ![c] =
       [s |-> s, st |-> state[s], ch |-> child[s], tk |-> token[s],
        h |-> iholder[s], l |-> ilaunch[s], lh |-> lease,
        active |-> LeaseActive]]
  /\ UNCHANGED <<env, rows, own, workers, runs, users, resc, parked>>

\* The lease that was read is the holder's, active, and its process lives.
MatchingLease(n) == n.lh = n.h /\ n.active /\ ~Gone(n.h)

\* An abandoned hand-off; old is the age of the row.
Abandoned(n, old) == ~MatchingLease(n) /\ (Gone(n.h) \/ old)

\* cancel_idle_session_interactive by the recovery, for the holder it read.
RecoverIdle(n, u, old) ==
  /\ n.st = "ready_interactive" /\ n.h = u /\ mode[u] \in {"idle", "stopped"}
  /\ Abandoned(n, old)
  /\ state[n.s] = "ready_interactive" /\ iholder[n.s] = u
  /\ IF mode[u] = "idle" THEN DeleteRow(n.s) ELSE Rest(n.s, "stopped")
  /\ UNCHANGED <<env, own, parked>>

\* Mutant: the guardian's generation is not compared.
SameGuardianRow(n, u) ==
  state[n.s] \in {"interactive", "stop_requested"}

SameGuardian(n, u) ==
  /\ state[n.s] \in {"interactive", "stop_requested"}
  /\ iholder[n.s] = Guardian[u] /\ ilaunch[n.s] = Guardian[u]
  /\ child[n.s] = n.ch

\* recover_stale_interactive_guardian: no child, or one proven absent.
RecoverGuardian(n, u, old) ==
  /\ n.st \in {"interactive", "stop_requested"}
  /\ n.h = Guardian[u] /\ n.l = Guardian[u]
  /\ gpc[u] = "dead" \/ Abandoned(n, old)
  /\ n.ch = None \/ GroupAbsent(n.ch)
  /\ SameGuardian(n, u)
  /\ EndInteractive(u, n.s)

SameRun(n) ==
  state[n.s] = n.st /\ child[n.s] = n.ch /\ token[n.s] = n.tk

\* recover_stale_automated_session_control, and for a hand-off
\* finalize_reaped_automated_session with the lease that was read.
RecoverRun(n) ==
  /\ n.st \in Automated /\ n.l = None
  /\ ~n.active /\ n.ch # None /\ GroupAbsent(n.ch)
  /\ IF n.st = "interrupt_requested"
     THEN /\ child[n.s] = n.ch /\ token[n.s] = n.tk
          /\ FinalizeAfterExit(n.s, n.lh)
     ELSE SameRun(n) /\ RecoverAutomated(n.s) /\ UNCHANGED own

\* recover_stale_interactive_session_control: back to the queue.
RecoverHandoff(n, u, old) ==
  /\ n.st = "ready_interactive" /\ n.h = u
  /\ mode[u] \notin {"idle", "stopped"}
  /\ Abandoned(n, old)
  /\ state[n.s] = "ready_interactive" /\ iholder[n.s] = u
  /\ Rest(n.s, "resume_requested")
  /\ UNCHANGED <<env, own, parked>>

RecoverRow(c) ==
  /\ snap[c] # None
  /\ \/ \E u \in Users, old \in BOOLEAN :
          \/ RecoverIdle(snap[c], u, old)
          \/ RecoverGuardian(snap[c], u, old)
          \/ RecoverHandoff(snap[c], u, old)
     \/ RecoverRun(snap[c])
  /\ snap' = [snap EXCEPT ![c] = None]
  /\ UNCHANGED <<env, workers, runs, users, resc>>

\* Nothing to recover, or the row changed meanwhile.
LeaveRow(c) ==
  /\ snap[c] # None
  /\ snap' = [snap EXCEPT ![c] = None]
  /\ UNCHANGED <<env, rows, own, workers, runs, users, resc, parked>>

-----------------------------------------------------------------------------
(* The specification.                                                      *)

RunStep(r) ==
  \/ \E s \in Sessions \cup {None} : AcquireJob(r, s)
  \/ Launch(r) \/ Withdraw(r)
  \/ RegisterKnown(r) \/ RegistrationRefused(r) \/ ReleaseGate(r)
  \/ \E s \in Sessions : Announce(r, s)
  \/ PollControl(r) \/ RenewRun(r) \/ Reaped(r)
  \/ \E retry \in BOOLEAN : Resolve(r, retry)
  \/ Settle(r) \/ RecordRun(r)
  \/ RunnerDies(r) \/ SupervisorReaps(r) \/ SupervisorDies(r)
  \/ CodexExits(r) \/ SupervisorFinalizes(r) \/ SupervisorAbandons(r)
  \/ DrainWorker(r)
  \/ ResumeWorkerAcquires(r) \/ ResumeWorkerReleases(r)
  \/ ResumeWorkerRecovers(r) \/ ResumeWorkerLeaves(r)

SessionStep(s) ==
  \/ RequestStop(s) \/ RequestInteractiveStop(s) \/ RequestResume(s)
  \/ RegisterPlanning(s) \/ RetireCompleted(s) \/ ClearOrphanedRequest(s)

UserStep(u) ==
  \/ \E s \in Sessions : \/ RequestInterrupt(u, s) \/ TakeStopped(u, s)
                         \/ OpenIdle(u, s) \/ OpenShared(u, s)
  \/ Reserve(u) \/ ReserveRefused(u) \/ HandedOver(u) \/ GiveUp(u)
  \/ Cancel(u) \/ ReleaseOwn(u) \/ StartGuardian(u) \/ RevalidationFails(u)
  \/ GuardianExited(u)
  \/ UserDies(u)

GuardianStep(u) ==
  \/ Adopt(u) \/ SpawnGated(u) \/ RegisterChild(u) \/ OpenInteractive(u)
  \/ RenewGuardian(u) \/ ReapInteractive(u) \/ Finish(u) \/ HandBack(u)
  \/ GuardianDies(u) \/ OrphanInteractiveExits(u)

RescuerStep(x) ==
  \/ \E s \in Sessions : Attach(x, s)
  \/ Claim(x) \/ RescuerRenews(x) \/ RescuerStops(x) \/ RescuerFinalizes(x)
  \/ RescuerLeaves(x) \/ RescuerDies(x)

SchedulerStep(c) ==
  \/ \E s \in Sessions : ReadRow(c, s)
  \/ RecoverRow(c) \/ LeaveRow(c)

Next ==
  \/ LeaseExpires \/ ReclaimLease
  \/ \E r \in Runs : RunStep(r)
  \/ \E s \in Sessions : SessionStep(s)
  \/ \E u \in Users : UserStep(u) \/ GuardianStep(u)
  \/ \E x \in Rescuers : RescuerStep(x)
  \/ \E c \in Schedulers : SchedulerStep(c)

Spec == Init /\ [][Next]_vars

\* Live processes take their next step: the polls and waits of the code have
\* timeouts.  Nobody has to open, stop, resume or leave a session, no process
\* has to die, and no Codex has to exit on its own.
RunFairness(r) ==
  /\ WF_vars(Launch(r) \/ Withdraw(r) \/ RegisterKnown(r)
             \/ RegistrationRefused(r) \/ ReleaseGate(r))
  /\ WF_vars(PollControl(r))
  /\ WF_vars(rpc[r] = "stopping" /\ Reaped(r))
  /\ WF_vars((\E retry \in BOOLEAN : Resolve(r, retry)) \/ Settle(r)
             \/ RecordRun(r))
  /\ WF_vars(SupervisorReaps(r) \/ SupervisorFinalizes(r)
             \/ SupervisorAbandons(r))
  /\ WF_vars(rpc[r] = "dead" /\ DrainWorker(r))

UserFairness(u) ==
  /\ WF_vars(Reserve(u) \/ ReserveRefused(u) \/ StartGuardian(u)
             \/ Cancel(u) \/ ReleaseOwn(u) \/ GuardianExited(u))
  /\ WF_vars(HandedOver(u) \/ GiveUp(u))
  /\ WF_vars(Adopt(u) \/ SpawnGated(u) \/ RegisterChild(u)
             \/ OpenInteractive(u) \/ Finish(u) \/ HandBack(u))
  /\ WF_vars(ReapInteractive(u) /\ state[usess[u]] = "stop_requested")

Fairness ==
  /\ \A r \in Runs : RunFairness(r)
  /\ \A u \in Users : UserFairness(u)
  /\ \A x \in Rescuers :
       /\ SF_vars(\E s \in Sessions : Attach(x, s))
       /\ WF_vars(Claim(x) \/ RescuerStops(x) \/ RescuerFinalizes(x)
                  \/ RescuerLeaves(x))
  /\ \A c \in Schedulers :
       /\ \A s \in Sessions : SF_vars(ReadRow(c, s))
       /\ SF_vars(RecoverRow(c))
       /\ WF_vars(LeaveRow(c))
  /\ WF_vars(LeaseExpires /\ Gone(lease))
  /\ SF_vars(ReclaimLease)

FairSpec == Spec /\ Fairness

-----------------------------------------------------------------------------
(* Properties.                                                             *)

\* What the fence of a guardian rests on: an inline run renews its lease while
\* it lives, and so does every run where sessions are opened alongside it.
Punctual ==
  \A e \in Scenarios :
    /\ e.stall \cap e.inline = {}
    /\ "shared" \in e.modes => e.stall \cap Runs = {}

\* What the rescue of an orphan rests on: inline runs renew their leases, and
\* so do replacement supervisors, unless there is only one.
Prompt ==
  \A e \in Scenarios :
    /\ e.stall \cap e.inline = {}
    /\ \/ e.stall \cap Rescuers = {}
       \/ \A x, y \in e.cast \cap Rescuers : x = y

\* The columns of a row, the lease and the processes have their values.
TypeOK ==
  /\ state \in [Sessions -> RowStates]
  /\ child \in [Sessions -> Runs \cup Guardians \cup {None}]
  /\ token \in [Sessions -> Runs \cup {None}]
  /\ iholder \in [Sessions -> Users \cup Guardians \cup {None}]
  /\ ilaunch \in [Sessions -> Guardians \cup {None}]
  /\ lease \in Holders \cup {None} /\ expired \in BOOLEAN
  /\ workers \subseteq Runs \ Inline
  /\ rpc \in [Runs -> Active \cup {"off", "waiting", "done", "dead"}]
  /\ sess \in [Runs -> Sessions \cup {None}]
  /\ seen \in [Runs -> {"none", "stop", "interrupt"}]
  /\ todo \in [Runs -> BOOLEAN]
  /\ sup \in [Runs -> {"off", "watching", "orphaned", "finalizing", "gone"}]
  /\ codex \in [Runs -> {"off", "gated", "live", "gone"}]
  /\ gchild \in [Users -> {"off", "gated", "live", "gone"}]
  /\ parked \subseteq Sessions

AutomatedOn(s) ==
  {r \in Runs : codex[r] = "live" /\ sess[r] = s}

InteractiveOn(s) == {u \in Users : gchild[u] = "live" /\ usess[u] = s}

\* No two Codex processes ever work on one session: the launch gate stays
\* closed until the row names the child, and no recovery frees a row before
\* the recorded process group is absent.
OneCodexPerSession ==
  \A s \in Sessions :
    /\ Cardinality(AutomatedOn(s)) + Cardinality(InteractiveOn(s)) <= 1

\* A released Codex of a run keeps its session fenced: whoever died, the row
\* still names it and is not queued, stopped or gone, so no recovery and no
\* user can start another before this one is reaped.
RunIsFenced ==
  \A s \in Sessions : \A r \in AutomatedOn(s) :
    state[s] \in Automated /\ child[s] = r

\* Automated recovery never reinterprets the row of a live interactive
\* guardian, not even after a stop was asked for.
GuardianIsFenced ==
  \A s \in Sessions : \A u \in InteractiveOn(s) :
    state[s] \in {"interactive", "stop_requested"} /\ child[s] = Guardian[u]

\* A live Codex keeps its session fenced, whoever runs it and whoever died.
LiveChildIsFenced == RunIsFenced /\ GuardianIsFenced

\* Once an attempt to open a session is over it holds nothing: neither the
\* project lease nor the row, however its timeout raced the hand-off.
NoReservationLeftBehind ==
  \A u \in Users : upc[u] = "done" =>
    /\ lease # u
    /\ \A s \in Sessions : iholder[s] # u

\* Two replacement supervisors never look after one orphaned Codex, and none
\* runs beside a live runner: the claim is one lease insert, which the dead
\* supervisor of an earlier attempt does not block for ever.
OneRescuerPerRun ==
  \A r \in Runs :
    LET on == {x \in Rescuers : xpc[x] = "supervising" /\ xrun[x] = r}
    IN Cardinality(on) <= 1 /\ (on # {} => rpc[r] \in {"dead", "done"})

\* One controller: one Codex on a session, and when its runner died one
\* replacement supervisor.
OneController == OneCodexPerSession /\ OneRescuerPerRun

StopKept(s) ==
  state[s] = "stop_requested" => state'[s] \in {"stop_requested", "stopped"}

InterruptKept(s) ==
  state[s] = "interrupt_requested" =>
    \/ state'[s] = "interrupt_requested" /\ iholder'[s] = iholder[s]
    \/ state'[s] = "ready_interactive" /\ lease' = iholder[s]
    \/ state'[s] = "running" /\ upc[iholder[s]] = "cancelling"

\* No request is lost, whatever exits, crashes or recoveries it meets: a stop
\* leaves its row only for `stopped'; an interrupt is honoured with the lease
\* or withdrawn by the user who made it, and is never turned into a resume or
\* a deletion.
RequestsAreKept == [][\A s \in Sessions : StopKept(s) /\ InterruptKept(s)]_vars

Orphaned(s) ==
  \E u \in Users : gpc[u] = "dead" /\ gchild[u] = "live" /\ usess[u] = s

\* A requested stop is completed, whoever of the run, its supervisor and the
\* user dies.  The exception is deliberate: a session whose guardian died
\* stays fenced while its interactive Codex is alive.
StopCompletes ==
  \A s \in Sessions :
    state[s] = "stop_requested" ~> state[s] # "stop_requested" \/ Orphaned(s)

\* A hand-off never blocks its session for ever: a row reserved by a user who
\* is gone, or whose attempt is over, is given back.
ReservationEnds ==
  \A u \in Users, s \in Sessions :
    (upc[u] \in {"dead", "done"} /\ iholder[s] = u) ~> iholder[s] # u

\* An explicitly stopped session stays stopped: opening it interactively and
\* leaving it, or crashing in between, never queues it.  A session that was
\* opened alongside another owner is left out: its recovery does queue it.
StopStands ==
  \A s \in parked :
    \/ state[s] \in {"stopped", "ready_interactive", "interactive",
                     "stop_requested"}
    \/ \E u \in Users : usess[u] = s /\ mode[u] = "stopped_shared"

\* The registry promises at most one Codex that owns the project.
Owning ==
  {r \in Runs : codex[r] = "live"}
    \cup {u \in Users : gchild[u] = "live" /\ HoldsProjectLease(u)}
OneCodexPerProject == Cardinality(Owning) <= 1
=============================================================================
