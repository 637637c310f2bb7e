---------------------------- MODULE WorkerLeases ----------------------------
(***************************************************************************)
(* Durable project ownership of clt-rs: the `leases', `agent_workers' and  *)
(* `runs' tables (agent/repositories/workers_leases.rs), the schedulers    *)
(* that acquire leases, dispatch independent workers and reconcile them    *)
(* (scheduler.rs, worker.rs), and the worker processes that claim a        *)
(* reservation, renew it, hand it off and finalize it (worker.rs).         *)
(*                                                                         *)
(* Every *_blocking mutation runs under the registry writer lock           *)
(* (agent/runtime.rs, block_on_persist), so it is one step; what a caller  *)
(* reads before it is another step, and other actors move in between.      *)
(***************************************************************************)
EXTENDS Integers, FiniteSets

CONSTANTS
  Projects,        \* registered projects
  Tokens,          \* worker tokens; each dispatch draws a fresh one
  ProjectOf,       \* the project a token was generated for (it embeds the id)
  Schedulers,      \* scheduler processes: daemons, a foreground `agent run'
  MaxGlobalJobs,   \* each process reads its own CLT_AGENT_MAX_GLOBAL_JOBS
  Interactive,     \* the interactive holder that asks for a token's session
  Interrupted,     \* input: the tokens whose session a user asks to take over
  Mortal,          \* input: the schedulers that may crash
  None,            \* SQL NULL: no lease row, no token, no successor
  LeaseTimeout,    \* seconds a lease lives without renewal
  StaleTimeout,    \* startup and heartbeat timeout of a worker
  MaxTime,         \* bound: the clock stops here
  MaxLaunches      \* bound: service processes started per token

ASSUME ConstantTypes ==
  /\ ProjectOf \in [Tokens -> Projects]
  /\ MaxGlobalJobs \in [Schedulers -> Nat]
  /\ Interrupted \subseteq Tokens /\ Mortal \subseteq Schedulers
  /\ LeaseTimeout \in Nat /\ StaleTimeout \in Nat
  /\ MaxTime \in Nat /\ MaxLaunches \in Nat

\* clt-scheduler-PID, clt-worker-TOKEN and clt-interactive-* never collide.
ASSUME HoldersDistinct ==
  /\ Schedulers \cap Tokens = {}
  /\ None \notin Schedulers \cup Tokens \cup Projects
  /\ \A t \in Tokens : Interactive[t] \notin Schedulers \cup Tokens \cup {None}
  /\ \A t, u \in Tokens : Interactive[t] = Interactive[u] => t = u

ASSUME FiniteTokens == IsFiniteSet(Tokens)

Holders == Schedulers \cup Tokens \cup {Interactive[t] : t \in Tokens}

VARIABLES
  now,         \* the wall clock, in the seconds the tables store
  lease,       \* leases.holder of each project, or None
  expires,     \* leases.expires_at (0 when there is no row)
  wstate,      \* agent_workers.state
  wpid,        \* agent_workers.worker_pid (0 is NULL)
  heartbeat,   \* agent_workers.heartbeat_at; created_at while dispatching
  run,         \* the run recorded for the token (runs.worker_token is unique)
  failures,    \* projects.failure_count
  guardian,    \* who has a token's session after the worker: an interactive
               \* process, or ("queued") nobody until it is resumed
  proc,        \* what the token's service process is doing
  launches,    \* launches of the service so far: the pid of the last one
  codex,       \* the tokens whose Codex child is executing in the project
  successor,   \* lease holder a failing worker saw before abandoning itself
  spc,         \* what a scheduler is doing
  held,        \* projects whose lease a scheduler acquired for a job
  settled,     \* projects this pass is done with: busy, or already visited
  obs          \* the row or lease a scheduler read and is acting upon

tables == <<lease, expires, wstate, wpid, heartbeat, run, failures>>
procs  == <<proc, launches, codex, successor>>
scheds == <<spc, held, settled, obs>>
vars   == <<now, tables, guardian, procs, scheds>>

-----------------------------------------------------------------------------
(* The rows.  'finalizing' is written and left in one transaction, so no  *)
(* other actor sees it.                                                    *)

ActiveStates   == {"dispatching", "running"}
TerminalStates == {"abandoned", "superseded", "completed"}
WorkerStates   == {"absent"} \cup ActiveStates \cup TerminalStates
\* Statuses that update_project_after_run treats alike share a name: "success"
\* is also idle, "failure" also timeout, "blocked" also stopped.
RunStatus      == {"success", "failure", "blocked", "handoff"}

Active(t)   == wstate[t] \in ActiveStates
Terminal(t) == wstate[t] \in TerminalStates

ActiveWorkers == {t \in Tokens : Active(t)}

\* Mutant: every end but a success adds up.
FailuresAfterAnyEnd(p, status) ==
  IF status = "success" THEN 0 ELSE failures[p] + 1

\* Mutant: a success takes one failure back.
FailuresAfterDecay(p, status) ==
  CASE status = "success" -> failures[p] - 1
    [] status = "failure" -> failures[p] + 1
    [] OTHER -> failures[p]

\* update_project_after_run: only failures add up, only a success clears.
FailuresAfter(p, status) ==
  CASE status = "success" -> 0
    [] status = "failure" -> failures[p] + 1
    [] OTHER -> failures[p]

\* INSERT OR IGNORE INTO runs, and the project update when it inserted.
RecordRun(t, status) ==
  IF run[t] = "none"
  THEN /\ run' = [run EXCEPT ![t] = status]
       /\ failures' = [failures EXCEPT
                         ![ProjectOf[t]] = FailuresAfter(ProjectOf[t], status)]
  ELSE UNCHANGED <<run, failures>>

\* DELETE FROM leases WHERE project_id = p AND holder = h
ReleaseLease(p, h) ==
  IF lease[p] = h
  THEN /\ lease' = [lease EXCEPT ![p] = None]
       /\ expires' = [expires EXCEPT ![p] = 0]
  ELSE UNCHANGED <<lease, expires>>

WriteLease(p, h) ==
  /\ lease' = [lease EXCEPT ![p] = h]
  /\ expires' = [expires EXCEPT ![p] = now + LeaseTimeout]

Expired(p) == expires[p] <= now

\* A lease held by an active worker's own holder is fenced by that worker.
WorkerFenced(p, h) == \E t \in ActiveWorkers : ProjectOf[t] = p /\ h = t

\* Mutant: expiry alone frees a lease.
CanAcquireExpired(p) == lease[p] = None \/ Expired(p)

\* try_acquire_lease deletes an expired unfenced row, then inserts.
CanAcquire(p) ==
  \/ lease[p] = None
  \/ Expired(p) /\ ~WorkerFenced(p, lease[p])

\* Mutant: the observed row is not compared again.
CanAbandonUncompared(t, state, pid, beat, succ) ==
  lease[ProjectOf[t]] \in {None, t, succ}

\* abandon_worker: compare state, pid and heartbeat with what was observed;
\* a foreign lease is tolerated only if it is the observed successor's.
CanAbandon(t, state, pid, beat, succ) ==
  /\ wstate[t] = state /\ wpid[t] = pid /\ heartbeat[t] = beat
  /\ lease[ProjectOf[t]] \in {None, t, succ}

AbandonWorker(t) ==
  /\ wstate' = [wstate EXCEPT ![t] = "abandoned"]
  /\ RecordRun(t, "failure")
  /\ ReleaseLease(ProjectOf[t], t)
  /\ UNCHANGED <<wpid, heartbeat>>

-----------------------------------------------------------------------------
(* What a scheduler read: a worker's row, or a project's lease.           *)

SeenRow(t, state, pid, beat, age, h) ==
  [token |-> t, project |-> ProjectOf[t], state |-> state, pid |-> pid,
   heartbeat |-> beat, age |-> age, holder |-> h]

SeenLease(p, h) ==
  [token |-> None, project |-> p, state |-> "absent", pid |-> 0,
   heartbeat |-> 0, age |-> "fresh", holder |-> h]

NoObs == SeenLease(None, None)

Init ==
  /\ now = 0
  /\ lease = [p \in Projects |-> None]
  /\ expires = [p \in Projects |-> 0]
  /\ wstate = [t \in Tokens |-> "absent"]
  /\ wpid = [t \in Tokens |-> 0]
  /\ heartbeat = [t \in Tokens |-> 0]
  /\ run = [t \in Tokens |-> "none"]
  /\ failures = [p \in Projects |-> 0]
  /\ guardian = [t \in Tokens |-> "none"]
  /\ proc = [t \in Tokens |-> "off"]
  /\ launches = [t \in Tokens |-> 0]
  /\ codex = {}
  /\ successor = [t \in Tokens |-> None]
  /\ spc = [s \in Schedulers |-> "reconcile"]
  /\ held = [s \in Schedulers |-> {}]
  /\ settled = [s \in Schedulers |-> {}]
  /\ obs = [s \in Schedulers |-> NoObs]

Tick ==
  /\ now < MaxTime
  /\ now' = now + 1
  /\ UNCHANGED <<tables, guardian, procs, scheds>>

Goto(s, pc) == spc' = [spc EXCEPT ![s] = pc]

\* Leave the row that was acted upon.
Resume(s, pc) == Goto(s, pc) /\ obs' = [obs EXCEPT ![s] = NoObs]

-----------------------------------------------------------------------------
(* Scheduler, first half of a pass: reconcile_agent_worker_effects_stage. *)

\* agent_worker_observation_is_stale
ObservedAge(beat) == IF now - beat >= StaleTimeout THEN "stale" ELSE "fresh"

\* list_active_workers: the row, and whether it is stale at this pass's time.
ObserveWorker(s, t) ==
  /\ spc[s] = "reconcile" /\ Active(t)
  /\ obs' = [obs EXCEPT ![s] =
               SeenRow(t, wstate[t], wpid[t], heartbeat[t],
                       ObservedAge(heartbeat[t]), None)]
  /\ Goto(s, "assess")
  /\ UNCHANGED <<now, tables, guardian, procs, held, settled>>

\* The token has no worker process, though its Codex supervisor may be there.
Processless == {"off", "orphaned", "mourning", "burying"}

\* What local_process_is_running may say of a recorded pid: `ps' can fail,
\* and the pid of a dead process can have been given to another one.
ProcessReports(t, pid) ==
  CASE pid = 0 -> {"unknown"}
    [] proc[t] \notin Processless /\ launches[t] = pid -> {"alive", "unknown"}
    [] OTHER -> {"dead", "alive", "unknown"}

\* Mutant: only a process seen dead is given up.
MustAbandonDead(o, holder, report) == o.state = "running" /\ report = "dead"

\* The abandonment_reason of an independent worker.
MustAbandon(o, holder, report) ==
  IF holder # o.token
  THEN ~(report = "alive" /\ ~(o.state = "running" /\ o.age = "stale"))
  ELSE \/ o.age = "stale"
       \/ o.state = "running" /\ (report = "dead" \/ o.pid = 0)

AssessWorker(s) ==
  /\ spc[s] = "assess"
  /\ LET o == obs[s]
         h == lease[o.project]
     IN \E report \in ProcessReports(o.token, o.pid) :
          IF MustAbandon(o, h, report)
          THEN /\ Goto(s, "drain")
               /\ obs' = [obs EXCEPT ![s] =
                            SeenRow(o.token, o.state, o.pid, o.heartbeat, o.age,
                                    IF h = o.token THEN None ELSE h)]
          ELSE IF o.state = "dispatching"
               THEN Goto(s, "relaunch") /\ UNCHANGED obs
               ELSE Resume(s, "reconcile")
  /\ UNCHANGED <<now, tables, guardian, procs, held, settled>>

\* Mutant: KillMode=process, the Codex child survives the stop.
KillMainProcess(t) ==
  /\ proc' = [proc EXCEPT ![t] = "off"]
  /\ successor' = [successor EXCEPT ![t] = None]
  /\ UNCHANGED <<launches, codex>>

\* drain_agent_worker_service: stop the unit with its control group, then
\* ask whether it is still active.
KillService(t) ==
  /\ proc' = [proc EXCEPT ![t] = "off"]
  /\ codex' = codex \ {t}
  /\ successor' = [successor EXCEPT ![t] = None]
  /\ UNCHANGED launches

DrainWorker(s) ==
  /\ spc[s] = "drain"
  /\ KillService(obs[s].token)
  /\ Goto(s, "abandon")
  /\ UNCHANGED <<now, tables, guardian, held, settled, obs>>

\* The stop request failed, or killed the service and then the query failed.
DrainFails(s) ==
  /\ spc[s] = "drain"
  /\ \/ UNCHANGED procs
     \/ KillService(obs[s].token)
  /\ Resume(s, "reconcile")
  /\ UNCHANGED <<now, tables, guardian, held, settled>>

\* abandon_worker with the observed row, after the drain ("abandon") or after
\* a launch that reported an error ("undo", no successor permitted).
AbandonObserved(s) ==
  /\ spc[s] \in {"abandon", "undo"}
  /\ LET o == obs[s]
     IN IF CanAbandon(o.token, o.state, o.pid, o.heartbeat, o.holder)
        THEN AbandonWorker(o.token)
        ELSE UNCHANGED tables
  /\ Resume(s, IF spc[s] = "undo" THEN "dispatch" ELSE "reconcile")
  /\ UNCHANGED <<now, guardian, procs, held, settled>>

\* launch_agent_worker_service: nothing happens while the unit is active.
StartService(t) ==
  /\ proc[t] = "off"
  /\ launches[t] < MaxLaunches
  /\ proc' = [proc EXCEPT ![t] = "starting"]
  /\ launches' = [launches EXCEPT ![t] = @ + 1]
  /\ UNCHANGED <<codex, successor>>

RelaunchWorker(s) ==
  /\ spc[s] = "relaunch"
  /\ StartService(obs[s].token) \/ UNCHANGED procs
  /\ Resume(s, "reconcile")
  /\ UNCHANGED <<now, tables, guardian, held, settled>>

\* The second list_active_workers: those projects are left alone in this pass.
FinishReconcile(s) ==
  /\ spc[s] = "reconcile"
  /\ settled' = [settled EXCEPT ![s] = {ProjectOf[t] : t \in ActiveWorkers}]
  /\ Goto(s, "schedule")
  /\ UNCHANGED <<now, tables, guardian, procs, held, obs>>

-----------------------------------------------------------------------------
(* Scheduler, second half: acquire_agent_job_stage and dispatch.          *)

\* A project of this pass that has no job yet.
Candidate(s, p) == spc[s] = "schedule" /\ p \notin settled[s] \cup held[s]

Settle(s, p) == settled' = [settled EXCEPT ![s] = @ \cup {p}]

TryAcquireLease(s, p) ==
  /\ Candidate(s, p)
  /\ IF CanAcquire(p)
     THEN /\ WriteLease(p, s)
          /\ held' = [held EXCEPT ![s] = @ \cup {p}]
          /\ UNCHANGED <<spc, obs>>
     ELSE /\ Goto(s, "inspect")
          /\ obs' = [obs EXCEPT ![s] = SeenLease(p, None)]
          /\ UNCHANGED <<lease, expires, held>>
  /\ UNCHANGED <<now, wstate, wpid, heartbeat, run, failures, guardian, procs,
                 settled>>

\* Mutant: a scheduler's lease is left to expire, dead or not.
InteractiveHolderDead(h) ==
  \E t \in Tokens : h = Interactive[t] /\ guardian[t] = "dead"

\* The holder's process is gone.  A dead interactive owner counts once its
\* session control has been recovered, which the same pass does first.
HolderDead(h) ==
  \/ h \in Schedulers /\ spc[h] = "dead"
  \/ \E t \in Tokens : h = Interactive[t] /\ guardian[t] = "dead"

\* The lease read after a refused acquisition: agent_lease_is_reclaimable.
InspectLease(s) ==
  LET p == obs[s].project IN
  /\ spc[s] = "inspect"
  /\ IF lease[p] # None /\ (Expired(p) \/ HolderDead(lease[p]))
     THEN /\ Goto(s, "fence")
          /\ obs' = [obs EXCEPT ![s] = SeenLease(p, lease[p])]
          /\ UNCHANGED settled
     ELSE Resume(s, "schedule") /\ Settle(s, p)
  /\ UNCHANGED <<now, tables, guardian, procs, held>>

\* try_reclaim_inactive_agent_lease: the workers are read, then
\* the lease that was inspected is released by its exact holder.
CheckWorkerFence(s) ==
  /\ spc[s] = "fence"
  /\ IF WorkerFenced(obs[s].project, obs[s].holder)
     THEN Resume(s, "schedule") /\ Settle(s, obs[s].project)
     ELSE Goto(s, "reclaim") /\ UNCHANGED <<obs, settled>>
  /\ UNCHANGED <<now, tables, guardian, procs, held>>

ReclaimLease(s) ==
  /\ spc[s] = "reclaim"
  /\ ReleaseLease(obs[s].project, obs[s].holder)
  /\ Resume(s, "schedule")
  /\ UNCHANGED <<now, wstate, wpid, heartbeat, run, failures, guardian, procs,
                 held, settled>>

\* A suspending session control, a failed pass (AgentUnstartedLeaseGuard), a
\* shutdown, a failed prepare_worker, or a refused reservation ("refused").
ReleaseUnstarted(s, p) ==
  /\ p \in held[s]
  /\ \/ spc[s] \in {"schedule", "dispatch"}
     \/ spc[s] = "refused" /\ obs[s].project = p
  /\ ReleaseLease(p, s)
  /\ held' = [held EXCEPT ![s] = @ \ {p}]
  /\ IF spc[s] = "refused" THEN Resume(s, "dispatch") ELSE UNCHANGED <<spc, obs>>
  /\ Settle(s, p)
  /\ UNCHANGED <<now, wstate, wpid, heartbeat, run, failures, guardian, procs>>

FinishSchedule(s) ==
  /\ spc[s] = "schedule"
  /\ Goto(s, "dispatch")
  /\ UNCHANGED <<now, tables, guardian, procs, held, settled, obs>>

\* Mutant: one worker too many.
CanReserveOneMore(s, p) ==
  /\ Cardinality(ActiveWorkers) <= MaxGlobalJobs[s]
  /\ \A t \in ActiveWorkers : ProjectOf[t] # p
  /\ lease[p] = s

\* reserve_worker: capacity, the one-active-worker index and the lease CAS.
CanReserve(s, p) ==
  /\ Cardinality(ActiveWorkers) < MaxGlobalJobs[s]
  /\ \A t \in ActiveWorkers : ProjectOf[t] # p
  /\ lease[p] = s

ReserveWorker(s, t) ==
  LET p == ProjectOf[t] IN
  /\ spc[s] = "dispatch" /\ p \in held[s]
  /\ wstate[t] = "absent" /\ CanReserve(s, p)
  /\ wstate' = [u \in Tokens |->
                  IF u = t THEN "dispatching"
                  ELSE IF ProjectOf[u] = p /\ wstate[u] = "abandoned"
                       THEN "superseded" ELSE wstate[u]]
  /\ heartbeat' = [heartbeat EXCEPT ![t] = now]
  /\ lease' = [lease EXCEPT ![p] = t]
  /\ held' = [held EXCEPT ![s] = @ \ {p}]
  /\ \/ /\ Goto(s, "launch")
        /\ obs' = [obs EXCEPT ![s] =
                     SeenRow(t, "dispatching", 0, now, "fresh", None)]
     \/ UNCHANGED <<spc, obs>>  \* committed, but the call reported an error
  /\ UNCHANGED <<now, expires, wpid, run, failures, guardian, procs, settled>>

ReservationRefused(s, p) ==
  /\ spc[s] = "dispatch" /\ p \in held[s] /\ ~CanReserve(s, p)
  /\ Goto(s, "refused")
  /\ obs' = [obs EXCEPT ![s] = SeenLease(p, None)]
  /\ UNCHANGED <<now, tables, guardian, procs, held, settled>>

\* The first launch of a reserved worker; an error does not say whether the
\* service manager started it.
LaunchWorker(s) ==
  /\ spc[s] = "launch"
  /\ \/ StartService(obs[s].token) /\ Resume(s, "dispatch")
     \/ proc[obs[s].token] # "off" /\ UNCHANGED procs /\ Resume(s, "dispatch")
     \/ /\ StartService(obs[s].token) \/ UNCHANGED procs
        /\ Goto(s, "undo") /\ UNCHANGED obs
  /\ UNCHANGED <<now, tables, guardian, held, settled>>

FinishDispatch(s) ==
  /\ spc[s] = "dispatch" /\ held[s] = {}
  /\ Goto(s, "reconcile")
  /\ settled' = [settled EXCEPT ![s] = {}]
  /\ UNCHANGED <<now, tables, guardian, procs, held, obs>>

\* The process dies with whatever it had acquired; a replacement is another
\* member of Schedulers, because the holder name carries the pid.
SchedulerCrash(s) ==
  /\ s \in Mortal /\ spc[s] # "dead"
  /\ Resume(s, "dead")
  /\ held' = [held EXCEPT ![s] = {}]
  /\ settled' = [settled EXCEPT ![s] = {}]
  /\ UNCHANGED <<now, tables, guardian, procs>>

-----------------------------------------------------------------------------
(* The worker process: run_independent_agent_worker, run_agent_job_inner. *)

MoveTo(t, pc) == proc' = [proc EXCEPT ![t] = pc]

OwnsLease(t) == lease[ProjectOf[t]] = t

\* claim_worker, including its idempotent second branch.
CanClaim(t) ==
  /\ OwnsLease(t)
  /\ \/ wstate[t] = "dispatching"
     \/ wstate[t] = "running" /\ wpid[t] = launches[t]

ClaimWorker(t) ==
  /\ proc[t] = "starting"
  /\ IF CanClaim(t)
     THEN /\ MoveTo(t, "running")
          /\ codex' = codex \cup {t}
          /\ IF wstate[t] = "dispatching"
             THEN /\ wstate' = [wstate EXCEPT ![t] = "running"]
                  /\ wpid' = [wpid EXCEPT ![t] = launches[t]]
                  /\ heartbeat' = [heartbeat EXCEPT ![t] = now]
             ELSE UNCHANGED <<wstate, wpid, heartbeat>>
     ELSE MoveTo(t, "off") /\ UNCHANGED <<codex, wstate, wpid, heartbeat>>
  /\ UNCHANGED <<now, lease, expires, run, failures, guardian, launches,
                 successor, scheds>>

\* renew_worker succeeds only for the claimed, running row that owns its lease.
CanRenew(t) ==
  wstate[t] = "running" /\ wpid[t] = launches[t] /\ OwnsLease(t)

\* The fence is renewed during the run and once more after it; a refused
\* renewal stops Codex and fails the job.
RenewWorker(t) ==
  /\ proc[t] \in {"running", "reaped"}
  /\ IF CanRenew(t)
     THEN /\ heartbeat' = [heartbeat EXCEPT ![t] = now]
          /\ expires' = [expires EXCEPT ![ProjectOf[t]] = now + LeaseTimeout]
          /\ MoveTo(t, IF proc[t] = "reaped" THEN "fenced" ELSE "running")
          /\ UNCHANGED codex
     ELSE /\ MoveTo(t, "failing")
          /\ codex' = codex \ {t}
          /\ UNCHANGED <<heartbeat, expires>>
  /\ UNCHANGED <<now, lease, wstate, wpid, run, failures, guardian, launches,
                 successor, scheds>>

\* The supervised child is reaped before anything is recorded.
CodexExits(t) ==
  /\ proc[t] = "running"
  /\ MoveTo(t, "reaped")
  /\ codex' = codex \ {t}
  /\ UNCHANGED <<now, tables, guardian, launches, successor, scheds>>

\* complete_session_interrupt_handoff: the lease goes to the interactive owner
\* that requested the session.
HandOff(t) ==
  /\ t \in Interrupted /\ proc[t] = "fenced" /\ OwnsLease(t)
  /\ WriteLease(ProjectOf[t], Interactive[t])
  /\ guardian' = [guardian EXCEPT ![t] = "live"]
  /\ MoveTo(t, "handedoff")
  /\ UNCHANGED <<now, wstate, wpid, heartbeat, run, failures, launches, codex,
                 successor, scheds>>

FinalizationHolder(t) ==
  IF proc[t] = "handedoff" THEN Interactive[t] ELSE t

CanFinalize(t) ==
  Active(t) /\ wpid[t] = launches[t] /\ lease[ProjectOf[t]] = FinalizationHolder(t)

\* finalize_worker: run, project counters, worker row and own lease at once.
FinalizeWorker(t, status) ==
  /\ \/ proc[t] = "fenced" /\ status # "handoff"
     \/ proc[t] = "handedoff" /\ status = "handoff"
  /\ IF CanFinalize(t)
     THEN /\ wstate' = [wstate EXCEPT ![t] = "completed"]
          /\ RecordRun(t, status)
          /\ ReleaseLease(ProjectOf[t], t)
          /\ MoveTo(t, "off")
     ELSE MoveTo(t, "failing") /\ UNCHANGED <<wstate, run, failures, lease, expires>>
  /\ UNCHANGED <<now, wpid, heartbeat, guardian, launches, codex, successor, scheds>>

\* abandon_agent_worker_after_error runs twice on the way out: in
\* run_agent_job ("failing") and in run_independent_agent_worker ("retrying").
ObserveOwnLease(t) ==
  /\ proc[t] \in {"failing", "retrying"}
  /\ IF Active(t)
     THEN LET h == lease[ProjectOf[t]] IN
          /\ MoveTo(t, IF proc[t] = "failing" THEN "abandoning" ELSE "reabandoning")
          /\ successor' = [successor EXCEPT ![t] = IF h = t THEN None ELSE h]
     ELSE MoveTo(t, "off") /\ UNCHANGED successor
  /\ UNCHANGED <<now, tables, guardian, launches, codex, scheds>>

\* Where a refused abandonment leads.
AfterRefusal(pc) ==
  CASE pc = "abandoning" -> "retrying"
    [] pc = "burying" -> "mourning"
    [] OTHER -> "off"

\* By the worker itself, or by the Codex supervisor it left behind.
AbandonOwn(t) ==
  /\ proc[t] \in {"abandoning", "reabandoning", "burying"}
  /\ IF CanAbandon(t, "running", launches[t], heartbeat[t], successor[t])
     THEN AbandonWorker(t) /\ MoveTo(t, "off")
     ELSE MoveTo(t, AfterRefusal(proc[t])) /\ UNCHANGED tables
  /\ successor' = [successor EXCEPT ![t] = None]
  /\ UNCHANGED <<now, guardian, launches, codex, scheds>>

\* The process dies; the supervisor and the Codex child may outlive it.
WorkerCrash(t) ==
  /\ proc[t] \notin Processless
  /\ MoveTo(t, IF t \in codex THEN "orphaned" ELSE "off")
  /\ successor' = [successor EXCEPT ![t] = None]
  /\ UNCHANGED <<now, tables, guardian, launches, codex, scheds>>

\* The supervisor sees the closed pipe and reaps Codex, or dies with it when
\* the service manager clears the control group.
OrphanReaped(t) ==
  /\ proc[t] = "orphaned"
  /\ codex' = codex \ {t}
  /\ MoveTo(t, "mourning") \/ MoveTo(t, "off")
  /\ UNCHANGED <<now, tables, guardian, launches, successor, scheds>>

\* finalize_reaped_automated_session: the session row is known.  Its lease is
\* released, or goes to the interactive owner that asked for the session.
SettleOrphan(t) ==
  LET p == ProjectOf[t] IN
  /\ proc[t] = "mourning"
  /\ \/ /\ ReleaseLease(p, t)
        /\ guardian' = [guardian EXCEPT ![t] = "queued"]
     \/ /\ t \in Interrupted /\ lease[p] \in {None, t}
        /\ WriteLease(p, Interactive[t])
        /\ guardian' = [guardian EXCEPT ![t] = "live"]
  /\ MoveTo(t, "off")
  /\ UNCHANGED <<now, wstate, wpid, heartbeat, run, failures, launches, codex,
                 successor, scheds>>

\* finalize_reaped_unregistered_agent_worker: Codex died before its session was
\* known, so the supervisor abandons the worker (AbandonOwn) until it succeeds.
ObserveOrphan(t) ==
  LET h == lease[ProjectOf[t]] IN
  /\ proc[t] = "mourning"
  /\ IF Active(t)
     THEN /\ MoveTo(t, "burying")
          /\ successor' = [successor EXCEPT ![t] = IF h = t THEN None ELSE h]
          /\ UNCHANGED <<lease, expires>>
     ELSE MoveTo(t, "off") /\ ReleaseLease(ProjectOf[t], t) /\ UNCHANGED successor
  /\ UNCHANGED <<now, wstate, wpid, heartbeat, run, failures, guardian, launches,
                 codex, scheds>>

-----------------------------------------------------------------------------
(* The interactive owner of a handed-off session (session_control.rs).    *)

RenewInteractive(t) ==
  /\ guardian[t] = "live" /\ lease[ProjectOf[t]] = Interactive[t]
  /\ expires' = [expires EXCEPT ![ProjectOf[t]] = now + LeaseTimeout]
  /\ UNCHANGED <<now, lease, wstate, wpid, heartbeat, run, failures, guardian,
                 procs, scheds>>

FinishInteractive(t) ==
  /\ guardian[t] = "live"
  /\ ReleaseLease(ProjectOf[t], Interactive[t])
  /\ guardian' = [guardian EXCEPT ![t] = "done"]
  /\ UNCHANGED <<now, wstate, wpid, heartbeat, run, failures, procs, scheds>>

InteractiveDies(t) ==
  /\ guardian[t] = "live"
  /\ guardian' = [guardian EXCEPT ![t] = "dead"]
  /\ UNCHANGED <<now, tables, procs, scheds>>

-----------------------------------------------------------------------------
SchedulerStep(s) ==
  \/ AssessWorker(s) \/ DrainWorker(s) \/ DrainFails(s) \/ AbandonObserved(s)
  \/ RelaunchWorker(s) \/ FinishReconcile(s)
  \/ InspectLease(s) \/ CheckWorkerFence(s)
  \/ ReclaimLease(s) \/ FinishSchedule(s) \/ LaunchWorker(s)
  \/ FinishDispatch(s) \/ SchedulerCrash(s)
  \/ \E t \in Tokens : ObserveWorker(s, t) \/ ReserveWorker(s, t)
  \/ \E p \in Projects : \/ TryAcquireLease(s, p)
                         \/ ReleaseUnstarted(s, p) \/ ReservationRefused(s, p)

WorkerStep(t) ==
  \/ ClaimWorker(t) \/ RenewWorker(t) \/ CodexExits(t) \/ HandOff(t)
  \/ \E status \in RunStatus : FinalizeWorker(t, status)
  \/ ObserveOwnLease(t) \/ AbandonOwn(t) \/ WorkerCrash(t) \/ OrphanReaped(t)
  \/ SettleOrphan(t) \/ ObserveOrphan(t)

InteractiveStep(t) ==
  RenewInteractive(t) \/ FinishInteractive(t) \/ InteractiveDies(t)

Next ==
  \/ Tick
  \/ \E s \in Schedulers : SchedulerStep(s)
  \/ \E t \in Tokens : WorkerStep(t) \/ InteractiveStep(t)

Spec == Init /\ [][Next]_vars

\* What the daemon loop guarantees of a scheduler that stays up: it keeps
\* taking passes, a pass visits every active worker and every candidate
\* project, and a drain that is retried in every pass succeeds in the end.
\* Nothing is assumed of worker and interactive processes.
SchedulerFairness(s) ==
  /\ WF_vars(SchedulerStep(s))
  /\ SF_vars(FinishSchedule(s)) /\ SF_vars(DrainWorker(s))
  /\ \A t \in Tokens : SF_vars(ObserveWorker(s, t))
  /\ \A p \in Projects : SF_vars(TryAcquireLease(s, p))

FairSpec ==
  /\ Spec
  /\ WF_vars(Tick)
  /\ \A s \in Schedulers \ Mortal : SchedulerFairness(s)

-----------------------------------------------------------------------------
ProcStates ==
  {"off", "starting", "running", "reaped", "fenced", "handedoff",
   "failing", "abandoning", "retrying", "reabandoning",
   "orphaned", "mourning", "burying"}

SchedulerStates ==
  {"reconcile", "assess", "drain", "abandon", "relaunch", "schedule",
   "inspect", "fence", "reclaim", "dispatch", "refused", "launch", "undo", "dead"}

Observations ==
  [token : Tokens \cup {None}, project : Projects \cup {None},
   state : WorkerStates, pid : Nat, heartbeat : Nat, age : {"fresh", "stale"},
   holder : Holders \cup {None}]

TableTypes ==
  /\ lease \in [Projects -> Holders \cup {None}]
  /\ expires \in [Projects -> Nat]
  /\ wstate \in [Tokens -> WorkerStates]
  /\ wpid \in [Tokens -> Nat]
  /\ heartbeat \in [Tokens -> Nat]
  /\ run \in [Tokens -> RunStatus \cup {"none"}]
  /\ failures \in [Projects -> Nat]

ProcessTypes ==
  /\ guardian \in [Tokens -> {"none", "queued", "live", "done", "dead"}]
  /\ proc \in [Tokens -> ProcStates]
  /\ launches \in [Tokens -> Nat]
  /\ codex \subseteq Tokens
  /\ successor \in [Tokens -> Holders \cup {None}]

SchedulerTypes ==
  /\ spc \in [Schedulers -> SchedulerStates]
  /\ held \in [Schedulers -> SUBSET Projects]
  /\ settled \in [Schedulers -> SUBSET Projects]
  /\ obs \in [Schedulers -> Observations]

\* The rows, processes and scheduler locals keep their types.
TypeOK == now \in Nat /\ TableTypes /\ ProcessTypes /\ SchedulerTypes

\* Two workers never run Codex in one project at the same time: whoever
\* abandons a worker has drained its service before the lease is free again
\* (worker.rs, reconcile_agent_worker_effects_stage).
ExclusiveCodex ==
  \A t, u \in codex : ProjectOf[t] = ProjectOf[u] => t = u

\* An active worker whose session was neither handed off nor, after its death,
\* settled by its Codex supervisor holds its project's lease, expired or not: no
\* acquisition, reclaim or late release of another process takes it
\* (try_acquire_lease, try_reclaim_inactive_agent_lease).
ActiveWorkerKeepsLease ==
  \A t \in Tokens : Active(t) /\ guardian[t] = "none" => OwnsLease(t)

\* A lease that names a worker names an active worker of that project: no path
\* that ends a worker leaves its lease behind, which would close the project
\* to everyone until the lease expires (abandon_worker, finalize_worker).
WorkerLeaseIsLive ==
  \A p \in Projects :
    lease[p] \in Tokens => Active(lease[p]) /\ ProjectOf[lease[p]] = p

\* Leases and worker rows agree in both directions, through every hand-off,
\* expiry, reclaim and crash: nobody loses a lease it works under, and no
\* lease is left by a worker that ended.
WorkerLeaseDiscipline == ActiveWorkerKeepsLease /\ WorkerLeaseIsLive

\* A worker's run is recorded exactly when its row becomes terminal, whoever of
\* the worker and the reconcilers gets there first (abandon_worker and
\* finalize_worker both insert under the unique runs.worker_token).
RunRecordedAtTermination ==
  \A t \in Tokens : run[t] # "none" <=> Terminal(t)

\* What ended a worker is final: a worker that was abandoned while it was still
\* finishing cannot complete, and its recorded run is never rewritten
\* (abandon_worker against finalize_worker and the worker's own abandonment).
TerminationIsFinal ==
  [][\A t \in Tokens :
       Terminal(t) => /\ wstate'[t] \in TerminalStates
                      /\ wstate[t] = "completed" <=> wstate'[t] = "completed"
                      /\ run'[t] = run[t]]_vars

\* The active worker of a project; OneActiveWorker says there is one at most.
Owner(p) ==
  IF \E t \in ActiveWorkers : ProjectOf[t] = p
  THEN CHOOSE t \in ActiveWorkers : ProjectOf[t] = p ELSE None

\* Rows, Codex and runs as ProjectOwnership sees them.
Owned == INSTANCE ProjectOwnership WITH
  Jobs <- Tokens, Outcomes <- RunStatus,
  owner <- [p \in Projects |-> Owner(p)], working <- codex, outcome <- run,
  finished <- {t \in Tokens : wstate[t] = "completed"}

\* However observations, crashes, late claims and retried launches interleave,
\* workers own their project as in ProjectOwnership: one after the other, Codex
\* only for the owner, and each ends once, with its Codex gone and its run
\* recorded in the same step (reserve_worker, claim_worker, abandon_worker,
\* finalize_worker).
IsOwnership == Owned!Spec

\* failure_count never exceeds the failed runs of the project: a failure seen
\* by a scheduler and by the worker itself is counted once.
FailuresCountedOnce ==
  \A p \in Projects :
    failures[p] <= Cardinality({t \in Tokens : ProjectOf[t] = p /\ run[t] = "failure"})

\* The account of a worker that several actors end at once: one run, recorded
\* when the row becomes terminal, and one failure at most.
RunsAccounted == RunRecordedAtTermination /\ FailuresCountedOnce

\* However the processes' limits differ, the number of active workers stays
\* within the largest of them (reserve_worker counts in its transaction).
WithinCapacity ==
  ActiveWorkers # {} =>
    \E s \in Schedulers : Cardinality(ActiveWorkers) <= MaxGlobalJobs[s]

\* A worker keeps its heartbeat moving or is taken down: whatever happened to
\* its process, a heartbeat that can become stale before the clock's bound does
\* not stay the heartbeat of an active row (the two 60-second timeouts).
HeartbeatOrTermination ==
  \A t \in Tokens : \A h \in 0 .. (MaxTime - StaleTimeout) :
    (Active(t) /\ heartbeat[t] = h) ~> ~(Active(t) /\ heartbeat[t] = h)

\* A scheduler that dies between acquiring a lease and dispatching its worker
\* does not keep the project: once no worker of the project is left, the lease
\* is reclaimed (agent_lease_is_reclaimable on a dead holder).
DeadSchedulerLosesLease ==
  \A p \in Projects : \A s \in Mortal :
    (lease[p] = s /\ spc[s] = "dead" /\ \A t \in ActiveWorkers : ProjectOf[t] # p)
      ~> lease[p] # s

-----------------------------------------------------------------------------
(* The inductive strengthening of the invariants above.                   *)

RowObserved(s)   == spc[s] \in {"assess", "drain", "abandon", "relaunch", "launch", "undo"}
LeaseObserved(s) == spc[s] \in {"inspect", "fence", "reclaim", "refused"}

\* What a scheduler acts upon is a row it saw active, or a project's lease.
ObservationsWellFormed ==
  \A s \in Schedulers :
    /\ RowObserved(s) => /\ obs[s].token \in Tokens
                         /\ obs[s].project = ProjectOf[obs[s].token]
                         /\ obs[s].state \in ActiveStates
    /\ spc[s] \in {"launch", "undo"} => obs[s].state = "dispatching"
    /\ LeaseObserved(s) => obs[s].project \in Projects

\* A process that has not claimed yet is newer than any recorded pid, so the
\* idempotent branch of claim_worker cannot revive a drained generation.
UnclaimedIsNewer ==
  \A t \in Tokens : /\ wpid[t] <= launches[t]
                    /\ proc[t] = "starting" => wpid[t] < launches[t]

\* Codex executes only for a running row, under a process that still
\* supervises it or has just died.
CodexNeedsRunningRow ==
  \A t \in codex : wstate[t] = "running" /\ proc[t] \in {"running", "orphaned"}

\* A row observed running was claimed, and once drained it runs nothing more.
DrainedStaysDown ==
  \A s \in Schedulers :
    RowObserved(s) /\ obs[s].state = "running" =>
      /\ wstate[obs[s].token] \notin {"absent", "dispatching"}
      /\ spc[s] = "abandon" => obs[s].token \notin codex

\* The partial unique index of agent_workers.
OneActiveWorker ==
  \A t, u \in ActiveWorkers : ProjectOf[t] = ProjectOf[u] => t = u

\* A worker's lease that passed the fence check belongs to an ended worker.
ReclaimsOnlyEnded ==
  \A s \in Schedulers :
    obs[s].holder \in Tokens /\ spc[s] \in {"fence", "reclaim"} =>
      /\ wstate[obs[s].holder] # "absent"
      /\ ProjectOf[obs[s].holder] = obs[s].project
      /\ spc[s] = "reclaim" => Terminal(obs[s].holder)

OwnershipInv ==
  /\ TypeOK
  /\ ObservationsWellFormed
  /\ UnclaimedIsNewer
  /\ CodexNeedsRunningRow
  /\ DrainedStaysDown
  /\ OneActiveWorker
  /\ ReclaimsOnlyEnded
  /\ WorkerLeaseIsLive
  /\ ActiveWorkerKeepsLease
  /\ RunRecordedAtTermination
=============================================================================
