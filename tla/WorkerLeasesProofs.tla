------------------------- MODULE WorkerLeasesProofs -------------------------
(***************************************************************************)
(* Proofs about WorkerLeases, for every number of projects, schedulers and *)
(* workers.  The inductive invariant is OwnershipInv; its step is proved   *)
(* conjunct by conjunct from footprint lemmas that say which actions touch *)
(* the rows, the leases, Codex and the schedulers' observations.           *)
(***************************************************************************)
EXTENDS WorkerLeases, FiniteSetTheorems, TLAPS

\* What SeenRow puts in an observation.
LEMMA SeenRowFacts ==
  ASSUME NEW t \in Tokens, NEW state \in WorkerStates, NEW pid \in Nat,
         NEW beat \in Nat, NEW age \in {"fresh", "stale"},
         NEW h \in Holders \cup {None}
  PROVE  LET o == SeenRow(t, state, pid, beat, age, h) IN
         /\ o \in Observations
         /\ o.token = t /\ o.project = ProjectOf[t] /\ o.state = state
         /\ o.pid = pid /\ o.heartbeat = beat /\ o.holder = h
BY ConstantTypes DEF SeenRow, Observations

\* What SeenLease puts in an observation.
LEMMA SeenLeaseFacts ==
  ASSUME NEW p \in Projects \cup {None}, NEW h \in Holders \cup {None}
  PROVE  LET o == SeenLease(p, h) IN
         /\ o \in Observations
         /\ o.project = p /\ o.holder = h
BY DEF SeenLease, Observations, WorkerStates

\* The types of an observation's fields.
LEMMA ObservationFields ==
  ASSUME NEW o \in Observations
  PROVE  /\ o.token \in Tokens \cup {None} /\ o.project \in Projects \cup {None}
         /\ o.state \in WorkerStates /\ o.pid \in Nat /\ o.heartbeat \in Nat
         /\ o.age \in {"fresh", "stale"} /\ o.holder \in Holders \cup {None}
BY DEF Observations

\* Schedulers, workers and interactive owners can hold a lease.
LEMMA HolderKinds ==
  /\ \A t \in Tokens : t \in Holders /\ Interactive[t] \in Holders
  /\ \A s \in Schedulers : s \in Holders
BY DEF Holders

\* The control states that the actions write are declared ones.
LEMMA StateNames ==
  /\ "reconcile" \in SchedulerStates /\ "assess" \in SchedulerStates
  /\ "drain" \in SchedulerStates /\ "abandon" \in SchedulerStates
  /\ "relaunch" \in SchedulerStates /\ "schedule" \in SchedulerStates
  /\ "inspect" \in SchedulerStates /\ "fence" \in SchedulerStates
  /\ "reclaim" \in SchedulerStates /\ "dispatch" \in SchedulerStates
  /\ "refused" \in SchedulerStates /\ "launch" \in SchedulerStates
  /\ "undo" \in SchedulerStates /\ "dead" \in SchedulerStates
  /\ "off" \in ProcStates /\ "starting" \in ProcStates /\ "running" \in ProcStates
  /\ "reaped" \in ProcStates /\ "fenced" \in ProcStates
  /\ "handedoff" \in ProcStates /\ "failing" \in ProcStates
  /\ "abandoning" \in ProcStates /\ "retrying" \in ProcStates
  /\ "reabandoning" \in ProcStates /\ "orphaned" \in ProcStates
  /\ "mourning" \in ProcStates /\ "burying" \in ProcStates
  /\ "dispatching" \in WorkerStates /\ "running" \in WorkerStates
  /\ "abandoned" \in WorkerStates /\ "superseded" \in WorkerStates
  /\ "completed" \in WorkerStates /\ "failure" \in RunStatus
BY DEF SchedulerStates, ProcStates, WorkerStates, ActiveStates, TerminalStates, RunStatus

-----------------------------------------------------------------------------
(* Types                                                                   *)

\* The empty observation is an observation.
LEMMA NoObsType == NoObs \in Observations
BY SeenLeaseFacts DEF NoObs

\* Goto keeps a scheduler's control state declared.
LEMMA GotoTypes ==
  ASSUME SchedulerTypes, NEW s \in Schedulers, NEW pc \in SchedulerStates,
         Goto(s, pc)
  PROVE  spc' \in [Schedulers -> SchedulerStates]
BY DEF Goto, SchedulerTypes

\* Resume keeps a scheduler's control state and observation typed.
LEMMA ResumeTypes ==
  ASSUME SchedulerTypes, NEW s \in Schedulers, NEW pc \in SchedulerStates,
         Resume(s, pc)
  PROVE  /\ spc' \in [Schedulers -> SchedulerStates]
         /\ obs' \in [Schedulers -> Observations]
BY NoObsType DEF Resume, Goto, SchedulerTypes

\* release_lease keeps the lease table typed.
LEMMA ReleaseLeaseTypes ==
  ASSUME TableTypes, NEW p, NEW h, ReleaseLease(p, h)
  PROVE  /\ lease' \in [Projects -> Holders \cup {None}]
         /\ expires' \in [Projects -> Nat]
BY DEF ReleaseLease, TableTypes

\* Recording a run keeps runs and failure counters typed.
LEMMA RecordRunTypes ==
  ASSUME TableTypes, NEW t \in Tokens, NEW status \in RunStatus, RecordRun(t, status)
  PROVE  /\ run' \in [Tokens -> RunStatus \cup {"none"}]
         /\ failures' \in [Projects -> Nat]
BY ConstantTypes DEF RecordRun, FailuresAfter, TableTypes

\* abandon_worker keeps the tables typed.
LEMMA AbandonWorkerTypes ==
  ASSUME TableTypes, NEW t \in Tokens, AbandonWorker(t)
  PROVE  TableTypes'
<1>1. wstate' \in [Tokens -> WorkerStates]
  BY StateNames DEF AbandonWorker, TableTypes
<1>2. /\ lease' \in [Projects -> Holders \cup {None}]
      /\ expires' \in [Projects -> Nat]
  BY ReleaseLeaseTypes DEF AbandonWorker
<1>3. /\ run' \in [Tokens -> RunStatus \cup {"none"}]
      /\ failures' \in [Projects -> Nat]
  BY RecordRunTypes, StateNames DEF AbandonWorker
<1> QED BY <1>1, <1>2, <1>3 DEF AbandonWorker, TableTypes

\* Draining a service keeps the process state typed.
LEMMA KillServiceTypes ==
  ASSUME ProcessTypes, NEW t \in Tokens, KillService(t), UNCHANGED guardian
  PROVE  ProcessTypes'
BY StateNames DEF KillService, ProcessTypes

\* Launching a service keeps the process state typed.
LEMMA StartServiceTypes ==
  ASSUME ProcessTypes, NEW t \in Tokens, StartService(t), UNCHANGED guardian
  PROVE  ProcessTypes'
BY StateNames DEF StartService, ProcessTypes

\* Every step keeps the types.
LEMMA TypeStep ==
  ASSUME TypeOK, ObservationsWellFormed, [Next]_vars
  PROVE  TypeOK'
<1> USE ConstantTypes, HolderKinds, StateNames DEF TypeOK
<1>1. CASE Tick
  BY <1>1 DEF Tick, tables, procs, scheds, TableTypes, ProcessTypes, SchedulerTypes
<1>2. ASSUME NEW s \in Schedulers, SchedulerStep(s) PROVE TypeOK'
  <2>1. CASE AssessWorker(s)
    <3> DEFINE o == obs[s]
               h == IF lease[o.project] = o.token THEN None ELSE lease[o.project]
    <3>1. o \in Observations /\ o.token \in Tokens /\ o.project \in Projects
      BY <2>1 DEF AssessWorker, ObservationsWellFormed, RowObserved, SchedulerTypes
    <3>2. /\ o.state \in WorkerStates /\ o.pid \in Nat /\ o.heartbeat \in Nat
          /\ o.age \in {"fresh", "stale"}
      BY <3>1, ObservationFields
    <3>3. h \in Holders \cup {None}
      BY <3>1 DEF TableTypes
    <3>4. SeenRow(o.token, o.state, o.pid, o.heartbeat, o.age, h) \in Observations
      <4> HIDE DEF o, h
      <4> QED BY <3>1, <3>2, <3>3, SeenRowFacts
    <3>5. SchedulerTypes'
      BY <2>1, <3>4, NoObsType DEF AssessWorker, Goto, Resume, SchedulerTypes
    <3> QED BY <2>1, <3>5 DEF AssessWorker, TableTypes, ProcessTypes, tables, procs
  <2>2. CASE DrainWorker(s)
    <3>1. obs[s].token \in Tokens
      BY <2>2 DEF DrainWorker, ObservationsWellFormed, RowObserved
    <3> QED BY <2>2, <3>1, KillServiceTypes, GotoTypes DEF DrainWorker, TableTypes, SchedulerTypes, tables
  <2>3. CASE DrainFails(s)
    <3>1. obs[s].token \in Tokens
      BY <2>3 DEF DrainFails, ObservationsWellFormed, RowObserved
    <3>2. ProcessTypes'
      BY <2>3, <3>1, KillServiceTypes DEF DrainFails, ProcessTypes, procs
    <3> QED BY <2>3, <3>2, ResumeTypes DEF DrainFails, TableTypes, SchedulerTypes, tables
  <2>4. CASE AbandonObserved(s)
    <3>1. obs[s].token \in Tokens
      BY <2>4 DEF AbandonObserved, ObservationsWellFormed, RowObserved
    <3>2. TableTypes'
      BY <2>4, <3>1, AbandonWorkerTypes DEF AbandonObserved, TableTypes, tables
    <3>3. SchedulerTypes'
      BY <2>4, ResumeTypes DEF AbandonObserved, SchedulerTypes
    <3> QED BY <2>4, <3>2, <3>3 DEF AbandonObserved, ProcessTypes, procs
  <2>5. CASE RelaunchWorker(s)
    <3>1. obs[s].token \in Tokens
      BY <2>5 DEF RelaunchWorker, ObservationsWellFormed, RowObserved
    <3>2. ProcessTypes'
      BY <2>5, <3>1, StartServiceTypes DEF RelaunchWorker, ProcessTypes, procs
    <3> QED BY <2>5, <3>2, ResumeTypes DEF RelaunchWorker, TableTypes, SchedulerTypes, tables
  <2>6. CASE FinishReconcile(s)
    <3>1. {ProjectOf[t] : t \in ActiveWorkers} \subseteq Projects
      BY DEF ActiveWorkers
    <3> QED BY <2>6, <3>1, GotoTypes DEF FinishReconcile, TableTypes, ProcessTypes, SchedulerTypes, tables, procs, scheds
  <2>7. CASE InspectLease(s)
    <3>1. obs[s].project \in Projects
      BY <2>7 DEF InspectLease, ObservationsWellFormed, LeaseObserved
    <3>2. SeenLease(obs[s].project, lease[obs[s].project]) \in Observations
      BY <3>1, SeenLeaseFacts DEF TableTypes
    <3>3. SchedulerTypes'
      BY <2>7, <3>1, <3>2, NoObsType DEF InspectLease, Goto, Resume, Settle, SchedulerTypes
    <3> QED BY <2>7, <3>3 DEF InspectLease, TableTypes, ProcessTypes, tables, procs
  <2>8. CASE CheckWorkerFence(s)
    <3>1. obs[s].project \in Projects
      BY <2>8 DEF CheckWorkerFence, ObservationsWellFormed, LeaseObserved
    <3>2. SchedulerTypes'
      BY <2>8, <3>1, NoObsType DEF CheckWorkerFence, Goto, Resume, Settle, SchedulerTypes
    <3> QED BY <2>8, <3>2 DEF CheckWorkerFence, TableTypes, ProcessTypes, tables, procs
  <2>9. CASE ReclaimLease(s)
    <3>1. TableTypes'
      BY <2>9, ReleaseLeaseTypes DEF ReclaimLease, TableTypes
    <3> QED BY <2>9, <3>1, ResumeTypes DEF ReclaimLease, ProcessTypes, SchedulerTypes, procs
  <2>10. CASE FinishSchedule(s)
    BY <2>10, GotoTypes DEF FinishSchedule, TableTypes, ProcessTypes, SchedulerTypes, tables, procs, scheds
  <2>11. CASE LaunchWorker(s)
    <3>1. obs[s].token \in Tokens
      BY <2>11 DEF LaunchWorker, ObservationsWellFormed, RowObserved
    <3>2. ProcessTypes'
      BY <2>11, <3>1, StartServiceTypes DEF LaunchWorker, ProcessTypes, procs
    <3>3. SchedulerTypes'
      BY <2>11, ResumeTypes, GotoTypes DEF LaunchWorker, SchedulerTypes
    <3> QED BY <2>11, <3>2, <3>3 DEF LaunchWorker, TableTypes, tables
  <2>12. CASE FinishDispatch(s)
    BY <2>12, GotoTypes DEF FinishDispatch, TableTypes, ProcessTypes, SchedulerTypes, tables, procs, scheds
  <2>13. CASE SchedulerCrash(s)
    BY <2>13, ResumeTypes DEF SchedulerCrash, TableTypes, ProcessTypes, SchedulerTypes, tables, procs, scheds
  <2>14. ASSUME NEW t \in Tokens, ObserveWorker(s, t) PROVE TypeOK'
    <3>1. SeenRow(t, wstate[t], wpid[t], heartbeat[t], ObservedAge(heartbeat[t]), None)
            \in Observations
      BY SeenRowFacts DEF TableTypes, ObservedAge
    <3> QED BY <2>14, <3>1, GotoTypes DEF ObserveWorker, TableTypes, ProcessTypes, SchedulerTypes, tables, procs, scheds
  <2>15. ASSUME NEW t \in Tokens, ReserveWorker(s, t) PROVE TypeOK'
    <3>1. SeenRow(t, "dispatching", 0, now, "fresh", None) \in Observations
      BY SeenRowFacts
    <3>2. TableTypes'
      BY <2>15 DEF ReserveWorker, TableTypes
    <3>3. SchedulerTypes'
      BY <2>15, <3>1 DEF ReserveWorker, Goto, SchedulerTypes
    <3> QED BY <2>15, <3>2, <3>3 DEF ReserveWorker, ProcessTypes, procs
  <2>16. ASSUME NEW p \in Projects, TryAcquireLease(s, p) PROVE TypeOK'
    <3>1. SeenLease(p, None) \in Observations
      BY SeenLeaseFacts
    <3>2. TableTypes'
      BY <2>16 DEF TryAcquireLease, WriteLease, TableTypes
    <3>3. SchedulerTypes'
      BY <2>16, <3>1 DEF TryAcquireLease, Goto, SchedulerTypes
    <3> QED BY <2>16, <3>2, <3>3 DEF TryAcquireLease, ProcessTypes, procs
  <2>17. ASSUME NEW p \in Projects, ReleaseUnstarted(s, p) PROVE TypeOK'
    <3>1. TableTypes'
      BY <2>17, ReleaseLeaseTypes DEF ReleaseUnstarted, TableTypes
    <3>2. SchedulerTypes'
      BY <2>17, NoObsType DEF ReleaseUnstarted, Resume, Goto, Settle, SchedulerTypes
    <3> QED BY <2>17, <3>1, <3>2 DEF ReleaseUnstarted, ProcessTypes, procs
  <2>18. ASSUME NEW p \in Projects, ReservationRefused(s, p) PROVE TypeOK'
    <3>1. SeenLease(p, None) \in Observations
      BY SeenLeaseFacts
    <3> QED BY <2>18, <3>1, GotoTypes DEF ReservationRefused, TableTypes, ProcessTypes, SchedulerTypes, tables, procs, scheds
  <2> QED BY <1>2, <2>1, <2>2, <2>3, <2>4, <2>5, <2>6, <2>7, <2>8, <2>9, <2>10, <2>11, <2>12, <2>13, <2>14, <2>15, <2>16, <2>17, <2>18 DEF SchedulerStep
<1>3. ASSUME NEW t \in Tokens, WorkerStep(t) PROVE TypeOK'
  <2>1. CASE ClaimWorker(t)
    BY <2>1 DEF ClaimWorker, CanClaim, OwnsLease, MoveTo, TableTypes, ProcessTypes, SchedulerTypes, tables, procs, scheds
  <2>2. CASE RenewWorker(t)
    BY <2>2 DEF RenewWorker, CanRenew, OwnsLease, MoveTo, TableTypes, ProcessTypes, SchedulerTypes, tables, procs, scheds
  <2>3. CASE CodexExits(t)
    BY <2>3 DEF CodexExits, MoveTo, TableTypes, ProcessTypes, SchedulerTypes, tables, procs, scheds
  <2>4. CASE HandOff(t)
    BY <2>4 DEF HandOff, OwnsLease, WriteLease, MoveTo, TableTypes, ProcessTypes, SchedulerTypes, tables, procs, scheds
  <2>5. ASSUME NEW status \in RunStatus, FinalizeWorker(t, status) PROVE TypeOK'
    BY <2>5 DEF FinalizeWorker, CanFinalize, FinalizationHolder, RecordRun, FailuresAfter, ReleaseLease, MoveTo, TableTypes, ProcessTypes, SchedulerTypes, tables, procs, scheds
  <2>6. CASE ObserveOwnLease(t)
    BY <2>6 DEF ObserveOwnLease, MoveTo, TableTypes, ProcessTypes, SchedulerTypes, tables, procs, scheds
  <2>7. CASE AbandonOwn(t)
    <3>1. AfterRefusal(proc[t]) \in ProcStates
      BY DEF AfterRefusal
    <3>2. TableTypes'
      BY <2>7 DEF AbandonOwn, AbandonWorker, RecordRun, FailuresAfter, ReleaseLease, TableTypes, tables
    <3>3. ProcessTypes'
      BY <2>7, <3>1 DEF AbandonOwn, MoveTo, ProcessTypes
    <3> QED BY <2>7, <3>2, <3>3 DEF AbandonOwn, SchedulerTypes, scheds
  <2>8. CASE WorkerCrash(t)
    BY <2>8 DEF WorkerCrash, MoveTo, TableTypes, ProcessTypes, SchedulerTypes, tables, procs, scheds
  <2>9. CASE OrphanReaped(t)
    BY <2>9 DEF OrphanReaped, MoveTo, TableTypes, ProcessTypes, SchedulerTypes, tables, procs, scheds
  <2>10. CASE SettleOrphan(t)
    <3>1. lease' \in [Projects -> Holders \cup {None}] /\ expires' \in [Projects -> Nat]
      BY <2>10, ReleaseLeaseTypes, HolderKinds DEF SettleOrphan, WriteLease, TableTypes
    <3>2. TableTypes'
      BY <2>10, <3>1 DEF SettleOrphan, TableTypes
    <3>3. ProcessTypes'
      BY <2>10 DEF SettleOrphan, MoveTo, ProcessTypes
    <3> QED BY <2>10, <3>2, <3>3 DEF SettleOrphan, SchedulerTypes, scheds
  <2>11. CASE ObserveOrphan(t)
    BY <2>11 DEF ObserveOrphan, ReleaseLease, MoveTo, TableTypes, ProcessTypes, SchedulerTypes, scheds
  <2> QED BY <1>3, <2>1, <2>2, <2>3, <2>4, <2>5, <2>6, <2>7, <2>8, <2>9, <2>10, <2>11 DEF WorkerStep
<1>4. ASSUME NEW t \in Tokens, InteractiveStep(t) PROVE TypeOK'
  <2>1. CASE RenewInteractive(t)
    BY <2>1 DEF RenewInteractive, TableTypes, ProcessTypes, SchedulerTypes, tables, procs, scheds
  <2>2. CASE FinishInteractive(t)
    BY <2>2 DEF FinishInteractive, ReleaseLease, TableTypes, ProcessTypes, SchedulerTypes, tables, procs, scheds
  <2>3. CASE InteractiveDies(t)
    BY <2>3 DEF InteractiveDies, TableTypes, ProcessTypes, SchedulerTypes, tables, procs, scheds
  <2> QED BY <1>4, <2>1, <2>2, <2>3 DEF InteractiveStep
<1>5. CASE UNCHANGED vars
  BY <1>5 DEF vars, TableTypes, ProcessTypes, SchedulerTypes, tables, procs, scheds
<1> QED BY <1>1, <1>2, <1>3, <1>4, <1>5 DEF Next

-----------------------------------------------------------------------------
(* Footprints: which steps touch the rows, the leases, Codex and observations. *)

\* The rows and runs change only when a worker is reserved, claimed or ended.
LEMMA RowSteps ==
  ASSUME [Next]_vars
  PROVE  \/ UNCHANGED <<wstate, run, failures>>
         \/ \E s \in Schedulers, t \in Tokens : ReserveWorker(s, t)
         \/ \E t \in Tokens : ClaimWorker(t)
         \/ \E s \in Schedulers : AbandonObserved(s)
         \/ \E t \in Tokens : AbandonOwn(t)
         \/ \E t \in Tokens, status \in RunStatus : FinalizeWorker(t, status)
<1>1. ASSUME NEW s \in Schedulers, SchedulerStep(s)
      PROVE  \/ UNCHANGED <<wstate, run, failures>>
             \/ \E t \in Tokens : ReserveWorker(s, t)
             \/ AbandonObserved(s)
  BY <1>1 DEF SchedulerStep, AssessWorker, DrainWorker, DrainFails, RelaunchWorker,
     FinishReconcile, InspectLease, CheckWorkerFence, ReclaimLease, FinishSchedule,
     LaunchWorker, FinishDispatch, SchedulerCrash, ObserveWorker, TryAcquireLease,
     ReleaseUnstarted, ReservationRefused, tables
<1>2. ASSUME NEW t \in Tokens, WorkerStep(t) \/ InteractiveStep(t)
      PROVE  \/ UNCHANGED <<wstate, run, failures>>
             \/ ClaimWorker(t) \/ AbandonOwn(t)
             \/ \E status \in RunStatus : FinalizeWorker(t, status)
  BY <1>2 DEF WorkerStep, InteractiveStep, RenewWorker, CodexExits, HandOff,
     ObserveOwnLease, WorkerCrash, OrphanReaped, SettleOrphan, ObserveOrphan,
     RenewInteractive, FinishInteractive, InteractiveDies, tables
<1> QED BY <1>1, <1>2 DEF Next, Tick, vars, tables

\* The leases and guardians change only in these steps.
LEMMA LeaseSteps ==
  ASSUME [Next]_vars
  PROVE  \/ UNCHANGED <<lease, guardian>>
         \/ \E s \in Schedulers, t \in Tokens : ReserveWorker(s, t)
         \/ \E s \in Schedulers, p \in Projects : TryAcquireLease(s, p)
         \/ \E s \in Schedulers, p \in Projects : ReleaseUnstarted(s, p)
         \/ \E s \in Schedulers : ReclaimLease(s)
         \/ \E s \in Schedulers : AbandonObserved(s)
         \/ \E t \in Tokens : AbandonOwn(t)
         \/ \E t \in Tokens, status \in RunStatus : FinalizeWorker(t, status)
         \/ \E t \in Tokens : HandOff(t)
         \/ \E t \in Tokens : SettleOrphan(t)
         \/ \E t \in Tokens : ObserveOrphan(t)
         \/ \E t \in Tokens : FinishInteractive(t)
         \/ \E t \in Tokens : InteractiveDies(t)
<1>1. ASSUME NEW s \in Schedulers, SchedulerStep(s)
      PROVE  \/ UNCHANGED <<lease, guardian>>
             \/ \E t \in Tokens : ReserveWorker(s, t)
             \/ \E p \in Projects : TryAcquireLease(s, p) \/ ReleaseUnstarted(s, p)
             \/ ReclaimLease(s) \/ AbandonObserved(s)
  BY <1>1 DEF SchedulerStep, AssessWorker, DrainWorker, DrainFails, RelaunchWorker,
     FinishReconcile, InspectLease, CheckWorkerFence, FinishSchedule,
     LaunchWorker, FinishDispatch, SchedulerCrash, ObserveWorker,
     ReservationRefused, tables
<1>2. ASSUME NEW t \in Tokens, WorkerStep(t) \/ InteractiveStep(t)
      PROVE  \/ UNCHANGED <<lease, guardian>>
             \/ AbandonOwn(t) \/ HandOff(t) \/ FinishInteractive(t) \/ InteractiveDies(t)
             \/ SettleOrphan(t) \/ ObserveOrphan(t)
             \/ \E status \in RunStatus : FinalizeWorker(t, status)
  BY <1>2 DEF WorkerStep, InteractiveStep, ClaimWorker, RenewWorker, CodexExits,
     ObserveOwnLease, WorkerCrash, OrphanReaped, RenewInteractive, tables
<1> QED BY <1>1, <1>2 DEF Next, Tick, vars, tables

\* Codex starts only in a claim.
LEMMA CodexSteps ==
  ASSUME TypeOK, [Next]_vars
  PROVE  codex' \subseteq codex \/ \E t \in Tokens : ClaimWorker(t)
<1>1. ASSUME NEW s \in Schedulers, SchedulerStep(s) PROVE codex' \subseteq codex
  BY <1>1 DEF SchedulerStep, AssessWorker, DrainWorker, DrainFails, AbandonObserved,
     RelaunchWorker, FinishReconcile, InspectLease, CheckWorkerFence, ReclaimLease,
     FinishSchedule, LaunchWorker, FinishDispatch, SchedulerCrash, ObserveWorker,
     ReserveWorker, TryAcquireLease, ReleaseUnstarted, ReservationRefused, procs,
     KillService, StartService
<1>2. ASSUME NEW t \in Tokens, WorkerStep(t) \/ InteractiveStep(t)
      PROVE  codex' \subseteq codex \/ ClaimWorker(t)
  BY <1>2 DEF WorkerStep, InteractiveStep, RenewWorker, CodexExits, HandOff,
     FinalizeWorker, ObserveOwnLease, AbandonOwn, WorkerCrash, OrphanReaped,
     SettleOrphan, ObserveOrphan, RenewInteractive, FinishInteractive, InteractiveDies, procs
<1> QED BY <1>1, <1>2 DEF Next, Tick, vars, procs

-----------------------------------------------------------------------------
(* What schedulers act upon                                                *)

\* Leaving a row or a lease behind needs no observation any more.
LEMMA ResumeObserves ==
  ASSUME TypeOK, ObservationsWellFormed, NEW s \in Schedulers,
         NEW pc \in {"reconcile", "schedule", "dispatch", "dead"}, Resume(s, pc)
  PROVE  ObservationsWellFormed'
BY DEF Resume, Goto, TypeOK, SchedulerTypes, ObservationsWellFormed, RowObserved,
   LeaseObserved

\* Moving on with the same observation.
LEMMA GotoObserves ==
  ASSUME TypeOK, ObservationsWellFormed, NEW s \in Schedulers, NEW pc \in SchedulerStates,
         Goto(s, pc), UNCHANGED obs,
         pc \in {"assess", "drain", "abandon", "relaunch"} => RowObserved(s),
         pc = "launch" => spc[s] = "launch",
         pc = "undo" => spc[s] \in {"launch", "undo"},
         pc \in {"inspect", "fence", "reclaim", "refused"} => LeaseObserved(s)
  PROVE  ObservationsWellFormed'
BY DEF Goto, TypeOK, SchedulerTypes, ObservationsWellFormed, RowObserved, LeaseObserved

\* Every step keeps what schedulers act upon well formed.
LEMMA ObservationStep ==
  ASSUME TypeOK, ObservationsWellFormed, [Next]_vars
  PROVE  ObservationsWellFormed'
<1> USE StateNames
<1>1. ASSUME NEW s \in Schedulers, AssessWorker(s) PROVE ObservationsWellFormed'
  <2> DEFINE o == obs[s]
             h == IF lease[o.project] = o.token THEN None ELSE lease[o.project]
             seen == SeenRow(o.token, o.state, o.pid, o.heartbeat, o.age, h)
  <2>1. RowObserved(s)
    BY <1>1 DEF AssessWorker, RowObserved
  <2>2. /\ seen.token = o.token /\ seen.project = ProjectOf[o.token]
        /\ seen.state = o.state
    BY DEF SeenRow
  <2>3. \/ Goto(s, "drain") /\ obs' = [obs EXCEPT ![s] = seen]
        \/ Goto(s, "relaunch") /\ UNCHANGED obs
        \/ Resume(s, "reconcile")
    BY <1>1 DEF AssessWorker
  <2> HIDE DEF seen
  <2>4. CASE Goto(s, "drain") /\ obs' = [obs EXCEPT ![s] = seen]
    BY <2>1, <2>2, <2>4 DEF Goto, TypeOK, SchedulerTypes, ObservationsWellFormed,
       RowObserved, LeaseObserved
  <2> QED BY <2>1, <2>3, <2>4, GotoObserves, ResumeObserves
<1>2. ASSUME NEW s \in Schedulers, NEW t \in Tokens, ObserveWorker(s, t)
      PROVE  ObservationsWellFormed'
  <2> DEFINE seen == SeenRow(t, wstate[t], wpid[t], heartbeat[t],
                             ObservedAge(heartbeat[t]), None)
  <2>1. seen.token = t /\ seen.project = ProjectOf[t] /\ seen.state \in ActiveStates
    BY <1>2 DEF SeenRow, ObserveWorker, Active
  <2>2. Goto(s, "assess") /\ obs' = [obs EXCEPT ![s] = seen]
    BY <1>2 DEF ObserveWorker
  <2> HIDE DEF seen
  <2> QED BY <2>1, <2>2 DEF Goto, TypeOK, SchedulerTypes, ObservationsWellFormed,
       RowObserved, LeaseObserved
<1>3. ASSUME NEW s \in Schedulers, NEW t \in Tokens, ReserveWorker(s, t)
      PROVE  ObservationsWellFormed'
  <2> DEFINE seen == SeenRow(t, "dispatching", 0, now, "fresh", None)
  <2>1. /\ seen.token = t /\ seen.project = ProjectOf[t]
        /\ seen.state = "dispatching" /\ seen.state \in ActiveStates
    BY DEF SeenRow, ActiveStates
  <2>2. \/ Goto(s, "launch") /\ obs' = [obs EXCEPT ![s] = seen]
        \/ UNCHANGED <<spc, obs>>
    BY <1>3 DEF ReserveWorker
  <2> HIDE DEF seen
  <2> QED BY <2>1, <2>2 DEF Goto, TypeOK, SchedulerTypes, ObservationsWellFormed,
       RowObserved, LeaseObserved
<1>4. ASSUME NEW s \in Schedulers, NEW p \in Projects, NEW h, NEW pc,
             pc \in {"inspect", "fence", "refused"},
             Goto(s, pc), obs' = [obs EXCEPT ![s] = SeenLease(p, h)]
      PROVE  ObservationsWellFormed'
  <2> DEFINE seen == SeenLease(p, h)
  <2>1. seen.project = p
    BY DEF SeenLease
  <2>2. obs' = [obs EXCEPT ![s] = seen]
    BY <1>4
  <2> HIDE DEF seen
  <2> QED BY <1>4, <2>1, <2>2 DEF Goto, TypeOK, SchedulerTypes, ObservationsWellFormed,
       RowObserved, LeaseObserved
<1>5. ASSUME NEW s \in Schedulers, NEW p \in Projects,
             TryAcquireLease(s, p) \/ ReservationRefused(s, p) \/ ReleaseUnstarted(s, p)
      PROVE  ObservationsWellFormed'
  <2>1. CASE TryAcquireLease(s, p)
    BY <2>1, <1>4 DEF TryAcquireLease, ObservationsWellFormed, RowObserved, LeaseObserved
  <2>2. CASE ReservationRefused(s, p)
    BY <2>2, <1>4 DEF ReservationRefused
  <2>3. CASE ReleaseUnstarted(s, p)
    BY <2>3, ResumeObserves DEF ReleaseUnstarted, ObservationsWellFormed, RowObserved,
       LeaseObserved
  <2> QED BY <1>5, <2>1, <2>2, <2>3
<1>6. ASSUME NEW s \in Schedulers, InspectLease(s) PROVE ObservationsWellFormed'
  <2>1. obs[s].project \in Projects
    BY <1>6 DEF InspectLease, ObservationsWellFormed, LeaseObserved
  <2> QED BY <1>6, <2>1, <1>4, ResumeObserves DEF InspectLease
<1>7. ASSUME NEW s \in Schedulers, SchedulerStep(s) PROVE ObservationsWellFormed'
  <2>1. CASE \/ DrainWorker(s) \/ CheckWorkerFence(s) \/ FinishReconcile(s)
             \/ FinishSchedule(s) \/ FinishDispatch(s)
    BY <2>1, GotoObserves, ResumeObserves DEF DrainWorker, CheckWorkerFence,
       FinishReconcile, FinishSchedule, FinishDispatch, RowObserved, LeaseObserved
  <2>2. CASE \/ DrainFails(s) \/ RelaunchWorker(s) \/ ReclaimLease(s) \/ SchedulerCrash(s)
    BY <2>2, ResumeObserves DEF DrainFails, RelaunchWorker, ReclaimLease, SchedulerCrash
  <2>3. CASE AbandonObserved(s)
    BY <2>3, ResumeObserves DEF AbandonObserved
  <2>4. CASE LaunchWorker(s)
    BY <2>4, GotoObserves, ResumeObserves DEF LaunchWorker, RowObserved
  <2> QED BY <1>1, <1>2, <1>3, <1>5, <1>6, <1>7, <2>1, <2>2, <2>3, <2>4 DEF SchedulerStep
<1>8. CASE UNCHANGED scheds
  BY <1>8 DEF scheds, ObservationsWellFormed, RowObserved, LeaseObserved
<1>9. ASSUME NEW t \in Tokens, WorkerStep(t) \/ InteractiveStep(t)
      PROVE  UNCHANGED scheds
  BY <1>9 DEF WorkerStep, InteractiveStep, ClaimWorker, RenewWorker, CodexExits, HandOff,
     FinalizeWorker, ObserveOwnLease, AbandonOwn, WorkerCrash, OrphanReaped,
     SettleOrphan, ObserveOrphan, RenewInteractive, FinishInteractive, InteractiveDies
<1> QED BY <1>7, <1>8, <1>9 DEF Next, Tick, vars

-----------------------------------------------------------------------------
(* Generations of a worker's service, and Codex                            *)

\* Every step keeps an unclaimed process newer than the recorded pid.
LEMMA UnclaimedStep ==
  ASSUME TypeOK, ObservationsWellFormed, UnclaimedIsNewer, [Next]_vars
  PROVE  UnclaimedIsNewer'
<1> USE DEF TypeOK, TableTypes, ProcessTypes, UnclaimedIsNewer
<1>1. ASSUME NEW t \in Tokens, UNCHANGED wpid, StartService(t) \/ KillService(t)
      PROVE  UnclaimedIsNewer'
  <2>1. CASE StartService(t)
    <3> SUFFICES ASSUME NEW u \in Tokens
                 PROVE  /\ wpid'[u] <= launches'[u]
                        /\ proc'[u] = "starting" => wpid'[u] < launches'[u]
      OBVIOUS
    <3>1. launches'[u] = IF u = t THEN launches[u] + 1 ELSE launches[u]
      BY <2>1 DEF StartService
    <3>2. u # t => proc'[u] = proc[u]
      BY <2>1 DEF StartService
    <3>3. wpid[u] \in Nat /\ launches[u] \in Nat /\ wpid'[u] = wpid[u]
      BY <1>1
    <3> HIDE DEF TypeOK, TableTypes, ProcessTypes
    <3>4. wpid[u] <= launches[u] /\ (proc[u] = "starting" => wpid[u] < launches[u])
      BY DEF UnclaimedIsNewer
    <3> HIDE DEF UnclaimedIsNewer
    <3> QED BY <3>1, <3>2, <3>3, <3>4
  <2>2. CASE KillService(t)
    BY <1>1, <2>2 DEF KillService
  <2> QED BY <1>1, <2>1, <2>2
<1>2. ASSUME NEW s \in Schedulers, SchedulerStep(s) PROVE UnclaimedIsNewer'
  <2>1. CASE DrainWorker(s) \/ DrainFails(s) \/ RelaunchWorker(s) \/ LaunchWorker(s)
    <3>1. RowObserved(s)
      BY <2>1 DEF DrainWorker, DrainFails, RelaunchWorker, LaunchWorker, RowObserved
    <3>2. obs[s].token \in Tokens
      BY <3>1 DEF ObservationsWellFormed
    <3>3. \/ UNCHANGED <<proc, launches>>
          \/ StartService(obs[s].token) \/ KillService(obs[s].token)
      BY <2>1 DEF DrainWorker, DrainFails, RelaunchWorker, LaunchWorker, procs
    <3>4. UNCHANGED wpid
      BY <2>1 DEF DrainWorker, DrainFails, RelaunchWorker, LaunchWorker, tables
    <3> QED BY <1>1, <3>2, <3>3, <3>4
  <2>2. CASE AbandonObserved(s)
    BY <2>2 DEF AbandonObserved, AbandonWorker, tables, procs
  <2>3. CASE UNCHANGED <<wpid, proc, launches>>
    BY <2>3
  <2> QED BY <1>2, <2>1, <2>2, <2>3 DEF SchedulerStep, AssessWorker, FinishReconcile,
       InspectLease, CheckWorkerFence, ReclaimLease, FinishSchedule, FinishDispatch,
       SchedulerCrash, ObserveWorker, ReserveWorker, TryAcquireLease, ReleaseUnstarted,
       ReservationRefused, tables, procs
<1>3. ASSUME NEW t \in Tokens, WorkerStep(t) \/ InteractiveStep(t)
      PROVE  UnclaimedIsNewer'
  <2>1. CASE ClaimWorker(t)
    BY <2>1 DEF ClaimWorker, MoveTo
  <2>2. CASE UNCHANGED <<wpid, proc, launches>>
    BY <2>2
  <2>3. ASSUME NEW pc, pc # "starting", MoveTo(t, pc), UNCHANGED <<wpid, launches>>
        PROVE  UnclaimedIsNewer'
    BY <2>3 DEF MoveTo
  <2>4. CASE RenewWorker(t)
    BY <2>4, <2>3 DEF RenewWorker
  <2>5. CASE CodexExits(t) \/ WorkerCrash(t) \/ HandOff(t)
    BY <2>5, <2>3 DEF CodexExits, WorkerCrash, HandOff, tables
  <2>6. CASE ObserveOwnLease(t)
    BY <2>6, <2>3 DEF ObserveOwnLease, tables
  <2>7. CASE AbandonOwn(t)
    BY <2>7, <2>3 DEF AbandonOwn, AfterRefusal, AbandonWorker, tables
  <2>8. ASSUME NEW status \in RunStatus, FinalizeWorker(t, status)
        PROVE  UnclaimedIsNewer'
    BY <2>8, <2>3 DEF FinalizeWorker
  <2>9. CASE OrphanReaped(t) \/ SettleOrphan(t) \/ ObserveOrphan(t)
    BY <2>9, <2>3 DEF OrphanReaped, SettleOrphan, ObserveOrphan, tables
  <2> QED BY <1>3, <2>1, <2>2, <2>4, <2>5, <2>6, <2>7, <2>8, <2>9 DEF WorkerStep,
       InteractiveStep, RenewInteractive, FinishInteractive,
       InteractiveDies, tables, procs
<1> QED BY <1>2, <1>3 DEF Next, Tick, vars, tables, procs

\* A claim that succeeds is the first one of its row.
LEMMA ClaimIsFirst ==
  ASSUME TypeOK, UnclaimedIsNewer, NEW t \in Tokens, ClaimWorker(t)
  PROVE  \/ /\ wstate[t] = "dispatching"
            /\ wstate' = [wstate EXCEPT ![t] = "running"]
            /\ codex' = codex \cup {t}
            /\ MoveTo(t, "running")
         \/ UNCHANGED <<wstate, codex>> /\ MoveTo(t, "off")
BY DEF ClaimWorker, CanClaim, UnclaimedIsNewer, TypeOK, TableTypes, ProcessTypes

\* How a row may move: forward only, and what has ended stays ended.
LEMMA RowsMoveForward ==
  ASSUME TypeOK, ObservationsWellFormed, UnclaimedIsNewer, [Next]_vars, NEW t \in Tokens
  PROVE  /\ wstate[t] # "absent" => wstate'[t] # "absent"
         /\ wstate[t] \notin {"absent", "dispatching"} =>
              wstate'[t] \notin {"absent", "dispatching"}
         /\ wstate[t] \in TerminalStates => wstate'[t] \in TerminalStates
         /\ wstate[t] = "completed" => wstate'[t] = "completed"
         /\ wstate[t] \in TerminalStates /\ wstate'[t] = "completed"
              => wstate[t] = "completed"
<1> DEFINE Forward == /\ wstate[t] # "absent" => wstate'[t] # "absent"
                      /\ wstate[t] \notin {"absent", "dispatching"} =>
                           wstate'[t] \notin {"absent", "dispatching"}
                      /\ wstate[t] \in TerminalStates => wstate'[t] \in TerminalStates
                      /\ wstate[t] = "completed" => wstate'[t] = "completed"
                      /\ wstate[t] \in TerminalStates /\ wstate'[t] = "completed"
                           => wstate[t] = "completed"
<1> USE DEF TypeOK, TableTypes, ActiveStates, TerminalStates
<1>1. ASSUME NEW s \in Schedulers, NEW u \in Tokens, ReserveWorker(s, u) PROVE Forward
  BY <1>1 DEF ReserveWorker
<1>2. ASSUME NEW u \in Tokens, ClaimWorker(u) PROVE Forward
  BY <1>2, ClaimIsFirst
<1>3. ASSUME NEW s \in Schedulers, AbandonObserved(s) PROVE Forward
  <2>1. obs[s].token \in Tokens /\ obs[s].state \in ActiveStates
    BY <1>3 DEF AbandonObserved, ObservationsWellFormed, RowObserved
  <2> QED BY <1>3, <2>1 DEF AbandonObserved, CanAbandon, AbandonWorker, tables
<1>4. ASSUME NEW u \in Tokens, AbandonOwn(u) PROVE Forward
  BY <1>4 DEF AbandonOwn, CanAbandon, AbandonWorker, tables
<1>5. ASSUME NEW u \in Tokens, NEW status \in RunStatus, FinalizeWorker(u, status)
      PROVE  Forward
  BY <1>5 DEF FinalizeWorker, CanFinalize, Active
<1> QED BY <1>1, <1>2, <1>3, <1>4, <1>5, RowSteps

\* Every step keeps the partial unique index of agent_workers.
LEMMA OneActiveStep ==
  ASSUME TypeOK, ObservationsWellFormed, UnclaimedIsNewer, OneActiveWorker, [Next]_vars
  PROVE  OneActiveWorker'
<1>1. ASSUME NEW s \in Schedulers, NEW u \in Tokens, ReserveWorker(s, u)
      PROVE  OneActiveWorker'
  BY <1>1 DEF ReserveWorker, CanReserve, OneActiveWorker, ActiveWorkers, Active,
     ActiveStates, TypeOK, TableTypes
<1>2. ASSUME \A t \in Tokens : wstate'[t] \in ActiveStates => wstate[t] \in ActiveStates
      PROVE  OneActiveWorker'
  BY <1>2 DEF OneActiveWorker, ActiveWorkers, Active
<1> USE DEF TypeOK, TableTypes, ActiveStates
<1>3. ASSUME NEW u \in Tokens, ClaimWorker(u) PROVE OneActiveWorker'
  BY <1>2, <1>3, ClaimIsFirst
<1>4. ASSUME NEW s \in Schedulers, AbandonObserved(s) PROVE OneActiveWorker'
  BY <1>2, <1>4 DEF AbandonObserved, AbandonWorker, tables
<1>5. ASSUME NEW u \in Tokens, AbandonOwn(u) PROVE OneActiveWorker'
  BY <1>2, <1>5 DEF AbandonOwn, AbandonWorker, tables
<1>6. ASSUME NEW u \in Tokens, NEW status \in RunStatus, FinalizeWorker(u, status)
      PROVE  OneActiveWorker'
  BY <1>2, <1>6 DEF FinalizeWorker
<1> QED BY <1>1, <1>2, <1>3, <1>4, <1>5, <1>6, RowSteps

\* Codex and its row are given up in the right order.
LEMMA CodexStep ==
  ASSUME TypeOK, ObservationsWellFormed, UnclaimedIsNewer, CodexNeedsRunningRow,
         DrainedStaysDown, [Next]_vars
  PROVE  CodexNeedsRunningRow'
<1> USE DEF TypeOK, TableTypes, ProcessTypes, CodexNeedsRunningRow
<1>1. ASSUME NEW t \in Tokens, KillService(t) \/ StartService(t), UNCHANGED wstate
      PROVE  CodexNeedsRunningRow'
  BY <1>1 DEF KillService, StartService
<1>2. ASSUME NEW s \in Schedulers, SchedulerStep(s) PROVE CodexNeedsRunningRow'
  <2>1. CASE DrainWorker(s) \/ DrainFails(s) \/ RelaunchWorker(s) \/ LaunchWorker(s)
    <3>1. RowObserved(s)
      BY <2>1 DEF DrainWorker, DrainFails, RelaunchWorker, LaunchWorker, RowObserved
    <3>2. obs[s].token \in Tokens
      BY <3>1 DEF ObservationsWellFormed
    <3>3. \/ UNCHANGED <<proc, codex>>
          \/ StartService(obs[s].token) \/ KillService(obs[s].token)
      BY <2>1 DEF DrainWorker, DrainFails, RelaunchWorker, LaunchWorker, procs
    <3>4. UNCHANGED wstate
      BY <2>1 DEF DrainWorker, DrainFails, RelaunchWorker, LaunchWorker, tables
    <3> QED BY <1>1, <3>2, <3>3, <3>4
  <2>2. CASE AbandonObserved(s)
    <3>1. RowObserved(s) /\ spc[s] \in {"abandon", "undo"}
      BY <2>2 DEF AbandonObserved, RowObserved
    <3>2. obs[s].token \in Tokens /\ obs[s].state \in {"dispatching", "running"}
      BY <3>1 DEF ObservationsWellFormed, ActiveStates
    <3>3. wstate[obs[s].token] = obs[s].state => obs[s].token \notin codex
      BY <3>1, <3>2 DEF ObservationsWellFormed, DrainedStaysDown
    <3>4. UNCHANGED <<proc, codex>>
      BY <2>2 DEF AbandonObserved, procs
    <3> QED BY <2>2, <3>2, <3>3, <3>4 DEF AbandonObserved, CanAbandon, AbandonWorker, tables
  <2>3. ASSUME NEW t \in Tokens, ReserveWorker(s, t) PROVE CodexNeedsRunningRow'
    BY <2>3 DEF ReserveWorker, procs
  <2>4. CASE UNCHANGED <<wstate, proc, codex>>
    BY <2>4
  <2> QED BY <1>2, <2>1, <2>2, <2>3, <2>4 DEF SchedulerStep, AssessWorker,
       FinishReconcile, InspectLease, CheckWorkerFence, ReclaimLease, FinishSchedule,
       FinishDispatch, SchedulerCrash, ObserveWorker, TryAcquireLease,
       ReleaseUnstarted, ReservationRefused, tables, procs
<1>3. ASSUME NEW t \in Tokens, WorkerStep(t) \/ InteractiveStep(t)
      PROVE  CodexNeedsRunningRow'
  <2>1. CASE ClaimWorker(t)
    <3>1. t \notin codex
      BY <2>1 DEF ClaimWorker
    <3> QED BY <2>1, <3>1, ClaimIsFirst DEF MoveTo
  <2>2. CASE RenewWorker(t)
    BY <2>2 DEF RenewWorker, MoveTo
  <2>3. CASE CodexExits(t) \/ HandOff(t) \/ WorkerCrash(t) \/ OrphanReaped(t)
    BY <2>3 DEF CodexExits, HandOff, WorkerCrash, OrphanReaped, MoveTo, Processless, tables
  <2>8. CASE SettleOrphan(t) \/ ObserveOrphan(t)
    BY <2>8 DEF SettleOrphan, ObserveOrphan, MoveTo
  <2>4. CASE ObserveOwnLease(t)
    BY <2>4 DEF ObserveOwnLease, MoveTo, tables
  <2>5. CASE AbandonOwn(t)
    BY <2>5 DEF AbandonOwn, AbandonWorker, MoveTo, tables
  <2>6. ASSUME NEW status \in RunStatus, FinalizeWorker(t, status)
        PROVE  CodexNeedsRunningRow'
    BY <2>6 DEF FinalizeWorker, MoveTo
  <2>7. CASE InteractiveStep(t)
    BY <2>7 DEF InteractiveStep, RenewInteractive, FinishInteractive, InteractiveDies,
       tables, procs
  <2> QED BY <1>3, <2>1, <2>2, <2>3, <2>4, <2>5, <2>6, <2>7, <2>8 DEF WorkerStep
<1> QED BY <1>2, <1>3 DEF Next, Tick, vars, tables, procs

\* Where the row a scheduler acts upon after a step comes from.
LEMMA RowObservations ==
  ASSUME TypeOK, ObservationsWellFormed, [Next]_vars, NEW s \in Schedulers, RowObserved(s)'
  PROVE  \/ /\ RowObserved(s)
            /\ obs'[s].token = obs[s].token /\ obs'[s].state = obs[s].state
            /\ spc'[s] = "abandon" => spc[s] = "abandon" \/ obs[s].token \notin codex'
         \/ /\ obs'[s].token \in Tokens /\ obs'[s].state = wstate[obs'[s].token]
            /\ spc'[s] = "assess" /\ UNCHANGED wstate
         \/ obs'[s].state = "dispatching"
<1> DEFINE Source ==
      \/ /\ RowObserved(s)
         /\ obs'[s].token = obs[s].token /\ obs'[s].state = obs[s].state
         /\ spc'[s] = "abandon" => spc[s] = "abandon" \/ obs[s].token \notin codex'
      \/ /\ obs'[s].token \in Tokens /\ obs'[s].state = wstate[obs'[s].token]
         /\ spc'[s] = "assess" /\ UNCHANGED wstate
      \/ obs'[s].state = "dispatching"
<1> USE DEF RowObserved
<1>1. ASSUME spc'[s] = spc[s], obs'[s] = obs[s] PROVE Source
  BY <1>1
<1>2. ASSUME NEW r \in Schedulers, SchedulerStep(r) PROVE Source
  <2>1. CASE r # s
    <3>1. spc'[s] = spc[s] /\ obs'[s] = obs[s]
      BY <1>2, <2>1 DEF SchedulerStep, AssessWorker, DrainWorker, DrainFails,
         AbandonObserved, RelaunchWorker, FinishReconcile, InspectLease,
         CheckWorkerFence, ReclaimLease, FinishSchedule, LaunchWorker, FinishDispatch,
         SchedulerCrash, ObserveWorker, ReserveWorker, TryAcquireLease,
         ReleaseUnstarted, ReservationRefused, Goto, Resume, TypeOK, SchedulerTypes
    <3> QED BY <1>1, <3>1
  <2>2. CASE r = s
    <3> USE DEF Goto, Resume, TypeOK, SchedulerTypes
    <3>1. CASE AssessWorker(s)
      <4> DEFINE o == obs[s]
                 h == IF lease[o.project] = o.token THEN None ELSE lease[o.project]
                 seen == SeenRow(o.token, o.state, o.pid, o.heartbeat, o.age, h)
      <4>1. seen.token = o.token /\ seen.state = o.state
        BY DEF SeenRow
      <4>2. \/ spc' = [spc EXCEPT ![s] = "drain"] /\ obs' = [obs EXCEPT ![s] = seen]
            \/ spc' = [spc EXCEPT ![s] = "relaunch"] /\ UNCHANGED obs
            \/ spc' = [spc EXCEPT ![s] = "reconcile"]
        BY <3>1 DEF AssessWorker
      <4>3. spc[s] = "assess"
        BY <3>1 DEF AssessWorker
      <4> HIDE DEF seen
      <4> QED BY <4>1, <4>2, <4>3
    <3>2. CASE DrainWorker(s)
      BY <3>2 DEF DrainWorker, KillService
    <3>3. CASE LaunchWorker(s)
      BY <3>3 DEF LaunchWorker
    <3>4. ASSUME NEW t \in Tokens, ObserveWorker(s, t) PROVE Source
      <4> DEFINE seen == SeenRow(t, wstate[t], wpid[t], heartbeat[t],
                                 ObservedAge(heartbeat[t]), None)
      <4>1. seen.token = t /\ seen.state = wstate[t]
        BY DEF SeenRow
      <4>2. /\ spc' = [spc EXCEPT ![s] = "assess"] /\ obs' = [obs EXCEPT ![s] = seen]
            /\ UNCHANGED wstate
        BY <3>4 DEF ObserveWorker, tables
      <4> HIDE DEF seen
      <4> QED BY <4>1, <4>2
    <3>5. ASSUME NEW t \in Tokens, ReserveWorker(s, t) PROVE Source
      <4> DEFINE seen == SeenRow(t, "dispatching", 0, now, "fresh", None)
      <4>1. seen.state = "dispatching"
        BY DEF SeenRow
      <4>2. \/ obs' = [obs EXCEPT ![s] = seen]
            \/ UNCHANGED <<spc, obs>>
        BY <3>5 DEF ReserveWorker
      <4> HIDE DEF seen
      <4> QED BY <4>1, <4>2
    <3>6. CASE \/ DrainFails(s) \/ RelaunchWorker(s) \/ FinishReconcile(s)
               \/ ReclaimLease(s) \/ FinishSchedule(s) \/ FinishDispatch(s)
               \/ SchedulerCrash(s) \/ AbandonObserved(s)
      BY <3>6 DEF DrainFails, RelaunchWorker, FinishReconcile, ReclaimLease,
         FinishSchedule, FinishDispatch, SchedulerCrash, AbandonObserved
    <3>7. CASE InspectLease(s) \/ CheckWorkerFence(s)
      BY <3>7 DEF InspectLease, CheckWorkerFence
    <3>8. ASSUME NEW p \in Projects,
                 TryAcquireLease(s, p) \/ ReleaseUnstarted(s, p) \/ ReservationRefused(s, p)
          PROVE  Source
      BY <3>8 DEF TryAcquireLease, ReleaseUnstarted, ReservationRefused, Candidate
    <3> QED BY <1>2, <2>2, <3>1, <3>2, <3>3, <3>4, <3>5, <3>6, <3>7, <3>8 DEF SchedulerStep
  <2> QED BY <2>1, <2>2
<1>3. ASSUME NEW t \in Tokens, WorkerStep(t) \/ InteractiveStep(t)
      PROVE  UNCHANGED scheds
  BY <1>3 DEF WorkerStep, InteractiveStep, ClaimWorker, RenewWorker, CodexExits, HandOff,
     FinalizeWorker, ObserveOwnLease, AbandonOwn, WorkerCrash, OrphanReaped,
     SettleOrphan, ObserveOrphan, RenewInteractive, FinishInteractive, InteractiveDies
<1>4. CASE UNCHANGED scheds
  BY <1>4, <1>1 DEF scheds
<1> QED BY <1>2, <1>3, <1>4 DEF Next, Tick, vars

\* A row observed running is never claimed again, so its drain is not undone.
LEMMA DrainedStep ==
  ASSUME TypeOK, ObservationsWellFormed, UnclaimedIsNewer, DrainedStaysDown, [Next]_vars
  PROVE  DrainedStaysDown'
<1> SUFFICES ASSUME NEW s \in Schedulers, RowObserved(s)', obs'[s].state = "running"
             PROVE  /\ wstate'[obs'[s].token] \notin {"absent", "dispatching"}
                    /\ spc'[s] = "abandon" => obs'[s].token \notin codex'
  BY DEF DrainedStaysDown
<1>1. CASE /\ RowObserved(s)
           /\ obs'[s].token = obs[s].token /\ obs'[s].state = obs[s].state
           /\ spc'[s] = "abandon" => spc[s] = "abandon" \/ obs[s].token \notin codex'
  <2>1. obs[s].token \in Tokens
    BY <1>1 DEF ObservationsWellFormed
  <2>2. /\ wstate[obs[s].token] \notin {"absent", "dispatching"}
        /\ spc[s] = "abandon" => obs[s].token \notin codex
    BY <1>1 DEF DrainedStaysDown
  <2>3. wstate'[obs[s].token] \notin {"absent", "dispatching"}
    BY <2>1, <2>2, RowsMoveForward
  <2>4. obs[s].token \notin codex => obs[s].token \notin codex'
    BY <2>1, <2>2, CodexSteps, ClaimIsFirst
  <2> QED BY <1>1, <2>2, <2>3, <2>4
<1>2. CASE /\ obs'[s].token \in Tokens /\ obs'[s].state = wstate[obs'[s].token]
           /\ spc'[s] = "assess" /\ UNCHANGED wstate
  BY <1>2
<1> QED BY <1>1, <1>2, RowObservations

-----------------------------------------------------------------------------
(* Leases                                                                  *)

\* No holder of another kind is a worker.
LEMMA ForeignHolders ==
  /\ \A s \in Schedulers : s \notin Tokens
  /\ \A t \in Tokens : Interactive[t] \notin Tokens
  /\ None \notin Tokens
BY HoldersDistinct

\* What a release leaves: the lease of p is gone or somebody else's.
LEMMA Released ==
  ASSUME TypeOK, NEW p \in Projects, NEW h, ReleaseLease(p, h)
  PROVE  /\ \A q \in Projects : q # p => lease'[q] = lease[q]
         /\ lease[p] = h => lease'[p] = None
         /\ lease[p] # h => lease'[p] = lease[p]
BY DEF ReleaseLease, TypeOK, TableTypes

\* Ending a worker takes its own lease with it.
LEMMA EndedWorkerLosesLease ==
  ASSUME TypeOK, WorkerLeaseIsLive, ActiveWorkerKeepsLease,
         NEW t \in Tokens, NEW end \in TerminalStates,
         wstate' = [wstate EXCEPT ![t] = end], ReleaseLease(ProjectOf[t], t),
         UNCHANGED guardian
  PROVE  WorkerLeaseIsLive' /\ ActiveWorkerKeepsLease'
<1> DEFINE p == ProjectOf[t]
<1>1. p \in Projects /\ \A u \in Tokens : ProjectOf[u] \in Projects
  BY ConstantTypes
<1>2. /\ \A q \in Projects : q # p => lease'[q] = lease[q]
      /\ lease[p] = t => lease'[p] = None
      /\ lease[p] # t => lease'[p] = lease[p]
  BY <1>1, Released
<1>3. /\ wstate'[t] \notin ActiveStates
      /\ \A u \in Tokens : u # t => wstate'[u] = wstate[u]
  BY DEF TypeOK, TableTypes, TerminalStates, ActiveStates
<1>4. WorkerLeaseIsLive'
  BY <1>1, <1>2, <1>3, ForeignHolders DEF WorkerLeaseIsLive, Active
<1>5. ActiveWorkerKeepsLease'
  BY <1>1, <1>2, <1>3 DEF ActiveWorkerKeepsLease, Active, OwnsLease
<1> QED BY <1>4, <1>5

\* Leases that are not a worker's come and go without touching a worker's.
LEMMA ForeignRelease ==
  ASSUME TypeOK, WorkerLeaseIsLive, ActiveWorkerKeepsLease, NEW p \in Projects, NEW h,
         h \in Tokens => ~Active(h), ReleaseLease(p, h), UNCHANGED wstate,
         \A t \in Tokens : guardian'[t] = "none" => guardian[t] = "none"
  PROVE  WorkerLeaseIsLive' /\ ActiveWorkerKeepsLease'
<1>1. \A u \in Tokens : ProjectOf[u] \in Projects
  BY ConstantTypes
<1>2. /\ \A q \in Projects : q # p => lease'[q] = lease[q]
      /\ lease[p] = h => lease'[p] = None
      /\ lease[p] # h => lease'[p] = lease[p]
  BY Released
<1>3. WorkerLeaseIsLive'
  BY <1>1, <1>2, ForeignHolders DEF WorkerLeaseIsLive, Active
<1>4. ActiveWorkerKeepsLease'
  BY <1>1, <1>2 DEF ActiveWorkerKeepsLease, Active, OwnsLease
<1> QED BY <1>3, <1>4

\* Every step keeps worker leases live and active workers leased: only the
\* fence checks of acquisition and reclaim stand between two owners.
LEMMA LeaseStep ==
  ASSUME TypeOK, ObservationsWellFormed, UnclaimedIsNewer, OneActiveWorker,
         ReclaimsOnlyEnded, WorkerLeaseIsLive, ActiveWorkerKeepsLease, [Next]_vars
  PROVE  WorkerLeaseIsLive' /\ ActiveWorkerKeepsLease'
<1> DEFINE Goal == WorkerLeaseIsLive' /\ ActiveWorkerKeepsLease'
<1>0. \A u \in Tokens : ProjectOf[u] \in Projects
  BY ConstantTypes
<1>1. ASSUME NEW s \in Schedulers, NEW t \in Tokens, ReserveWorker(s, t) PROVE Goal
  <2> DEFINE p == ProjectOf[t]
  <2>1. /\ wstate'[t] \in ActiveStates /\ UNCHANGED guardian
        /\ \A u \in Tokens : u # t => (wstate'[u] \in ActiveStates <=> wstate[u] \in ActiveStates)
        /\ \A u \in Tokens : ProjectOf[u] = p => wstate[u] \notin ActiveStates
    BY <1>1 DEF ReserveWorker, CanReserve, ActiveWorkers, Active, ActiveStates, TypeOK, TableTypes
  <2>2. lease'[p] = t /\ \A q \in Projects : q # p => lease'[q] = lease[q]
    BY <1>0, <1>1 DEF ReserveWorker, TypeOK, TableTypes
  <2>3. WorkerLeaseIsLive'
    BY <1>0, <2>1, <2>2 DEF WorkerLeaseIsLive, Active
  <2>4. ActiveWorkerKeepsLease'
    BY <1>0, <2>1, <2>2 DEF ActiveWorkerKeepsLease, Active, OwnsLease
  <2> QED BY <2>3, <2>4
<1>2. ASSUME NEW s \in Schedulers, NEW p \in Projects, TryAcquireLease(s, p) PROVE Goal
  <2>1. UNCHANGED <<wstate, guardian>>
    BY <1>2 DEF TryAcquireLease
  <2>2. CASE ~CanAcquire(p)
    BY <1>2, <2>1, <2>2 DEF TryAcquireLease, WorkerLeaseIsLive, ActiveWorkerKeepsLease,
       Active, OwnsLease
  <2>3. CASE CanAcquire(p)
    <3>1. lease'[p] = s /\ \A q \in Projects : q # p => lease'[q] = lease[q]
      BY <1>2, <2>3 DEF TryAcquireLease, WriteLease, TypeOK, TableTypes
    <3>2. \A u \in Tokens : Active(u) /\ ProjectOf[u] = p => lease[p] # u
      BY <2>3, ForeignHolders DEF CanAcquire, WorkerFenced, ActiveWorkers
    <3>3. WorkerLeaseIsLive'
      BY <2>1, <3>1, ForeignHolders DEF WorkerLeaseIsLive, Active
    <3>4. ActiveWorkerKeepsLease'
      BY <1>0, <2>1, <3>1, <3>2 DEF ActiveWorkerKeepsLease, Active, OwnsLease
    <3> QED BY <3>3, <3>4
  <2> QED BY <2>2, <2>3
<1>3. ASSUME NEW s \in Schedulers, NEW p \in Projects, ReleaseUnstarted(s, p) PROVE Goal
  BY <1>3, ForeignRelease, ForeignHolders DEF ReleaseUnstarted
<1>4. ASSUME NEW s \in Schedulers, ReclaimLease(s) PROVE Goal
  <2>1. obs[s].project \in Projects
    BY <1>4 DEF ReclaimLease, ObservationsWellFormed, LeaseObserved
  <2>2. obs[s].holder \in Tokens => ~Active(obs[s].holder)
    BY <1>4 DEF ReclaimLease, ReclaimsOnlyEnded, Terminal, Active, TerminalStates, ActiveStates
  <2> QED BY <1>4, <2>1, <2>2, ForeignRelease DEF ReclaimLease
<1>5. ASSUME NEW s \in Schedulers, AbandonObserved(s) PROVE Goal
  <2>1. obs[s].token \in Tokens
    BY <1>5 DEF AbandonObserved, ObservationsWellFormed, RowObserved
  <2>2. UNCHANGED guardian
    BY <1>5 DEF AbandonObserved
  <2>3. CASE AbandonWorker(obs[s].token)
    BY <2>1, <2>2, <2>3, EndedWorkerLosesLease DEF AbandonWorker, TerminalStates
  <2>4. CASE UNCHANGED tables
    BY <2>2, <2>4 DEF tables, WorkerLeaseIsLive, ActiveWorkerKeepsLease, Active, OwnsLease
  <2> QED BY <1>5, <2>3, <2>4 DEF AbandonObserved
<1>6. ASSUME NEW t \in Tokens, AbandonOwn(t) PROVE Goal
  <2>1. UNCHANGED guardian
    BY <1>6 DEF AbandonOwn
  <2>2. CASE AbandonWorker(t)
    BY <2>1, <2>2, EndedWorkerLosesLease DEF AbandonWorker, TerminalStates
  <2>3. CASE UNCHANGED tables
    BY <2>1, <2>3 DEF tables, WorkerLeaseIsLive, ActiveWorkerKeepsLease, Active, OwnsLease
  <2> QED BY <1>6, <2>2, <2>3 DEF AbandonOwn
<1>7. ASSUME NEW t \in Tokens, NEW status \in RunStatus, FinalizeWorker(t, status) PROVE Goal
  <2>1. CASE CanFinalize(t)
    BY <1>7, <2>1, EndedWorkerLosesLease DEF FinalizeWorker, TerminalStates
  <2>2. CASE ~CanFinalize(t)
    BY <1>7, <2>2 DEF FinalizeWorker, WorkerLeaseIsLive, ActiveWorkerKeepsLease, Active, OwnsLease
  <2> QED BY <2>1, <2>2
<1>8. ASSUME NEW t \in Tokens, HandOff(t) PROVE Goal
  <2> DEFINE p == ProjectOf[t]
  <2>1. /\ lease[p] = t /\ lease'[p] = Interactive[t] /\ UNCHANGED wstate
        /\ \A q \in Projects : q # p => lease'[q] = lease[q]
        /\ guardian'[t] = "live" /\ \A u \in Tokens : u # t => guardian'[u] = guardian[u]
    BY <1>0, <1>8 DEF HandOff, OwnsLease, WriteLease, TypeOK, TableTypes, ProcessTypes
  <2>2. WorkerLeaseIsLive'
    BY <2>1, ForeignHolders DEF WorkerLeaseIsLive, Active
  <2>3. ActiveWorkerKeepsLease'
    BY <1>0, <2>1 DEF ActiveWorkerKeepsLease, Active, OwnsLease
  <2> QED BY <2>2, <2>3
<1>9. ASSUME NEW t \in Tokens, FinishInteractive(t) PROVE Goal
  <2>1. \A u \in Tokens : guardian'[u] = "none" => guardian[u] = "none"
    BY <1>9 DEF FinishInteractive, TypeOK, ProcessTypes
  <2> QED BY <1>0, <1>9, <2>1, ForeignRelease, ForeignHolders DEF FinishInteractive
<1>10. ASSUME NEW t \in Tokens, InteractiveDies(t) PROVE Goal
  <2>1. \A u \in Tokens : guardian'[u] = "none" => guardian[u] = "none"
    BY <1>10 DEF InteractiveDies, TypeOK, ProcessTypes
  <2>2. UNCHANGED <<lease, wstate>>
    BY <1>10 DEF InteractiveDies, tables
  <2> QED BY <2>1, <2>2 DEF WorkerLeaseIsLive, ActiveWorkerKeepsLease, Active, OwnsLease
<1>11. ASSUME UNCHANGED <<lease, guardian>>,
              \A t \in Tokens : wstate'[t] \in ActiveStates <=> wstate[t] \in ActiveStates
       PROVE  Goal
  BY <1>11 DEF WorkerLeaseIsLive, ActiveWorkerKeepsLease, Active, OwnsLease
<1>12. ASSUME NEW t \in Tokens, ClaimWorker(t) PROVE Goal
  <2>1. \A u \in Tokens : wstate'[u] \in ActiveStates <=> wstate[u] \in ActiveStates
    BY <1>12, ClaimIsFirst DEF TypeOK, TableTypes, ActiveStates
  <2> QED BY <1>11, <1>12, <2>1 DEF ClaimWorker
<1>13. CASE UNCHANGED <<lease, guardian, wstate>>
  BY <1>11, <1>13
<1>14. ASSUME NEW t \in Tokens, SettleOrphan(t) PROVE Goal
  <2> DEFINE p == ProjectOf[t]
  <2>1. /\ lease'[p] # t \/ UNCHANGED lease
        /\ lease[p] \notin {None, t} => UNCHANGED lease
        /\ lease'[p] \in {None, Interactive[t], lease[p]} /\ UNCHANGED wstate
        /\ \A q \in Projects : q # p => lease'[q] = lease[q]
        /\ guardian'[t] # "none" /\ \A u \in Tokens : u # t => guardian'[u] = guardian[u]
    BY <1>0, <1>14, ForeignHolders
       DEF SettleOrphan, ReleaseLease, WriteLease, TypeOK, TableTypes, ProcessTypes
  <2>2. WorkerLeaseIsLive'
    BY <2>1, ForeignHolders DEF WorkerLeaseIsLive, Active
  <2>3. ActiveWorkerKeepsLease'
    <3>1. ASSUME NEW u \in Tokens, Active(u)', guardian'[u] = "none" PROVE lease'[ProjectOf[u]] = u
      <4>1. u # t /\ lease[ProjectOf[u]] = u
        BY <2>1, <3>1 DEF ActiveWorkerKeepsLease, Active, OwnsLease
      <4> QED BY <1>0, <2>1, <4>1, ForeignHolders
    <3> QED BY <3>1 DEF ActiveWorkerKeepsLease, OwnsLease
  <2> QED BY <2>2, <2>3
<1>15. ASSUME NEW t \in Tokens, ObserveOrphan(t) PROVE Goal
  <2>1. CASE Active(t)
    BY <1>15, <2>1, <1>13 DEF ObserveOrphan
  <2>2. CASE ~Active(t)
    BY <1>0, <1>15, <2>2, ForeignRelease DEF ObserveOrphan
  <2> QED BY <2>1, <2>2
<1> QED BY <1>1, <1>2, <1>3, <1>4, <1>5, <1>6, <1>7, <1>8, <1>9, <1>10, <1>12, <1>13, <1>14,
       <1>15, RowSteps, LeaseSteps

\* Where the worker's lease that a scheduler is about to release comes from.
LEMMA ReclaimStep ==
  ASSUME TypeOK, ObservationsWellFormed, UnclaimedIsNewer, ReclaimsOnlyEnded,
         WorkerLeaseIsLive, [Next]_vars
  PROVE  ReclaimsOnlyEnded'
<1> DEFINE Ended(s) ==
      obs'[s].holder \in Tokens /\ spc'[s] \in {"fence", "reclaim"} =>
        /\ wstate'[obs'[s].holder] # "absent"
        /\ ProjectOf[obs'[s].holder] = obs'[s].project
        /\ spc'[s] = "reclaim" => wstate'[obs'[s].holder] \in TerminalStates
<1> SUFFICES ASSUME NEW s \in Schedulers PROVE Ended(s)
  BY DEF ReclaimsOnlyEnded, Terminal
<1>1. ASSUME obs'[s] = obs[s], spc'[s] = spc[s] PROVE Ended(s)
  BY <1>1, RowsMoveForward DEF ReclaimsOnlyEnded, Terminal
<1>2. ASSUME spc'[s] \notin {"fence", "reclaim"} PROVE Ended(s)
  BY <1>2
<1>3. ASSUME NEW r \in Schedulers, SchedulerStep(r) PROVE Ended(s)
  <2>1. CASE r # s
    <3>1. obs'[s] = obs[s] /\ spc'[s] = spc[s]
      BY <1>3, <2>1 DEF SchedulerStep, AssessWorker, DrainWorker, DrainFails,
         AbandonObserved, RelaunchWorker, FinishReconcile, InspectLease,
         CheckWorkerFence, ReclaimLease, FinishSchedule, LaunchWorker, FinishDispatch,
         SchedulerCrash, ObserveWorker, ReserveWorker, TryAcquireLease,
         ReleaseUnstarted, ReservationRefused, Goto, Resume, TypeOK, SchedulerTypes
    <3> QED BY <1>1, <3>1
  <2>2. CASE r = s
    <3> USE DEF Goto, Resume, TypeOK, SchedulerTypes
    <3>1. CASE InspectLease(s)
      <4> DEFINE p == obs[s].project
                 seen == SeenLease(p, lease[p])
      <4>1. p \in Projects
        BY <3>1 DEF InspectLease, ObservationsWellFormed, LeaseObserved
      <4>2. seen.project = p /\ seen.holder = lease[p]
        BY DEF SeenLease
      <4>3. \/ obs' = [obs EXCEPT ![s] = seen] /\ spc' = [spc EXCEPT ![s] = "fence"]
            \/ spc' = [spc EXCEPT ![s] = "schedule"]
        BY <3>1 DEF InspectLease
      <4>4. UNCHANGED wstate
        BY <3>1 DEF InspectLease, tables
      <4>5. lease[p] \in Tokens => wstate[lease[p]] # "absent" /\ ProjectOf[lease[p]] = p
        BY <4>1 DEF WorkerLeaseIsLive, Active, ActiveStates
      <4> HIDE DEF seen
      <4> QED BY <4>2, <4>3, <4>4, <4>5
    <3>2. CASE CheckWorkerFence(s)
      <4> DEFINE h == obs[s].holder
      <4>1. CASE WorkerFenced(obs[s].project, h)
        BY <3>2, <4>1, <1>2 DEF CheckWorkerFence
      <4>2. CASE ~WorkerFenced(obs[s].project, h) /\ h \in Tokens
        <5>1. spc[s] = "fence" /\ UNCHANGED <<wstate, obs>>
          BY <3>2, <4>2 DEF CheckWorkerFence, tables
        <5>2. wstate[h] # "absent" /\ ProjectOf[h] = obs[s].project
          BY <4>2, <5>1 DEF ReclaimsOnlyEnded
        <5>3. wstate[h] \notin ActiveStates
          BY <4>2, <5>2 DEF WorkerFenced, ActiveWorkers, Active
        <5>4. wstate[h] \in TerminalStates
          BY <4>2, <5>2, <5>3 DEF TableTypes, WorkerStates
        <5> QED BY <5>1, <5>2, <5>4
      <4>3. CASE ~WorkerFenced(obs[s].project, h) /\ h \notin Tokens
        BY <3>2, <4>3 DEF CheckWorkerFence
      <4> QED BY <4>1, <4>2, <4>3
    <3>3. CASE AssessWorker(s)
      <4>1. spc'[s] \in {"drain", "relaunch", "reconcile"}
        BY <3>3 DEF AssessWorker
      <4> QED BY <1>2, <4>1
    <3>4. CASE \/ DrainWorker(s) \/ DrainFails(s) \/ RelaunchWorker(s) \/ FinishReconcile(s)
               \/ ReclaimLease(s) \/ FinishSchedule(s) \/ FinishDispatch(s)
               \/ SchedulerCrash(s) \/ LaunchWorker(s) \/ AbandonObserved(s)
      BY <3>4, <1>2 DEF DrainWorker, DrainFails, RelaunchWorker, FinishReconcile,
         ReclaimLease, FinishSchedule, FinishDispatch, SchedulerCrash, LaunchWorker,
         AbandonObserved
    <3>5. ASSUME NEW t \in Tokens, ObserveWorker(s, t) \/ ReserveWorker(s, t) PROVE Ended(s)
      BY <3>5, <1>2 DEF ObserveWorker, ReserveWorker
    <3>6. ASSUME NEW p \in Projects,
                 TryAcquireLease(s, p) \/ ReleaseUnstarted(s, p) \/ ReservationRefused(s, p)
          PROVE  Ended(s)
      BY <3>6, <1>2 DEF TryAcquireLease, ReleaseUnstarted, ReservationRefused, Candidate
    <3> QED BY <1>3, <2>2, <3>1, <3>2, <3>3, <3>4, <3>5, <3>6 DEF SchedulerStep
  <2> QED BY <2>1, <2>2
<1>4. ASSUME NEW t \in Tokens, WorkerStep(t) \/ InteractiveStep(t)
      PROVE  UNCHANGED scheds
  BY <1>4 DEF WorkerStep, InteractiveStep, ClaimWorker, RenewWorker, CodexExits, HandOff,
     FinalizeWorker, ObserveOwnLease, AbandonOwn, WorkerCrash, OrphanReaped,
     SettleOrphan, ObserveOrphan, RenewInteractive, FinishInteractive, InteractiveDies
<1>5. CASE UNCHANGED scheds
  BY <1>5, <1>1 DEF scheds
<1> QED BY <1>3, <1>4, <1>5 DEF Next, Tick, vars

-----------------------------------------------------------------------------
(* Runs                                                                    *)

\* Ending an active worker records its run, and no other.
LEMMA EndRecordsRun ==
  ASSUME TypeOK, RunRecordedAtTermination, NEW t \in Tokens, Active(t),
         NEW end \in TerminalStates, NEW status \in RunStatus,
         wstate' = [wstate EXCEPT ![t] = end], RecordRun(t, status)
  PROVE  RunRecordedAtTermination' /\ \A u \in Tokens : Terminal(u) => run'[u] = run[u]
<1>1. run[t] = "none" /\ ~Terminal(t)
  BY DEF RunRecordedAtTermination, Active, Terminal, ActiveStates, TerminalStates
<1>2. /\ run'[t] = status /\ \A u \in Tokens : u # t => run'[u] = run[u]
      /\ wstate'[t] = end /\ \A u \in Tokens : u # t => wstate'[u] = wstate[u]
  BY <1>1 DEF RecordRun, TypeOK, TableTypes
<1>3. status # "none"
  BY DEF RunStatus
<1> QED BY <1>1, <1>2, <1>3 DEF RunRecordedAtTermination, Terminal

\* Every step keeps runs and terminal rows together, and rewrites no run.
LEMMA RunStep ==
  ASSUME TypeOK, ObservationsWellFormed, UnclaimedIsNewer, RunRecordedAtTermination,
         [Next]_vars
  PROVE  RunRecordedAtTermination' /\ \A u \in Tokens : Terminal(u) => run'[u] = run[u]
<1> DEFINE Goal == RunRecordedAtTermination' /\ \A u \in Tokens : Terminal(u) => run'[u] = run[u]
<1>1. ASSUME UNCHANGED run,
             \A t \in Tokens : wstate'[t] \in TerminalStates <=> wstate[t] \in TerminalStates
      PROVE  Goal
  BY <1>1 DEF RunRecordedAtTermination, Terminal
<1>2. ASSUME NEW s \in Schedulers, NEW t \in Tokens, ReserveWorker(s, t) PROVE Goal
  BY <1>1, <1>2 DEF ReserveWorker, TypeOK, TableTypes, TerminalStates
<1>3. ASSUME NEW t \in Tokens, ClaimWorker(t) PROVE Goal
  <2>1. \A u \in Tokens : wstate'[u] \in TerminalStates <=> wstate[u] \in TerminalStates
    BY <1>3, ClaimIsFirst DEF TypeOK, TableTypes, TerminalStates
  <2> QED BY <1>1, <1>3, <2>1 DEF ClaimWorker
<1>4. ASSUME NEW s \in Schedulers, AbandonObserved(s) PROVE Goal
  <2> DEFINE o == obs[s]
  <2>1. o.token \in Tokens /\ o.state \in ActiveStates
    BY <1>4 DEF AbandonObserved, ObservationsWellFormed, RowObserved
  <2>2. \/ wstate[o.token] = o.state /\ AbandonWorker(o.token)
        \/ UNCHANGED <<wstate, run>>
    BY <1>4 DEF AbandonObserved, CanAbandon, tables
  <2> HIDE DEF o
  <2> QED BY <1>1, <2>1, <2>2, EndRecordsRun DEF AbandonWorker, Active, TerminalStates, RunStatus
<1>5. ASSUME NEW t \in Tokens, AbandonOwn(t) PROVE Goal
  <2>1. \/ wstate[t] = "running" /\ AbandonWorker(t)
        \/ UNCHANGED <<wstate, run>>
    BY <1>5 DEF AbandonOwn, CanAbandon, tables
  <2> QED BY <1>1, <2>1, EndRecordsRun DEF AbandonWorker, Active, ActiveStates, TerminalStates, RunStatus
<1>6. ASSUME NEW t \in Tokens, NEW status \in RunStatus, FinalizeWorker(t, status) PROVE Goal
  BY <1>1, <1>6, EndRecordsRun DEF FinalizeWorker, CanFinalize, TerminalStates
<1> QED BY <1>1, <1>2, <1>3, <1>4, <1>5, <1>6, RowSteps

-----------------------------------------------------------------------------
(* The theorems                                                            *)

\* The initial state satisfies the inductive invariant.
LEMMA InitOwnership == Init => OwnershipInv
<1> SUFFICES ASSUME Init PROVE OwnershipInv
  OBVIOUS
<1>1. TypeOK
  <2>1. TableTypes
    BY DEF Init, TableTypes, WorkerStates
  <2>2. ProcessTypes
    BY StateNames DEF Init, ProcessTypes
  <2>3. SchedulerTypes
    BY StateNames, NoObsType DEF Init, SchedulerTypes
  <2> QED BY <2>1, <2>2, <2>3 DEF Init, TypeOK
<1>2. ObservationsWellFormed /\ DrainedStaysDown /\ ReclaimsOnlyEnded
  BY DEF Init, ObservationsWellFormed, DrainedStaysDown, ReclaimsOnlyEnded, RowObserved,
     LeaseObserved
<1>3. UnclaimedIsNewer /\ CodexNeedsRunningRow
  BY DEF Init, UnclaimedIsNewer, CodexNeedsRunningRow
<1>4. OneActiveWorker /\ ActiveWorkerKeepsLease
  BY DEF Init, OneActiveWorker, ActiveWorkerKeepsLease, ActiveWorkers, Active, ActiveStates
<1>5. WorkerLeaseIsLive
  BY ForeignHolders DEF Init, WorkerLeaseIsLive
<1>6. RunRecordedAtTermination
  BY DEF Init, RunRecordedAtTermination, Terminal, TerminalStates
<1> QED BY <1>1, <1>2, <1>3, <1>4, <1>5, <1>6 DEF OwnershipInv

\* Every step keeps the inductive invariant.
LEMMA OwnershipStep == OwnershipInv /\ [Next]_vars => OwnershipInv'
BY TypeStep, ObservationStep, UnclaimedStep, CodexStep, DrainedStep, OneActiveStep,
   ReclaimStep, LeaseStep, RunStep DEF OwnershipInv

\* The inductive invariant holds of every behaviour of the lease protocol
\* (workers_leases.rs, scheduler.rs and worker.rs together).
THEOREM Ownership == Spec => []OwnershipInv
BY InitOwnership, OwnershipStep, PTL DEF Spec

\* The tables, processes and scheduler locals keep their types.
THEOREM TypeCorrect == Spec => []TypeOK
<1>1. OwnershipInv => TypeOK
  BY DEF OwnershipInv
<1> QED BY <1>1, Ownership, PTL

\* However many schedulers, workers and crashes there are, two workers never run
\* Codex in one project at the same time (worker.rs: drain before abandon).
THEOREM Exclusion == Spec => []ExclusiveCodex
<1>1. OwnershipInv => ExclusiveCodex
  BY DEF OwnershipInv, ExclusiveCodex, CodexNeedsRunningRow, OneActiveWorker,
     ActiveWorkers, Active, ActiveStates, TypeOK, ProcessTypes
<1> QED BY <1>1, Ownership, PTL

\* No acquisition, reclaim or release takes the lease of an active worker that
\* has not handed off, and whatever ends a worker gives its lease back in the
\* same transaction (try_acquire_lease, try_reclaim_inactive_agent_lease,
\* abandon_worker, finalize_worker).
THEOREM LeaseDiscipline == Spec => []WorkerLeaseDiscipline
<1>1. OwnershipInv => WorkerLeaseDiscipline
  BY DEF OwnershipInv, WorkerLeaseDiscipline
<1> QED BY <1>1, Ownership, PTL

\* Every worker that ended has its run recorded and no other worker has one
\* (abandon_worker and finalize_worker share the unique runs.worker_token).
THEOREM RunsRecorded == Spec => []RunRecordedAtTermination
<1>1. OwnershipInv => RunRecordedAtTermination
  BY DEF OwnershipInv
<1> QED BY <1>1, Ownership, PTL

\* Once a worker has ended, neither its own late finalization nor another
\* scheduler's abandonment changes how it ended.
THEOREM Finality == Spec => TerminationIsFinal
<1> DEFINE Final == \A t \in Tokens :
                      Terminal(t) => /\ wstate'[t] \in TerminalStates
                                     /\ wstate[t] = "completed" <=> wstate'[t] = "completed"
                                     /\ run'[t] = run[t]
<1>1. OwnershipInv /\ [Next]_vars => [Final]_vars
  <2> SUFFICES ASSUME OwnershipInv, [Next]_vars PROVE Final
    OBVIOUS
  <2>1. \A u \in Tokens : Terminal(u) => run'[u] = run[u]
    BY RunStep DEF OwnershipInv
  <2> QED BY <2>1, RowsMoveForward DEF OwnershipInv, Terminal
<1> QED BY <1>1, Ownership, PTL DEF Spec, TerminationIsFinal

-----------------------------------------------------------------------------
(* Counting                                                                *)

\* Every step keeps the active workers within the largest limit.
LEMMA CapacityStep ==
  ASSUME OwnershipInv, WithinCapacity, [Next]_vars
  PROVE  WithinCapacity'
<1> USE DEF OwnershipInv
<1>1. ActiveWorkers \subseteq Tokens /\ IsFiniteSet(ActiveWorkers)
  BY FiniteTokens, FS_Subset DEF ActiveWorkers
<1>2. ASSUME ActiveWorkers' \subseteq ActiveWorkers PROVE WithinCapacity'
  <2>1. /\ IsFiniteSet(ActiveWorkers')
        /\ Cardinality(ActiveWorkers') <= Cardinality(ActiveWorkers)
    BY <1>1, <1>2, FS_Subset
  <2>2. Cardinality(ActiveWorkers') \in Nat /\ Cardinality(ActiveWorkers) \in Nat
    BY <1>1, <2>1, FS_CardinalityType
  <2> QED BY <1>2, <2>1, <2>2, ConstantTypes DEF WithinCapacity
<1>3. ASSUME \A t \in Tokens : wstate'[t] \in ActiveStates => wstate[t] \in ActiveStates
      PROVE  WithinCapacity'
  BY <1>2, <1>3 DEF ActiveWorkers, Active
<1>4. ASSUME NEW s \in Schedulers, NEW t \in Tokens, ReserveWorker(s, t)
      PROVE  WithinCapacity'
  <2>1. ActiveWorkers' = ActiveWorkers \cup {t}
    BY <1>4 DEF ReserveWorker, ActiveWorkers, Active, ActiveStates, TypeOK, TableTypes
  <2>2. Cardinality(ActiveWorkers) < MaxGlobalJobs[s]
    BY <1>4 DEF ReserveWorker, CanReserve
  <2>3. Cardinality(ActiveWorkers') = Cardinality(ActiveWorkers) + 1
    <3>1. t \notin ActiveWorkers
      BY <1>4 DEF ReserveWorker, ActiveWorkers, Active, ActiveStates
    <3> QED BY <1>1, <2>1, <3>1, FS_AddElement
  <2>4. Cardinality(ActiveWorkers) \in Nat /\ Cardinality(ActiveWorkers') \in Nat
    BY <1>1, <2>1, FS_AddElement, FS_CardinalityType
  <2> QED BY <2>2, <2>3, <2>4, ConstantTypes DEF WithinCapacity
<1>5. ASSUME NEW t \in Tokens, ClaimWorker(t) PROVE WithinCapacity'
  BY <1>3, <1>5, ClaimIsFirst DEF TypeOK, TableTypes, ActiveStates
<1>6. ASSUME NEW s \in Schedulers, AbandonObserved(s) PROVE WithinCapacity'
  BY <1>3, <1>6 DEF AbandonObserved, AbandonWorker, TypeOK, TableTypes, ActiveStates, tables
<1>7. ASSUME NEW t \in Tokens, AbandonOwn(t) PROVE WithinCapacity'
  BY <1>3, <1>7 DEF AbandonOwn, AbandonWorker, TypeOK, TableTypes, ActiveStates, tables
<1>8. ASSUME NEW t \in Tokens, NEW status \in RunStatus, FinalizeWorker(t, status)
      PROVE  WithinCapacity'
  BY <1>3, <1>8 DEF FinalizeWorker, TypeOK, TableTypes, ActiveStates
<1> QED BY <1>3, <1>4, <1>5, <1>6, <1>7, <1>8, RowSteps

\* Processes with different limits together keep the number of active workers
\* within the largest limit (reserve_worker counts inside its transaction).
THEOREM Capacity == Spec => []WithinCapacity
<1>1. Init => WithinCapacity
  BY DEF Init, WithinCapacity, ActiveWorkers, Active, ActiveStates
<1>2. OwnershipInv /\ WithinCapacity /\ [Next]_vars => WithinCapacity'
  BY CapacityStep
<1> QED BY <1>1, <1>2, Ownership, PTL DEF Spec

\* The failed runs recorded for a project.
FailedRuns(p) == {t \in Tokens : ProjectOf[t] = p /\ run[t] = "failure"}

\* Recording a run keeps the counter of its project within the failed runs.
LEMMA RecordRunCounts ==
  ASSUME TypeOK, FailuresCountedOnce, NEW t \in Tokens, NEW status \in RunStatus,
         RecordRun(t, status)
  PROVE  FailuresCountedOnce'
<1> SUFFICES ASSUME NEW p \in Projects
             PROVE  failures'[p] <= Cardinality(FailedRuns(p)')
  BY DEF FailuresCountedOnce, FailedRuns
<1>1. IsFiniteSet(FailedRuns(p)) /\ IsFiniteSet(FailedRuns(p)')
  BY FiniteTokens, FS_Subset DEF FailedRuns
<1>2. /\ Cardinality(FailedRuns(p)) \in Nat /\ Cardinality(FailedRuns(p)') \in Nat
      /\ failures[p] \in Nat /\ failures[p] <= Cardinality(FailedRuns(p))
  BY <1>1, FS_CardinalityType DEF FailuresCountedOnce, FailedRuns, TypeOK, TableTypes
<1>3. CASE run[t] # "none"
  <2>1. UNCHANGED <<run, failures>>
    BY <1>3 DEF RecordRun
  <2> QED BY <1>2, <2>1 DEF FailedRuns
<1>4. CASE run[t] = "none"
  <2>1. /\ run' = [run EXCEPT ![t] = status]
        /\ failures' = [failures EXCEPT
                          ![ProjectOf[t]] = FailuresAfter(ProjectOf[t], status)]
    BY <1>4 DEF RecordRun
  <2>2. CASE status = "failure" /\ ProjectOf[t] = p
    <3>1. FailedRuns(p)' = FailedRuns(p) \cup {t} /\ t \notin FailedRuns(p)
      BY <1>4, <2>1, <2>2 DEF FailedRuns, TypeOK, TableTypes
    <3>2. Cardinality(FailedRuns(p)') = Cardinality(FailedRuns(p)) + 1
      BY <1>1, <3>1, FS_AddElement
    <3>3. failures'[p] = failures[p] + 1
      BY <2>1, <2>2 DEF FailuresAfter, TypeOK, TableTypes
    <3> QED BY <1>2, <3>2, <3>3
  <2>3. CASE ~(status = "failure" /\ ProjectOf[t] = p)
    <3>1. FailedRuns(p)' = FailedRuns(p)
      BY <1>4, <2>1, <2>3 DEF FailedRuns, TypeOK, TableTypes
    <3>2. failures'[p] = failures[p] \/ failures'[p] = 0
      BY <2>1, <2>3 DEF FailuresAfter, TypeOK, TableTypes, RunStatus
    <3> QED BY <1>2, <3>1, <3>2
  <2> QED BY <2>2, <2>3
<1> QED BY <1>3, <1>4

\* Every step keeps the failure counters within the failed runs.
LEMMA FailuresStep ==
  ASSUME OwnershipInv, FailuresCountedOnce, [Next]_vars
  PROVE  FailuresCountedOnce'
<1> USE DEF OwnershipInv
<1>1. CASE UNCHANGED <<run, failures>>
  BY <1>1 DEF FailuresCountedOnce
<1>2. ASSUME NEW s \in Schedulers, AbandonObserved(s) PROVE FailuresCountedOnce'
  <2>1. obs[s].token \in Tokens
    BY <1>2 DEF AbandonObserved, ObservationsWellFormed, RowObserved
  <2> QED BY <1>1, <1>2, <2>1, RecordRunCounts, StateNames DEF AbandonObserved, AbandonWorker, tables
<1>3. ASSUME NEW t \in Tokens, AbandonOwn(t) PROVE FailuresCountedOnce'
  BY <1>1, <1>3, RecordRunCounts, StateNames DEF AbandonOwn, AbandonWorker, tables
<1>4. ASSUME NEW t \in Tokens, NEW status \in RunStatus, FinalizeWorker(t, status)
      PROVE  FailuresCountedOnce'
  BY <1>1, <1>4, RecordRunCounts DEF FinalizeWorker
<1> QED BY <1>1, <1>2, <1>3, <1>4, RowSteps DEF ReserveWorker, ClaimWorker

\* A failure seen both by a scheduler and by the worker is counted once
\* (update_project_after_run follows the insert into runs).
THEOREM FailureCount == Spec => []FailuresCountedOnce
<1>1. Init => FailuresCountedOnce
  <2> SUFFICES ASSUME Init, NEW p \in Projects
               PROVE  failures[p] <= Cardinality(FailedRuns(p))
    BY DEF FailuresCountedOnce, FailedRuns
  <2>1. failures[p] = 0 /\ Cardinality(FailedRuns(p)) \in Nat
    BY FiniteTokens, FS_Subset, FS_CardinalityType DEF FailedRuns, Init
  <2> QED BY <2>1
<1>2. OwnershipInv /\ FailuresCountedOnce /\ [Next]_vars => FailuresCountedOnce'
  BY FailuresStep
<1> QED BY <1>1, <1>2, Ownership, PTL DEF Spec

\* However many actors see the end of a worker, it leaves one run and at most
\* one counted failure (abandon_worker, finalize_worker, update_project_after_run).
THEOREM Accounting == Spec => []RunsAccounted
BY RunsRecorded, FailureCount, PTL DEF RunsAccounted

-----------------------------------------------------------------------------
(* The refinement of ProjectOwnership                                      *)

Owners   == [p \in Projects |-> Owner(p)]
Finished == {t \in Tokens : wstate[t] = "completed"}

\* The owner of a project among some workers.
OwnerIn(S, p) == IF \E t \in S : ProjectOf[t] = p
                 THEN CHOOSE t \in S : ProjectOf[t] = p ELSE None
Distinct(S) == \A t, u \in S : ProjectOf[t] = ProjectOf[u] => t = u

\* A project has its one worker as owner, and otherwise none.
LEMMA OwnerFacts ==
  ASSUME NEW S, Distinct(S)
  PROVE  /\ \A t \in S : OwnerIn(S, ProjectOf[t]) = t
         /\ \A p : (\A t \in S : ProjectOf[t] # p) => OwnerIn(S, p) = None
<1>1. ASSUME NEW t \in S PROVE OwnerIn(S, ProjectOf[t]) = t
  <2> DEFINE u == CHOOSE x \in S : ProjectOf[x] = ProjectOf[t]
  <2>1. u \in S /\ ProjectOf[u] = ProjectOf[t]
    OBVIOUS
  <2>2. u = t
    BY <2>1 DEF Distinct
  <2> QED BY <2>2 DEF OwnerIn
<1> QED BY <1>1 DEF OwnerIn

\* A worker that comes or goes is the owner of its project, and leaves the
\* owners of the other projects alone.
LEMMA OwnersMove ==
  ASSUME NEW S, NEW t \in Tokens, t \notin S, Distinct(S \cup {t})
  PROVE  /\ OwnerIn(S, ProjectOf[t]) = None
         /\ OwnerIn(S \cup {t}, ProjectOf[t]) = t
         /\ \A p \in Projects :
              p # ProjectOf[t] => OwnerIn(S \cup {t}, p) = OwnerIn(S, p)
<1>1. Distinct(S) /\ \A u \in S : ProjectOf[u] # ProjectOf[t]
  BY DEF Distinct
<1>2. ASSUME NEW p \in Projects, p # ProjectOf[t]
      PROVE  OwnerIn(S \cup {t}, p) = OwnerIn(S, p)
  <2>1. CASE \E u \in S : ProjectOf[u] = p
    <3>1. PICK u \in S : ProjectOf[u] = p
      BY <2>1
    <3> QED BY <1>1, <3>1, OwnerFacts
  <2>2. CASE \A u \in S : ProjectOf[u] # p
    <3>1. \A u \in S \cup {t} : ProjectOf[u] # p
      BY <1>2, <2>2
    <3> QED BY <1>1, <2>2, <3>1, OwnerFacts
  <2> QED BY <2>1, <2>2
<1> QED BY <1>1, <1>2, OwnerFacts

\* The owners of this state and of the next one.
LEMMA OwnersAre ==
  /\ Owners = [p \in Projects |-> OwnerIn(ActiveWorkers, p)]
  /\ Owners' = [p \in Projects |-> OwnerIn(ActiveWorkers', p)]
  /\ OneActiveWorker <=> Distinct(ActiveWorkers)
  /\ OneActiveWorker' <=> Distinct(ActiveWorkers')
BY DEF Owners, Owner, OwnerIn, Distinct, OneActiveWorker

\* A reservation takes a free project.
LEMMA TakesOwner ==
  ASSUME OneActiveWorker', NEW t \in Tokens, t \notin ActiveWorkers,
         ActiveWorkers' = ActiveWorkers \cup {t}
  PROVE  /\ Owners[ProjectOf[t]] = None
         /\ Owners' = [Owners EXCEPT ![ProjectOf[t]] = t]
BY OwnersAre, OwnersMove, ConstantTypes

\* The end of its worker frees the project.
LEMMA FreesOwner ==
  ASSUME OneActiveWorker, NEW t \in Tokens, t \in ActiveWorkers,
         ActiveWorkers' = ActiveWorkers \ {t}
  PROVE  /\ Owners[ProjectOf[t]] = t
         /\ Owners' = [Owners EXCEPT ![ProjectOf[t]] = None]
<1> DEFINE rest == ActiveWorkers \ {t}
<1>1. ActiveWorkers = rest \cup {t} /\ t \notin rest
  OBVIOUS
<1>2. Distinct(rest \cup {t})
  BY <1>1, OwnersAre
<1>3. Owners' = [p \in Projects |-> OwnerIn(rest, p)]
  BY OwnersAre
<1>4. Owners = [p \in Projects |-> OwnerIn(rest \cup {t}, p)]
  BY <1>1, OwnersAre
<1> HIDE DEF rest
<1>5. /\ OwnerIn(rest, ProjectOf[t]) = None /\ OwnerIn(rest \cup {t}, ProjectOf[t]) = t
      /\ \A p \in Projects :
           p # ProjectOf[t] => OwnerIn(rest \cup {t}, p) = OwnerIn(rest, p)
  BY <1>1, <1>2, OwnersMove
<1> QED BY <1>3, <1>4, <1>5, ConstantTypes

\* Whatever ends a worker ends its job, with its Codex gone.
LEMMA EndIsOwned ==
  ASSUME OwnershipInv, NEW t \in Tokens, Active(t), t \notin codex,
         NEW end \in {"completed", "abandoned"}, NEW status \in RunStatus,
         end = "abandoned" => status = "failure",
         wstate' = [wstate EXCEPT ![t] = end], RecordRun(t, status), codex' = codex
  PROVE  Owned!Next
<1>1. ActiveWorkers' = ActiveWorkers \ {t} /\ t \in ActiveWorkers
  BY DEF OwnershipInv, TypeOK, TableTypes, ActiveWorkers, Active, ActiveStates
<1>2. Owners[ProjectOf[t]] = t /\ Owners' = [Owners EXCEPT ![ProjectOf[t]] = None]
  BY <1>1, FreesOwner DEF OwnershipInv
<1>3. run' = [run EXCEPT ![t] = status]
  <2>1. run[t] = "none"
    BY DEF OwnershipInv, RunRecordedAtTermination, Active, Terminal, ActiveStates,
       TerminalStates
  <2> QED BY <2>1 DEF RecordRun
<1>4. Owned!End(t, status)
  BY <1>2, <1>3 DEF Owned!End, Owned!Owns, Owners
<1>5. CASE end = "completed"
  <2>1. Finished' = Finished \cup {t}
    BY <1>5 DEF OwnershipInv, TypeOK, TableTypes, Finished
  <2>2. Owned!Finish(t)
    BY <1>4, <2>1 DEF Owned!Finish, Finished
  <2> QED BY <2>2 DEF Owned!Next
<1>6. CASE end = "abandoned"
  <2>1. Finished' = Finished
    BY <1>6 DEF OwnershipInv, TypeOK, TableTypes, Finished, Active, ActiveStates
  <2>2. Owned!GiveUp(t)
    BY <1>4, <1>6, <2>1 DEF Owned!GiveUp, Finished
  <2> QED BY <2>2 DEF Owned!Next
<1> QED BY <1>5, <1>6

\* Every step of schedulers, workers and supervisors is a step of
\* ProjectOwnership or none.
LEMMA StepIsOwned ==
  ASSUME OwnershipInv, [Next]_vars
  PROVE  [Owned!Next]_(Owned!vars)
<1> DEFINE Goal == [Owned!Next]_(Owned!vars)
<1>0. OneActiveWorker' /\ TypeOK /\ ObservationsWellFormed /\ UnclaimedIsNewer
  BY OwnershipStep DEF OwnershipInv
<1> USE DEF TypeOK, TableTypes, ActiveStates
<1>1. ASSUME UNCHANGED <<wstate, run>>, codex' \subseteq codex PROVE Goal
  <2>1. Owners' = Owners /\ Finished' = Finished
    BY <1>1, OwnersAre DEF ActiveWorkers, Active, Finished
  <2>2. Owned!Pause
    BY <1>1, <2>1 DEF Owned!Pause, Owners, Finished
  <2> QED BY <2>2 DEF Owned!Next
<1>2. ASSUME NEW s \in Schedulers, NEW t \in Tokens, ReserveWorker(s, t) PROVE Goal
  <2>1. /\ wstate[t] = "absent" /\ UNCHANGED <<run, codex>>
        /\ \A u \in ActiveWorkers : ProjectOf[u] # ProjectOf[t]
    BY <1>2 DEF ReserveWorker, CanReserve, procs
  <2>2. ActiveWorkers' = ActiveWorkers \cup {t}
    BY <1>0, <1>2 DEF ReserveWorker, ActiveWorkers, Active
  <2>3. Finished' = Finished
    BY <1>0, <1>2, <2>1 DEF ReserveWorker, Finished
  <2>4. run[t] = "none"
    BY <2>1 DEF OwnershipInv, RunRecordedAtTermination, Terminal, TerminalStates
  <2>5. Owners[ProjectOf[t]] = None /\ Owners' = [Owners EXCEPT ![ProjectOf[t]] = t]
    BY <1>0, <2>1, <2>2, TakesOwner DEF ActiveWorkers, Active
  <2>6. Owned!Take(t)
    BY <2>1, <2>3, <2>4, <2>5 DEF Owned!Take, Owners, Finished
  <2> QED BY <2>6 DEF Owned!Next
<1>3. ASSUME NEW t \in Tokens, ClaimWorker(t) PROVE Goal
  <2>1. UNCHANGED run
    BY <1>3 DEF ClaimWorker
  <2>2. CASE UNCHANGED <<wstate, codex>>
    BY <1>1, <2>1, <2>2
  <2>3. CASE /\ wstate[t] = "dispatching" /\ codex' = codex \cup {t}
             /\ wstate' = [wstate EXCEPT ![t] = "running"]
    <3>1. ActiveWorkers' = ActiveWorkers /\ t \in ActiveWorkers /\ Finished' = Finished
      BY <1>0, <2>3 DEF ActiveWorkers, Active, Finished
    <3>2. Owners' = Owners /\ Owners[ProjectOf[t]] = t
      BY <3>1, OwnersAre, OwnerFacts, ConstantTypes DEF OwnershipInv
    <3>3. Owned!Start(t)
      BY <2>1, <2>3, <3>1, <3>2 DEF Owned!Start, Owned!Owns, Owners, Finished
    <3> QED BY <3>3 DEF Owned!Next
  <2> QED BY <1>0, <1>3, <2>2, <2>3, ClaimIsFirst
<1>4. ASSUME NEW s \in Schedulers, AbandonObserved(s) PROVE Goal
  <2> DEFINE o == obs[s]
  <2>1. o.token \in Tokens /\ o.state \in ActiveStates /\ UNCHANGED codex
    BY <1>0, <1>4 DEF AbandonObserved, ObservationsWellFormed, RowObserved, procs
  <2>2. \/ wstate[o.token] = o.state /\ AbandonWorker(o.token)
        \/ UNCHANGED <<wstate, run>>
    BY <1>4 DEF AbandonObserved, CanAbandon, tables
  <2>3. wstate[o.token] = o.state => o.token \notin codex
    BY <1>4, <2>1 DEF AbandonObserved, OwnershipInv, ObservationsWellFormed, RowObserved,
       DrainedStaysDown, CodexNeedsRunningRow
  <2> HIDE DEF o
  <2> QED BY <1>0, <1>1, <2>1, <2>2, <2>3, EndIsOwned
       DEF AbandonWorker, Active, RunStatus
<1>5. ASSUME NEW t \in Tokens, AbandonOwn(t) PROVE Goal
  <2>1. /\ UNCHANGED codex /\ t \notin codex
        /\ \/ wstate[t] = "running" /\ AbandonWorker(t)
           \/ UNCHANGED <<wstate, run>>
    BY <1>5 DEF AbandonOwn, CanAbandon, tables, OwnershipInv, CodexNeedsRunningRow
  <2> QED BY <1>0, <1>1, <2>1, EndIsOwned DEF AbandonWorker, Active, RunStatus
<1>6. ASSUME NEW t \in Tokens, NEW status \in RunStatus, FinalizeWorker(t, status)
      PROVE  Goal
  <2>1. /\ UNCHANGED codex /\ t \notin codex
        /\ \/ /\ Active(t) /\ RecordRun(t, status)
              /\ wstate' = [wstate EXCEPT ![t] = "completed"]
           \/ UNCHANGED <<wstate, run>>
    BY <1>6 DEF FinalizeWorker, CanFinalize, OwnershipInv, CodexNeedsRunningRow
  <2> QED BY <1>0, <1>1, <2>1, EndIsOwned
<1> QED BY <1>0, <1>1, <1>2, <1>3, <1>4, <1>5, <1>6, RowSteps, CodexSteps

\* Leases, rows and worker processes implement ProjectOwnership: projects go
\* from one worker to the next only through its end, Codex executes for the
\* owner only, and every worker ends once, whoever gets there first
\* (reserve_worker, claim_worker, abandon_worker, finalize_worker).
THEOREM LeasesAreOwnership == Spec => IsOwnership
<1>1. Init => Owned!Init
  <2> SUFFICES ASSUME Init PROVE Owned!Init
    OBVIOUS
  <2>1. ActiveWorkers = {} /\ Finished = {}
    BY DEF Init, ActiveWorkers, Active, ActiveStates, Finished
  <2>2. Owners = [p \in Projects |-> None]
    BY <2>1 DEF Owners, Owner
  <2> QED BY <2>1, <2>2 DEF Init, Owned!Init, Owners, Finished
<1>2. OwnershipInv /\ [Next]_vars => [Owned!Next]_(Owned!vars)
  BY StepIsOwned
<1> QED BY <1>1, <1>2, Ownership, PTL DEF Spec, IsOwnership, Owned!Spec

=============================================================================
