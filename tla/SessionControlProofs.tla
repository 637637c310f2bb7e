------------------------ MODULE SessionControlProofs -------------------------
(***************************************************************************)
(* Proofs about SessionControl.  The invariant has three layers: the shape *)
(* of the rows and of the processes that own them, which holds whatever    *)
(* happens; the fence around a live Codex, which rests on the shape and on *)
(* runs that do not lose their lease unnoticed; and the ownership of an    *)
(* orphan by one replacement supervisor.                                   *)
(***************************************************************************)
EXTENDS SessionControl, FiniteSetTheorems, TLAPS

Places  == {"off", "reserving", "waiting", "ready", "guarded", "cancelling",
            "releasing", "done", "dead"}
GPlaces == {"off", "starting", "adopted", "gated", "registered", "live",
            "reaped", "handback", "failed", "done", "dead"}
SharedModes  == {"shared", "stopped_shared"}
ReserveModes == {"takeover", "idle", "stopped"} \cup SharedModes
AllModes     == ReserveModes \cup {"off", "interrupt"}

Snaps == [s : Sessions, st : RowStates, ch : Runs \cup Guardians \cup {None},
          tk : Runs \cup {None}, h : Users \cup Guardians \cup {None},
          l : Guardians \cup {None}, lh : Holders \cup {None},
          active : BOOLEAN]

-----------------------------------------------------------------------------
(* Layer one: the shape of rows and processes.                             *)

\* TypeOK with the variables of the users, rescuers and schedulers.
UserTypes ==
  /\ upc \in [Users -> Places] /\ usess \in [Users -> Sessions \cup {None}]
  /\ mode \in [Users -> AllModes] /\ gpc \in [Users -> GPlaces]
  /\ disp \in [Users -> {"off", "preserve", "resume_exec", "shared"}]

ReaderTypes ==
  /\ xpc \in [Rescuers -> {"off", "attached", "supervising", "done", "dead"}]
  /\ xrun \in [Rescuers -> Runs \cup {None}]
  /\ snap \in [Schedulers -> Snaps \cup {None}]

Types == env \in Scenarios /\ TypeOK /\ UserTypes /\ ReaderTypes

\* What each state of a row says about its other columns: child, run token,
\* interactive holder and launch token.
Shape(st, ch, tk, h, l) ==
  /\ st = "none" => tk = None
  /\ st \in {"none", "resume_requested", "stopped"} =>
       ch = None /\ h = None /\ l = None
  /\ st = "running" => ch \in Runs /\ tk = ch /\ h = None /\ l = None
  /\ st = "interrupt_requested" =>
       ch \in Runs /\ tk = ch /\ h \in Users /\ l = None
  /\ st = "ready_interactive" => ch = None /\ h \in Users /\ l = None
  /\ st = "interactive" => h \in Guardians /\ l = h /\ ch \in {None, h}
  /\ st = "stop_requested" =>
       \/ ch \in Runs /\ tk = ch /\ h = None /\ l = None
       \/ h \in Guardians /\ l = h /\ ch = h

RowShape ==
  \A s \in Sessions :
    Shape(state[s], child[s], token[s], iholder[s], ilaunch[s])

\* A runner's place fixes what its supervisor and its Codex are doing.
RunShape ==
  \A r \in Runs :
    /\ rpc[r] \in {"off", "waiting", "acquired"} =>
         codex[r] = "off" /\ sup[r] = "off"
    /\ rpc[r] \in {"gated", "registered"} =>
         codex[r] = "gated" /\ sup[r] = "watching"
    /\ rpc[r] \in {"running", "stopping"} =>
         codex[r] \in {"live", "gone"} /\ sup[r] = "watching"
    /\ rpc[r] \in {"reaped", "settling", "recording", "done"} =>
         codex[r] \in {"off", "gone"} /\ sup[r] \in {"off", "gone"}
    /\ rpc[r] = "dead" => sup[r] # "watching"
    /\ sup[r] = "finalizing" => codex[r] = "gone"
    /\ rpc[r] \in {"waiting", "registered"} => sess[r] \in Sessions

\* A generation is recorded with the session of its run, which has left the
\* launch gate behind.
TokenShape ==
  \A s \in Sessions : token[s] \in Runs =>
    /\ sess[token[s]] = s
    /\ rpc[token[s]] \notin {"off", "waiting", "acquired", "gated"}

\* A worker row belongs to a launched run that has not been recorded.
WorkerShape ==
  \A r \in Runs \ Inline :
    /\ r \in workers => rpc[r] \notin {"off", "waiting", "acquired", "done"}
    /\ rpc[r] \in Active \ {"acquired"} => r \in workers

\* A user's place, the guardian's and that of the guardian's Codex.
UserShape ==
  \A u \in Users :
    /\ upc[u] \in {"off", "reserving", "waiting", "ready"} => gpc[u] = "off"
    /\ upc[u] \notin {"off", "done"} \/ gpc[u] # "off" =>
         usess[u] \in Sessions /\ mode[u] # "off"
    /\ upc[u] = "off" => disp[u] = "off" /\ mode[u] = "off"
    /\ upc[u] = "reserving" => mode[u] \in ReserveModes
    /\ disp[u] = "shared" => mode[u] \in SharedModes
    /\ mode[u] \in SharedModes => "shared" \in Modes

GuardianShape ==
  \A u \in Users :
    /\ gpc[u] \in {"off", "starting", "adopted"} => gchild[u] = "off"
    /\ gpc[u] \in {"gated", "registered"} => gchild[u] = "gated"
    /\ gpc[u] = "live" => gchild[u] = "live"
    /\ gpc[u] \in {"reaped", "handback", "done"} => gchild[u] = "gone"
    /\ gpc[u] = "failed" => gchild[u] \in {"off", "gone"}
    /\ gpc[u] = "dead" => gchild[u] # "gated"

\* A row reserved by a user: the attempt is still under way.
Reserved ==
  \A s \in Sessions, u \in Users : iholder[s] = u =>
    /\ usess[u] = s
    /\ upc[u] \in {"waiting", "ready", "guarded", "cancelling", "dead"}
    /\ gpc[u] \in {"off", "starting", "failed", "dead"}
    /\ state[s] = "interrupt_requested" => mode[u] = "interrupt"

\* A row owned by a guardian: it has adopted it and not finished with it.
Guarded ==
  \A s \in Sessions, u \in Users : iholder[s] = Guardian[u] =>
    /\ usess[u] = s
    /\ gpc[u] \in {"adopted", "gated", "registered", "live", "reaped", "dead"}

\* The lease of a user's attempt ends before the attempt does.
LeaseOfUser == \A u \in Users : upc[u] = "done" => lease # u

\* A scheduler that read an automated row read a run's generation.
SnapShape ==
  \A c \in Schedulers : snap[c] # None =>
    (snap[c].st \in Automated /\ snap[c].l = None =>
       snap[c].ch \in Runs /\ snap[c].tk = snap[c].ch)

\* What keeps a stopped session from being queued.
Excused(s) == \E u \in Users : usess[u] = s /\ mode[u] = "stopped_shared"
ParkedShape ==
  \A s \in parked : ~Excused(s) =>
    /\ token[s] # None
    /\ state[s] \in {"stopped", "ready_interactive", "interactive",
                     "stop_requested"}
    /\ \A u \in Users :
         /\ state[s] = "ready_interactive" /\ iholder[s] = u =>
              mode[u] = "stopped" /\ disp[u] # "resume_exec"
         /\ state[s] = "interactive" /\ iholder[s] = Guardian[u] =>
              disp[u] # "resume_exec"

ShapeInv ==
  /\ Types /\ RowShape /\ RunShape /\ TokenShape /\ WorkerShape
  /\ UserShape /\ GuardianShape /\ Reserved /\ Guarded /\ LeaseOfUser
  /\ SnapShape /\ ParkedShape

-----------------------------------------------------------------------------
(* Layer two: the fence.                                                   *)

Launched == {"registered", "running", "stopping", "reaped", "settling"}
Holding  == {"acquired", "gated"} \cup Launched

\* A run that never stalls owns the project until it has settled its row.
SteadyLease ==
  \A r \in Runs \ MayStall :
    /\ rpc[r] \in Holding \/ (rpc[r] = "recording" /\ RowOf(r) # {}) =>
         lease = r /\ ~expired
    /\ lease = r /\ expired => rpc[r] \in {"done", "dead"}

\* Nobody changes its row in the meantime.
SteadyRow ==
  \A r \in Runs \ MayStall, s \in Sessions :
    rpc[r] \in Launched /\ token[s] = r => child[s] = r

\* A scheduler that saw the lease inactive saw the end of the run.
SteadySnap ==
  \A c \in Schedulers : snap[c] # None =>
    (~snap[c].active =>
       /\ snap[c].ch \in Runs \ MayStall =>
            rpc[snap[c].ch] \in {"recording", "done", "dead"}
       /\ snap[c].lh \in Runs \ MayStall =>
            rpc[snap[c].lh] \in {"done", "dead"})

\* A guardian that took the lease took it for good: the generation whose row
\* it adopted never owns the project again.
LeaseLost ==
  \A s \in Sessions, u \in Users :
    iholder[s] = Guardian[u] /\ disp[u] # "shared" /\ token[s] # None =>
      lease # token[s]

\* A released Codex of a run, or one whose gate is about to open.
RunFence ==
  \A r \in Runs : sess[r] # None /\ (codex[r] = "live" \/ rpc[r] = "registered")
    => state[sess[r]] \in Automated /\ child[sess[r]] = r

GuardianFence ==
  \A u \in Users : gchild[u] = "live" \/ gpc[u] = "registered" =>
    /\ state[usess[u]] \in {"interactive", "stop_requested"}
    /\ child[usess[u]] = Guardian[u]

SteadyInv == SteadyLease /\ SteadyRow /\ SteadySnap /\ LeaseLost /\ RunFence

FenceInv == SteadyInv /\ GuardianFence

-----------------------------------------------------------------------------
(* Layer three: replacement supervisors.                                   *)

RescuerLease == \A x \in Rescuers : lease = x => xpc[x] \in {"supervising", "dead"}

\* While there is a row to supervise, the supervisor owns the project.
RescuerHolds ==
  \A x \in Rescuers \ MayStall :
    xpc[x] = "supervising" /\ RowOf(xrun[x]) # {} => lease = x /\ ~expired

\* No other run has a row while a replacement supervisor owns the project.
RescuerAlone ==
  \A x \in Rescuers, s \in Sessions :
    lease = x /\ child[s] \in Runs => child[s] = xrun[x]

\* It supervises what no runner looks after, and nobody else does.
RescuerSingle ==
  \A x \in Rescuers : xpc[x] = "supervising" =>
    /\ xrun[x] \in Runs /\ rpc[xrun[x]] \in {"dead", "done"}
    /\ \A y \in Rescuers : xpc[y] = "supervising" /\ xrun[y] = xrun[x] => y = x

\* Who does not take part never attaches.
RescuerCast == \A x \in Rescuers : x \notin Cast => xpc[x] = "dead"

RescueInv ==
  /\ RescuerLease /\ RescuerHolds /\ RescuerAlone /\ RescuerSingle
  /\ RescuerCast

-----------------------------------------------------------------------------
(* Ten ways to write a row.                                                *)

Resting == {"none", "resume_requested", "stopped"}

\* register_known_session_with_child and mark_session_running.
Starts(r, s) ==
  /\ state[s] \in Resting /\ (state[s] = "stopped" => token[s] = None)
  /\ SetRow(s, "running", r, r, None, None)
  /\ sess'[r] = s
  /\ RegisterKnown(r) \/ Announce(r, s)

\* request_session_stop and request_interactive_session_stop.
Asks(s) ==
  /\ state[s] \in {"running", "interactive"} /\ child[s] # None
  /\ SetRow(s, "stop_requested", child[s], token[s], iholder[s], ilaunch[s])
  /\ UNCHANGED <<own, workers, runs, users, resc, snap, parked>>

\* The generation of a row is over: its row is queued, stopped, removed or
\* handed to the user who asked for it.
Exits(s) ==
  /\ token[s] \in Runs
  /\ \/ /\ state[s] \in {"running", "stop_requested"}
        /\ Rest(s, AfterExit(state[s]))
        /\ parked' = IF state[s] = "stop_requested" THEN parked \cup {s}
                     ELSE parked
     \/ state[s] = "running" /\ DeleteRow(s) /\ UNCHANGED parked
     \/ /\ state[s] = "interrupt_requested"
        /\ SetRow(s, "ready_interactive", None, token[s], iholder[s], None)
        /\ lease' = iholder[s] /\ UNCHANGED parked
  /\ UNCHANGED <<workers, sess, codex, users>>

\* finish_interactive_guardian_after_reap and its recovery.
Finishes(u, s) ==
  /\ state[s] \in {"interactive", "stop_requested"}
  /\ iholder[s] = Guardian[u]
  /\ child[s] = None \/ GroupAbsent(child[s])
  /\ EndInteractive(u, s)
  /\ \/ UNCHANGED gpc
     \/ gpc[u] = "reaped" /\ \E g \in {"handback", "done"} : GAt(u, g)
  /\ UNCHANGED <<workers, runs, upc, usess, mode, gchild, disp, resc>>

\* A reservation is withdrawn, by its user or by a recovery.
Withdraws(u, s) ==
  /\ iholder[s] = u
  /\ \/ /\ state[s] = "interrupt_requested" /\ upc[u] = "cancelling"
        /\ SetRow(s, "running", child[s], token[s], None, None)
     \/ /\ state[s] = "ready_interactive"
        /\ \/ mode[u] # "stopped" /\ Rest(s, "resume_requested")
           \/ Rest(s, "stopped")
           \/ mode[u] # "stopped" /\ DeleteRow(s)
  /\ \/ UNCHANGED upc
     \/ upc[u] = "cancelling" /\ UAt(u, "releasing")
  /\ UNCHANGED <<own, workers, runs, usess, mode, gpc, gchild, disp, resc,
                 parked>>

Adopts(u, s) ==
  /\ s = usess[u] /\ gpc[u] = "starting" /\ CanAdopt(u) /\ Adopt(u)

RegistersChild(u, s) ==
  /\ s = usess[u] /\ gpc[u] = "gated" /\ CanRegisterChild(u) /\ RegisterChild(u)

\* A row that nobody owns is queued, retired or planned.
Rests(s) ==
  /\ state[s] \in Resting
  /\ \E st \in Resting, tk \in {None, token[s]} :
       /\ st = "none" => tk = None
       /\ SetRow(s, st, None, tk, None, None)
  /\ parked' \subseteq parked
  /\ s \in parked' => state[s] # "stopped"
  /\ UNCHANGED <<own, workers, runs, users, resc, snap>>

RowWrite(s) ==
  \/ \E r \in Runs : Starts(r, s)
  \/ Asks(s) \/ Exits(s) \/ Rests(s)
  \/ \E u \in Users : \/ RequestInterrupt(u, s)
                      \/ s = usess[u] /\ Reserve(u)
                      \/ Withdraws(u, s) \/ Adopts(u, s)
                      \/ RegistersChild(u, s) \/ Finishes(u, s)

\* Facts about constants that the provers keep needing.
LEMMA Names ==
  /\ None \notin Sessions \cup Runs \cup Users \cup Guardians \cup Rescuers
  /\ \A u \in Users : Guardian[u] \in Guardians /\ Guardian[u] # None
                      /\ Guardian[u] \notin Runs \cup Users \cup Rescuers
  /\ \A r \in Runs : r \notin Users \cup Guardians \cup Rescuers
  /\ \A u \in Users : u \notin Guardians \cup Rescuers
BY SessionConstants, HolderNames DEF Holders, Guardians

LEMMA ExitStates ==
  /\ AfterExit("running") = "resume_requested"
  /\ AfterExit("stop_requested") = "stopped"
  /\ AfterExit("interrupt_requested") = "ready_interactive"
BY DEF AfterExit

\* finalize_automated_session_after_exit ends the generation of a run's row.
LEMMA FinalizeExits ==
  ASSUME TypeOK, RowShape, NEW s \in Sessions, child[s] \in Runs, NEW h,
         FinalizeAfterExit(s, h), UNCHANGED <<workers, sess, codex, users>>
  PROVE  Exits(s)
<1>1. token[s] \in Runs /\ ilaunch[s] = None
  BY Names DEF RowShape, Shape, FinalizeAfterExit, Automated
<1>2. CASE state[s] = "interrupt_requested"
  BY <1>1, <1>2, ExitStates DEF FinalizeAfterExit, Exits, WriteLease, own
<1>3. CASE state[s] \in {"running", "stop_requested"}
  <2>1. /\ AfterExit(state[s]) # "ready_interactive"
        /\ AfterExit(state[s]) = "stopped" <=> state[s] = "stop_requested"
    BY <1>3, ExitStates
  <2> QED BY <1>1, <1>3, <2>1 DEF FinalizeAfterExit, Exits, Rest
<1> QED BY <1>2, <1>3 DEF FinalizeAfterExit, Automated

\* The rows of a step of a run.
LEMMA RunWrites ==
  ASSUME ShapeInv, NEW r \in Runs, RunStep(r)
  PROVE  UNCHANGED <<rows, parked>> \/ \E s \in Sessions : RowWrite(s)
<1>0. TypeOK /\ RowShape /\ RunShape /\ UserTypes
  BY DEF ShapeInv, Types
<1>1. CASE RegisterKnown(r)
  <2>1. sess[r] \in Sessions /\ state[sess[r]] \in Resting
        /\ (state[sess[r]] = "stopped" => token[sess[r]] = None)
    BY <1>0, <1>1 DEF RegisterKnown, CanRegister, TodoSession, TypeOK, Resting
  <2> QED BY <1>1, <2>1 DEF RegisterKnown, RowWrite, Starts
<1>2. ASSUME NEW s \in Sessions, Announce(r, s)
      PROVE  UNCHANGED <<rows, parked>> \/ \E q \in Sessions : RowWrite(q)
  <2>1. CASE r \in Inline \/ (r \in workers /\ lease = r)
    <3>1. SetRow(s, "running", r, r, None, None) /\ state[s] = "none"
          /\ sess'[r] = s
      BY <1>0, <1>2, <2>1 DEF Announce, Fresh, TypeOK
    <3>2. Starts(r, s)
      BY <1>2, <3>1 DEF Starts, Resting
    <3> QED BY <3>2 DEF RowWrite
  <2>2. CASE ~(r \in Inline \/ (r \in workers /\ lease = r))
    BY <1>2, <2>2 DEF Announce
  <2> QED BY <2>1, <2>2
<1>3. ASSUME NEW retry \in BOOLEAN, Resolve(r, retry)
      PROVE  UNCHANGED <<rows, parked>> \/ \E q \in Sessions : RowWrite(q)
  <2>1. CASE UNCHANGED rows
    BY <1>3, <2>1 DEF Resolve
  <2>2. CASE ~UNCHANGED rows
    <3>1. /\ sess[r] # None /\ token[sess[r]] = r /\ state[sess[r]] = "running"
          /\ DeleteRow(sess[r])
      BY <1>3, <2>2 DEF Resolve
    <3>2. sess[r] \in Sessions /\ Exits(sess[r])
      BY <1>0, <1>3, <3>1 DEF Exits, Resolve, TypeOK, users
    <3> QED BY <3>2 DEF RowWrite
  <2> QED BY <2>1, <2>2
<1>4. CASE Settle(r)
  <2>1. CASE /\ seen[r] = "stop" /\ sess[r] # None /\ token[sess[r]] = r
             /\ state[sess[r]] = "stop_requested" /\ MayFinalize(r)
    <3>1. sess[r] \in Sessions /\ Exits(sess[r])
      BY <1>0, <1>4, <2>1 DEF Settle, Exits, TypeOK, AfterExit, users
    <3> QED BY <3>1 DEF RowWrite
  <2>2. CASE /\ seen[r] = "interrupt" /\ sess[r] # None /\ token[sess[r]] = r
             /\ state[sess[r]] = "interrupt_requested" /\ lease = r
    <3>1. sess[r] \in Sessions /\ Exits(sess[r])
      BY <1>0, <1>4, <2>2 DEF Settle, Exits, TypeOK, WriteLease, users
    <3> QED BY <3>1 DEF RowWrite
  <2>3. CASE UNCHANGED rows /\ UNCHANGED parked
    BY <2>3
  <2> QED BY <1>4, <2>1, <2>2, <2>3 DEF Settle
<1>5. CASE SupervisorFinalizes(r)
  <2>1. PICK s \in RowOf(r) : FinalizeAfterExit(s, r)
    BY <1>5 DEF SupervisorFinalizes
  <2>2. s \in Sessions /\ child[s] \in Runs
    BY <2>1 DEF RowOf
  <2>3. Exits(s)
    BY <1>0, <1>5, <2>1, <2>2, FinalizeExits DEF SupervisorFinalizes
  <2> QED BY <2>2, <2>3 DEF RowWrite
<1>6. CASE ResumeWorkerRecovers(r)
  <2>1. sess[r] \in Sessions /\ state[sess[r]] = "running"
    BY <1>0, <1>6 DEF ResumeWorkerRecovers, RunShape
  <2>2. token[sess[r]] \in Runs
    BY <1>0, <2>1 DEF RowShape, Shape
  <2>3. Exits(sess[r])
    BY <1>6, <2>1, <2>2 DEF ResumeWorkerRecovers, RecoverAutomated, Exits,
       runs, users
  <2> QED BY <2>1, <2>3 DEF RowWrite
<1> QED
  BY <1>1, <1>2, <1>3, <1>4, <1>5, <1>6
  DEF RunStep, AcquireJob, Launch, Withdraw, RegistrationRefused, ReleaseGate,
      PollControl, RenewRun, Reaped, RecordRun, RunnerDies, SupervisorReaps,
      SupervisorDies, CodexExits, SupervisorAbandons, DrainWorker,
      ResumeWorkerAcquires, ResumeWorkerReleases, ResumeWorkerLeaves

LEMMA UserWrites ==
  ASSUME ShapeInv, NEW u \in Users, UserStep(u)
  PROVE  UNCHANGED <<rows, parked>> \/ \E s \in Sessions : RowWrite(s)
<1>0. TypeOK /\ RowShape /\ UserShape /\ UserTypes /\ Reserved
  BY DEF ShapeInv, Types
<1>1. ASSUME NEW s \in Sessions, RequestInterrupt(u, s)
      PROVE  \E q \in Sessions : RowWrite(q)
  BY <1>1 DEF RowWrite
<1>2. CASE Reserve(u)
  BY <1>0, <1>2 DEF RowWrite, Reserve, UserShape
<1>3. CASE Cancel(u)
  <2>1. usess[u] \in Sessions
    BY <1>0, <1>3 DEF Cancel, UserShape
  <2>2. CASE UNCHANGED rows
    BY <1>3, <2>2 DEF Cancel
  <2>3. CASE ~UNCHANGED rows
    <3>1. /\ iholder[usess[u]] = u
          /\ \/ /\ state[usess[u]] = "interrupt_requested"
                /\ SetRow(usess[u], "running", child[usess[u]],
                          token[usess[u]], None, None)
             \/ /\ state[usess[u]] = "ready_interactive"
                /\ \/ mode[u] # "stopped" /\ Rest(usess[u], "resume_requested")
                   \/ Rest(usess[u], "stopped")
                   \/ mode[u] # "stopped" /\ DeleteRow(usess[u])
      BY <1>3, <2>3 DEF Cancel, CancelRow
    <3>2. Withdraws(u, usess[u])
      BY <1>3, <3>1 DEF Withdraws, Cancel, resc
    <3> QED BY <2>1, <3>2 DEF RowWrite
  <2> QED BY <2>2, <2>3
<1> QED
  BY <1>1, <1>2, <1>3
  DEF UserStep, TakeStopped, OpenIdle, OpenShared, ReserveRefused, HandedOver,
      GiveUp, ReleaseOwn, StartGuardian, RevalidationFails, GuardianExited,
      UserDies

LEMMA GuardianWrites ==
  ASSUME ShapeInv, NEW u \in Users, GuardianStep(u)
  PROVE  UNCHANGED <<rows, parked>> \/ \E s \in Sessions : RowWrite(s)
<1>0. TypeOK /\ RowShape /\ UserShape /\ GuardianShape /\ UserTypes
  BY DEF ShapeInv, Types
<1>1. CASE Adopt(u)
  <2>1. usess[u] \in Sessions
    BY <1>0, <1>1 DEF Adopt, UserShape
  <2>2. CASE CanAdopt(u)
    BY <1>1, <2>1, <2>2 DEF RowWrite, Adopts, Adopt
  <2>3. CASE ~CanAdopt(u)
    BY <1>1, <2>3 DEF Adopt
  <2> QED BY <2>2, <2>3
<1>2. CASE RegisterChild(u)
  <2>1. usess[u] \in Sessions
    BY <1>0, <1>2 DEF RegisterChild, UserShape
  <2>2. CASE CanRegisterChild(u)
    BY <1>2, <2>1, <2>2 DEF RowWrite, RegistersChild, RegisterChild
  <2>3. CASE ~CanRegisterChild(u)
    BY <1>2, <2>3 DEF RegisterChild
  <2> QED BY <2>2, <2>3
<1>3. CASE Finish(u)
  <2>1. usess[u] \in Sessions /\ gchild[u] = "gone"
    BY <1>0, <1>3 DEF Finish, UserShape, GuardianShape
  <2>2. CASE OwnedBy(u, usess[u])
    <3>1. child[usess[u]] \in {None, Guardian[u]}
      BY <1>0, <2>1, <2>2, Names DEF OwnedBy, RowShape, Shape
    <3>2. child[usess[u]] = None \/ GroupAbsent(child[usess[u]])
      BY <2>1, <3>1 DEF GroupAbsent
    <3>3. /\ gpc[u] = "reaped"
          /\ \E g \in {"handback", "done"} : GAt(u, g)
          /\ EndInteractive(u, usess[u])
          /\ UNCHANGED <<workers, runs, upc, usess, mode, gchild, disp, resc>>
      BY <1>3, <2>2 DEF Finish
    <3>4. Finishes(u, usess[u])
      BY <2>2, <3>2, <3>3 DEF Finishes, OwnedBy
    <3> QED BY <2>1, <3>4 DEF RowWrite
  <2>3. CASE ~OwnedBy(u, usess[u])
    BY <1>3, <2>3 DEF Finish
  <2> QED BY <2>2, <2>3
<1> QED
  BY <1>1, <1>2, <1>3
  DEF GuardianStep, SpawnGated, OpenInteractive, RenewGuardian, ReapInteractive,
      HandBack, GuardianDies, OrphanInteractiveExits

LEMMA SchedulerWrites ==
  ASSUME ShapeInv, NEW c \in Schedulers, SchedulerStep(c)
  PROVE  UNCHANGED <<rows, parked>> \/ \E s \in Sessions : RowWrite(s)
<1>0. TypeOK /\ RowShape /\ UserTypes /\ SnapShape /\ ReaderTypes
  BY DEF ShapeInv, Types
<1>1. CASE RecoverRow(c)
  <2>0. PICK n \in Snaps : n = snap[c]
    BY <1>0, <1>1 DEF RecoverRow, ReaderTypes
  <2>1. /\ n.s \in Sessions /\ UNCHANGED <<workers, runs, users, resc>>
        /\ n.st \in Automated /\ n.l = None => n.ch \in Runs /\ n.tk = n.ch
    BY <1>0, <1>1, <2>0 DEF RecoverRow, Snaps, SnapShape
  <2>2. ASSUME NEW u \in Users, NEW old \in BOOLEAN, RecoverIdle(n, u, old)
        PROVE  Withdraws(u, n.s)
    BY <2>1, <2>2 DEF RecoverIdle, Withdraws, users, own
  <2>3. ASSUME NEW u \in Users, NEW old \in BOOLEAN, RecoverHandoff(n, u, old)
        PROVE  Withdraws(u, n.s)
    BY <2>1, <2>3 DEF RecoverHandoff, Withdraws, users, own
  <2>4. ASSUME NEW u \in Users, NEW old \in BOOLEAN, RecoverGuardian(n, u, old)
        PROVE  Finishes(u, n.s)
    BY <2>1, <2>4 DEF RecoverGuardian, SameGuardian, Finishes, users
  <2>5. ASSUME RecoverRun(n) PROVE Exits(n.s)
    <3>1. n.ch \in Runs /\ child[n.s] = n.ch
      BY <2>1, <2>5 DEF RecoverRun, SameRun
    <3>2. CASE n.st = "interrupt_requested"
      BY <1>0, <2>1, <2>5, <3>1, <3>2, FinalizeExits DEF RecoverRun, runs
    <3>3. CASE n.st # "interrupt_requested"
      <4>1. /\ state[n.s] \in {"running", "stop_requested"}
            /\ token[n.s] = n.tk /\ n.tk = n.ch
            /\ RecoverAutomated(n.s)
        BY <2>1, <2>5, <3>3 DEF RecoverRun, SameRun, Automated
      <4> QED BY <2>1, <3>1, <4>1 DEF RecoverAutomated, Exits, runs
    <3> QED BY <3>2, <3>3
  <2>6. \/ \E u \in Users, old \in BOOLEAN :
             \/ RecoverIdle(n, u, old) \/ RecoverGuardian(n, u, old)
             \/ RecoverHandoff(n, u, old)
        \/ RecoverRun(n)
    BY <1>1, <2>0 DEF RecoverRow
  <2> QED BY <2>1, <2>2, <2>3, <2>4, <2>5, <2>6 DEF RowWrite
<1> QED BY <1>1 DEF SchedulerStep, ReadRow, LeaveRow

LEMMA RescuerWrites ==
  ASSUME ShapeInv, NEW x \in Rescuers, RescuerStep(x)
  PROVE  UNCHANGED <<rows, parked>> \/ \E s \in Sessions : RowWrite(s)
<1>0. TypeOK /\ RowShape /\ UserTypes /\ ReaderTypes
  BY DEF ShapeInv, Types
<1>1. CASE RescuerFinalizes(x)
  <2>1. PICK s \in RowOf(xrun[x]) : FinalizeAfterExit(s, x)
    BY <1>1 DEF RescuerFinalizes
  <2>2. /\ s \in Sessions /\ child[s] = xrun[x] /\ token[s] = child[s]
        /\ state[s] \in Automated
    BY <2>1 DEF RowOf, FinalizeAfterExit
  <2>3. child[s] \in Runs
    BY <1>0, <2>2, Names DEF RowShape, Shape, Automated, TypeOK
  <2>4. Exits(s)
    BY <1>0, <1>1, <2>1, <2>2, <2>3, FinalizeExits DEF RescuerFinalizes, runs
  <2> QED BY <2>2, <2>4 DEF RowWrite
<1> QED BY <1>1 DEF RescuerStep, Attach, Claim, RescuerRenews, RescuerStops,
       RescuerLeaves, RescuerDies

LEMMA SessionWrites ==
  ASSUME ShapeInv, NEW s \in Sessions, SessionStep(s)
  PROVE  RowWrite(s)
<1>0. TypeOK /\ RowShape
  BY DEF ShapeInv, Types
<1>1. CASE RequestStop(s)
  BY <1>1 DEF RequestStop, RowWrite, Asks
<1>2. CASE RequestInteractiveStop(s)
  BY <1>2 DEF RequestInteractiveStop, RowWrite, Asks
<1>3. CASE \/ RequestResume(s) \/ RegisterPlanning(s) \/ RetireCompleted(s)
           \/ ClearOrphanedRequest(s)
  <2>1. Rests(s)
    BY <1>0, <1>3 DEF RequestResume, RegisterPlanning, RetireCompleted,
       ClearOrphanedRequest, Rests, Resting, Rest, DeleteRow, Fresh
  <2> QED BY <2>1 DEF RowWrite
<1> QED BY <1>1, <1>2, <1>3 DEF SessionStep

\* Every step writes one row in one of the ten ways, or none.
LEMMA RowWrites ==
  ASSUME ShapeInv, [Next]_vars
  PROVE  UNCHANGED <<rows, parked>> \/ \E s \in Sessions : RowWrite(s)
<1>1. CASE LeaseExpires \/ ReclaimLease
  BY <1>1 DEF LeaseExpires, ReclaimLease
<1>2. CASE UNCHANGED vars
  BY <1>2 DEF vars
<1> QED BY <1>1, <1>2, RunWrites, UserWrites, GuardianWrites, SchedulerWrites,
       RescuerWrites, SessionWrites DEF Next

-----------------------------------------------------------------------------
(* Layer one is inductive.                                                 *)

RowTypes ==
  /\ state \in [Sessions -> RowStates]
  /\ child \in [Sessions -> Runs \cup Guardians \cup {None}]
  /\ token \in [Sessions -> Runs \cup {None}]
  /\ iholder \in [Sessions -> Users \cup Guardians \cup {None}]
  /\ ilaunch \in [Sessions -> Guardians \cup {None}]
  /\ parked \subseteq Sessions

\* The values of a row that has its shape.
Fits(st, ch, tk, h, l) ==
  /\ st \in RowStates /\ ch \in Runs \cup Guardians \cup {None}
  /\ tk \in Runs \cup {None} /\ h \in Users \cup Guardians \cup {None}
  /\ l \in Guardians \cup {None}
  /\ Shape(st, ch, tk, h, l)

\* Every way to write a row leaves one of the right shape.
LEMMA WriteFits ==
  ASSUME ShapeInv, NEW s \in Sessions, RowWrite(s)
  PROVE  \E st, ch, tk, h, l : Fits(st, ch, tk, h, l)
                               /\ SetRow(s, st, ch, tk, h, l)
<1> DEFINE Goal == \E st, ch, tk, h, l : Fits(st, ch, tk, h, l)
                                         /\ SetRow(s, st, ch, tk, h, l)
<1>0. Fits(state[s], child[s], token[s], iholder[s], ilaunch[s])
  BY DEF ShapeInv, Types, TypeOK, RowShape, Fits
<1>1. ASSUME NEW r \in Runs, Starts(r, s) PROVE Goal
  <2>1. Fits("running", r, r, None, None)
    BY DEF Fits, Shape, RowStates
  <2> QED BY <1>1, <2>1 DEF Starts
<1>2. CASE Asks(s)
  <2>1. Fits("stop_requested", child[s], token[s], iholder[s], ilaunch[s])
    BY <1>0, <1>2 DEF Asks, Fits, Shape, RowStates
  <2> QED BY <1>2, <2>1 DEF Asks
<1>3. CASE Exits(s)
  <2>1. /\ Fits("resume_requested", None, token[s], None, None)
        /\ Fits("stopped", None, token[s], None, None)
        /\ Fits("none", None, None, None, None)
        /\ state[s] = "interrupt_requested" =>
             Fits("ready_interactive", None, token[s], iholder[s], None)
    BY <1>0 DEF Fits, Shape, RowStates
  <2>2. \/ SetRow(s, "resume_requested", None, token[s], None, None)
        \/ SetRow(s, "stopped", None, token[s], None, None)
        \/ SetRow(s, "none", None, None, None, None)
        \/ /\ state[s] = "interrupt_requested"
           /\ SetRow(s, "ready_interactive", None, token[s], iholder[s], None)
    BY <1>3, ExitStates DEF Exits, Rest, DeleteRow
  <2> QED BY <2>1, <2>2
<1>4. CASE Rests(s)
  <2>1. PICK st \in Resting, tk \in {None, token[s]} :
          /\ st = "none" => tk = None
          /\ SetRow(s, st, None, tk, None, None)
    BY <1>4 DEF Rests
  <2>2. Fits(st, None, tk, None, None)
    BY <1>0, <2>1 DEF Fits, Shape, RowStates, Resting
  <2> QED BY <2>1, <2>2
<1>5. ASSUME NEW u \in Users, RequestInterrupt(u, s) PROVE Goal
  <2>1. Fits("interrupt_requested", child[s], token[s], u, ilaunch[s])
    BY <1>0, <1>5 DEF RequestInterrupt, Fits, Shape, RowStates
  <2> QED BY <1>5, <2>1 DEF RequestInterrupt
<1>6. ASSUME NEW u \in Users, s = usess[u], Reserve(u) PROVE Goal
  <2>1. Fits("ready_interactive", None, token[s], u, None)
    BY <1>0 DEF Fits, Shape, RowStates
  <2> QED BY <1>6, <2>1 DEF Reserve
<1>7. ASSUME NEW u \in Users, Withdraws(u, s) PROVE Goal
  <2>1. /\ Fits("resume_requested", None, token[s], None, None)
        /\ Fits("stopped", None, token[s], None, None)
        /\ Fits("none", None, None, None, None)
        /\ state[s] = "interrupt_requested" =>
             Fits("running", child[s], token[s], None, None)
    BY <1>0 DEF Fits, Shape, RowStates
  <2> QED BY <1>7, <2>1 DEF Withdraws, Rest, DeleteRow
<1>8. ASSUME NEW u \in Users, Adopts(u, s) PROVE Goal
  <2>1. Fits("interactive", None, token[s], Guardian[u], Guardian[u])
    BY <1>0, Names DEF Fits, Shape, RowStates
  <2> QED BY <1>8, <2>1 DEF Adopts, Adopt
<1>9. ASSUME NEW u \in Users, RegistersChild(u, s) PROVE Goal
  <2>1. Fits("interactive", Guardian[u], token[s], Guardian[u], Guardian[u])
    BY <1>0, Names DEF Fits, Shape, RowStates
  <2>2. SetRow(s, "interactive", Guardian[u], token[s], Guardian[u], Guardian[u])
    BY <1>9 DEF RegistersChild, RegisterChild, CanRegisterChild
  <2> QED BY <2>1, <2>2
<1>10. ASSUME NEW u \in Users, Finishes(u, s) PROVE Goal
  <2>1. /\ Fits("resume_requested", None, token[s], None, None)
        /\ Fits("stopped", None, token[s], None, None)
    BY <1>0 DEF Fits, Shape, RowStates
  <2> QED BY <1>10, <2>1 DEF Finishes, EndInteractive, AfterInteractive, Rest
<1> QED BY <1>1, <1>2, <1>3, <1>4, <1>5, <1>6, <1>7, <1>8, <1>9, <1>10
       DEF RowWrite

LEMMA ParkedWrites ==
  ASSUME ShapeInv, NEW s \in Sessions, RowWrite(s)
  PROVE  parked' \subseteq parked \cup {s}
BY DEF RowWrite, Starts, RegisterKnown, Announce, Asks, Exits, Rests,
   RequestInterrupt, Reserve, Withdraws, Adopts, Adopt, RegistersChild,
   RegisterChild, Finishes, EndInteractive

LEMMA RowStep ==
  ASSUME ShapeInv, [Next]_vars
  PROVE  RowTypes' /\ RowShape'
<1>0. RowTypes /\ RowShape
  BY DEF ShapeInv, Types, TypeOK, RowTypes
<1>1. CASE UNCHANGED <<rows, parked>>
  BY <1>0, <1>1 DEF rows, RowTypes, RowShape
<1>2. ASSUME NEW s \in Sessions, RowWrite(s) PROVE RowTypes' /\ RowShape'
  <2>1. PICK st, ch, tk, h, l : Fits(st, ch, tk, h, l)
                                /\ SetRow(s, st, ch, tk, h, l)
    BY <1>2, WriteFits
  <2>2. /\ state' = [state EXCEPT ![s] = st] /\ child' = [child EXCEPT ![s] = ch]
        /\ token' = [token EXCEPT ![s] = tk]
        /\ iholder' = [iholder EXCEPT ![s] = h]
        /\ ilaunch' = [ilaunch EXCEPT ![s] = l]
    BY <2>1 DEF SetRow
  <2>3. RowTypes'
    BY <1>0, <1>2, <2>1, <2>2, ParkedWrites DEF RowTypes, Fits
  <2>4. Shape(st, ch, tk, h, l)
    BY <2>1 DEF Fits
  <2>5. ASSUME NEW q \in Sessions
        PROVE  Shape(state'[q], child'[q], token'[q], iholder'[q], ilaunch'[q])
    <3>1. CASE q = s
      BY <1>0, <2>2, <2>4, <3>1 DEF RowTypes
    <3>2. CASE q # s
      <4>1. /\ state'[q] = state[q] /\ child'[q] = child[q]
            /\ token'[q] = token[q] /\ iholder'[q] = iholder[q]
            /\ ilaunch'[q] = ilaunch[q]
        BY <1>0, <2>2, <3>2 DEF RowTypes
      <4> QED BY <1>0, <4>1 DEF RowShape
    <3> QED BY <3>1, <3>2
  <2> QED BY <2>3, <2>5 DEF RowShape
<1> QED BY <1>1, <1>2, RowWrites

RunTypes ==
  /\ rpc \in [Runs -> Active \cup {"off", "waiting", "done", "dead"}]
  /\ sess \in [Runs -> Sessions \cup {None}]
  /\ seen \in [Runs -> {"none", "stop", "interrupt"}]
  /\ todo \in [Runs -> BOOLEAN]
  /\ sup \in [Runs -> {"off", "watching", "orphaned", "finalizing", "gone"}]
  /\ codex \in [Runs -> {"off", "gated", "live", "gone"}]
  /\ workers \subseteq Runs \ Inline

LEMMA ActionValues ==
  ASSUME NEW r, NEW s
  PROVE  ActionFor(r, s) \in {"none", "stop", "interrupt"}
BY DEF ActionFor

\* A run's own steps.
LEMMA RunStepShape ==
  ASSUME ShapeInv, NEW r \in Runs, RunStep(r), env' = env
  PROVE  RunTypes' /\ RunShape' /\ WorkerShape'
<1> DEFINE Goal == RunTypes' /\ RunShape' /\ WorkerShape'
<1>0. RunTypes /\ RunShape /\ WorkerShape /\ Inline' = Inline
  BY DEF ShapeInv, Types, TypeOK, RunTypes, Inline
<1> USE <1>0 DEF RunTypes, RunShape, WorkerShape, Active, At
<1>1. ASSUME NEW s \in Sessions \cup {None}, AcquireJob(r, s) PROVE Goal
  BY <1>1 DEF AcquireJob
<1>2. CASE Launch(r)
  BY <1>2 DEF Launch
<1>3. CASE Withdraw(r)
  BY <1>3 DEF Withdraw
<1>4. CASE RegisterKnown(r)
  BY <1>4 DEF RegisterKnown
<1>5. CASE RegistrationRefused(r)
  BY <1>5 DEF RegistrationRefused
<1>6. CASE ReleaseGate(r)
  BY <1>6 DEF ReleaseGate
<1>7. ASSUME NEW s \in Sessions, Announce(r, s) PROVE Goal
  BY <1>7 DEF Announce
<1>8. CASE PollControl(r)
  BY <1>8, ActionValues DEF PollControl
<1>9. CASE RenewRun(r)
  BY <1>9 DEF RenewRun
<1>10. CASE Reaped(r)
  BY <1>10, ActionValues DEF Reaped
<1>11. ASSUME NEW retry \in BOOLEAN, Resolve(r, retry) PROVE Goal
  BY <1>11, ActionValues DEF Resolve
<1>12. CASE Settle(r)
  BY <1>12 DEF Settle
<1>13. CASE RecordRun(r)
  BY <1>13 DEF RecordRun
<1>14. CASE RunnerDies(r)
  BY <1>14 DEF RunnerDies
<1>15. CASE SupervisorReaps(r) \/ SupervisorDies(r) \/ CodexExits(r)
  BY <1>15 DEF SupervisorReaps, SupervisorDies, CodexExits
<1>16. CASE SupervisorFinalizes(r) \/ SupervisorAbandons(r)
  BY <1>16 DEF SupervisorFinalizes, SupervisorAbandons
<1>17. CASE DrainWorker(r)
  BY <1>17 DEF DrainWorker
<1>18. CASE ResumeWorkerAcquires(r) \/ ResumeWorkerLeaves(r)
  BY <1>18 DEF ResumeWorkerAcquires, ResumeWorkerLeaves
<1>19. CASE ResumeWorkerReleases(r) \/ ResumeWorkerRecovers(r)
  BY <1>19 DEF ResumeWorkerReleases, ResumeWorkerRecovers, runs
<1> QED BY <1>1, <1>2, <1>3, <1>4, <1>5, <1>6, <1>7, <1>8, <1>9, <1>10, <1>11,
       <1>12, <1>13, <1>14, <1>15, <1>16, <1>17, <1>18, <1>19 DEF RunStep

\* The scenario never changes.
LEMMA EnvStep ==
  ASSUME [Next]_vars
  PROVE  env' = env
<1>1. ASSUME NEW r \in Runs, RunStep(r) PROVE env' = env
  BY <1>1 DEF RunStep, AcquireJob, Launch, Withdraw, RegisterKnown,
     RegistrationRefused, ReleaseGate, Announce, PollControl, RenewRun, Reaped,
     Resolve, Settle, RecordRun, RunnerDies, SupervisorReaps, SupervisorDies,
     CodexExits, SupervisorFinalizes, SupervisorAbandons, DrainWorker,
     ResumeWorkerAcquires, ResumeWorkerReleases, ResumeWorkerRecovers,
     ResumeWorkerLeaves
<1>2. ASSUME NEW s \in Sessions, SessionStep(s) PROVE env' = env
  BY <1>2 DEF SessionStep, RequestStop, RequestInteractiveStop, RequestResume,
     RegisterPlanning, RetireCompleted, ClearOrphanedRequest
<1>3. ASSUME NEW u \in Users, UserStep(u) PROVE env' = env
  BY <1>3 DEF UserStep, RequestInterrupt, TakeStopped, OpenIdle, OpenShared,
     Reserve, ReserveRefused, HandedOver, GiveUp, Cancel, ReleaseOwn,
     StartGuardian, RevalidationFails, GuardianExited, UserDies
<1>4. ASSUME NEW u \in Users, GuardianStep(u) PROVE env' = env
  BY <1>4 DEF GuardianStep, Adopt, SpawnGated, RegisterChild, OpenInteractive,
     RenewGuardian, ReapInteractive, Finish, HandBack, GuardianDies,
     OrphanInteractiveExits
<1>5. ASSUME NEW x \in Rescuers, RescuerStep(x) PROVE env' = env
  BY <1>5 DEF RescuerStep, Attach, Claim, RescuerRenews, RescuerStops,
     RescuerFinalizes, RescuerLeaves, RescuerDies
<1>6. ASSUME NEW c \in Schedulers, SchedulerStep(c) PROVE env' = env
  BY <1>6 DEF SchedulerStep, ReadRow, RecoverRow, LeaveRow
<1> QED BY <1>1, <1>2, <1>3, <1>4, <1>5, <1>6
       DEF Next, vars, LeaseExpires, ReclaimLease

\* The runs that others touch: a resume worker is spawned for a session of a
\* user's attempt, a replacement supervisor stops an orphan.
Spawns ==
  \/ \E u \in Users : (ReleaseOwn(u) \/ HandBack(u)) /\ SpawnResume(usess[u])
  \/ \E x \in Rescuers : RescuerStops(x)

LEMMA RunFootprint ==
  ASSUME [Next]_vars
  PROVE  \/ UNCHANGED <<runs, workers>>
         \/ \E r \in Runs : RunStep(r)
         \/ UNCHANGED workers /\ Spawns
<1>1. ASSUME NEW s \in Sessions, SessionStep(s) PROVE UNCHANGED <<runs, workers>>
  BY <1>1 DEF SessionStep, RequestStop, RequestInteractiveStop, RequestResume,
     RegisterPlanning, RetireCompleted, ClearOrphanedRequest
<1>2. ASSUME NEW u \in Users, UserStep(u)
      PROVE  UNCHANGED <<runs, workers>> \/ (UNCHANGED workers /\ Spawns)
  <2>1. CASE ReleaseOwn(u)
    BY <1>2, <2>1 DEF ReleaseOwn, Spawns, runs
  <2> QED
    BY <1>2, <2>1
    DEF UserStep, RequestInterrupt, TakeStopped, OpenIdle, OpenShared, Reserve,
     ReserveRefused, HandedOver, GiveUp, Cancel, StartGuardian,
     RevalidationFails, GuardianExited, UserDies
<1>3. ASSUME NEW u \in Users, GuardianStep(u)
      PROVE  UNCHANGED <<runs, workers>> \/ (UNCHANGED workers /\ Spawns)
  <2>1. CASE HandBack(u)
    BY <1>3, <2>1 DEF HandBack, Spawns
  <2> QED
    BY <1>3, <2>1
    DEF GuardianStep, Adopt, SpawnGated, RegisterChild, OpenInteractive,
     RenewGuardian, ReapInteractive, Finish, GuardianDies,
     OrphanInteractiveExits
<1>4. ASSUME NEW x \in Rescuers, RescuerStep(x)
      PROVE  UNCHANGED <<runs, workers>> \/ (UNCHANGED workers /\ Spawns)
  <2>1. CASE RescuerStops(x)
    BY <1>4, <2>1 DEF RescuerStops, Spawns
  <2> QED
    BY <1>4, <2>1 DEF RescuerStep, Attach, Claim, RescuerRenews,
     RescuerFinalizes, RescuerLeaves, RescuerDies
<1>5. ASSUME NEW c \in Schedulers, SchedulerStep(c)
      PROVE  UNCHANGED <<runs, workers>>
  BY <1>5 DEF SchedulerStep, ReadRow, RecoverRow, LeaveRow
<1> QED BY <1>1, <1>2, <1>3, <1>4, <1>5
       DEF Next, vars, LeaseExpires, ReclaimLease

LEMMA RunInvStep ==
  ASSUME ShapeInv, [Next]_vars
  PROVE  RunTypes' /\ RunShape' /\ WorkerShape'
<1>0. /\ RunTypes /\ RunShape /\ WorkerShape /\ Inline' = Inline /\ env' = env
      /\ Inline \subseteq Runs
  BY EnvStep, SessionConstants DEF ShapeInv, Types, TypeOK, RunTypes, Inline
<1>1. CASE UNCHANGED <<runs, workers>>
  BY <1>0, <1>1 DEF runs, RunTypes, RunShape, WorkerShape
<1>2. ASSUME NEW r \in Runs, RunStep(r) PROVE RunTypes' /\ RunShape' /\ WorkerShape'
  BY <1>0, <1>2, RunStepShape
<1>3. ASSUME NEW u \in Users, ReleaseOwn(u) \/ HandBack(u), SpawnResume(usess[u]),
             UNCHANGED workers
      PROVE  RunTypes' /\ RunShape' /\ WorkerShape'
  <2>1. usess[u] \in Sessions /\ UNCHANGED <<seen, todo, sup, codex>>
    BY <1>3 DEF ShapeInv, UserShape, ReleaseOwn, HandBack
  <2>2. CASE UNCHANGED <<rpc, sess>>
    BY <1>0, <1>3, <2>1, <2>2 DEF RunTypes, RunShape, WorkerShape
  <2>3. ASSUME NEW r \in Inline, rpc[r] = "off", At(r, "waiting"),
               sess' = [sess EXCEPT ![r] = usess[u]]
        PROVE  RunTypes' /\ RunShape' /\ WorkerShape'
    BY <1>0, <1>3, <2>1, <2>3 DEF RunTypes, RunShape, WorkerShape, At, Active
  <2> QED BY <1>3, <2>2, <2>3 DEF SpawnResume
<1>4. ASSUME NEW x \in Rescuers, RescuerStops(x), UNCHANGED workers
      PROVE  RunTypes' /\ RunShape' /\ WorkerShape'
  BY <1>0, <1>4 DEF RescuerStops, RunTypes, RunShape, WorkerShape, Active
<1> QED BY <1>1, <1>2, <1>3, <1>4, RunFootprint DEF Spawns

\* Users and guardians are moved by their own steps only.
LEMMA UserFootprint ==
  ASSUME [Next]_vars
  PROVE  \/ UNCHANGED users
         \/ \E u \in Users : UserStep(u) \/ GuardianStep(u)
<1>1. ASSUME NEW r \in Runs, RunStep(r) PROVE UNCHANGED users
  BY <1>1 DEF RunStep, AcquireJob, Launch, Withdraw, RegisterKnown,
     RegistrationRefused, ReleaseGate, Announce, PollControl, RenewRun, Reaped,
     Resolve, Settle, RecordRun, RunnerDies, SupervisorReaps, SupervisorDies,
     CodexExits, SupervisorFinalizes, SupervisorAbandons, DrainWorker,
     ResumeWorkerAcquires, ResumeWorkerReleases, ResumeWorkerRecovers,
     ResumeWorkerLeaves
<1>2. ASSUME NEW s \in Sessions, SessionStep(s) PROVE UNCHANGED users
  BY <1>2 DEF SessionStep, RequestStop, RequestInteractiveStop, RequestResume,
     RegisterPlanning, RetireCompleted, ClearOrphanedRequest
<1>3. ASSUME NEW x \in Rescuers, RescuerStep(x) PROVE UNCHANGED users
  BY <1>3 DEF RescuerStep, Attach, Claim, RescuerRenews, RescuerStops,
     RescuerFinalizes, RescuerLeaves, RescuerDies
<1>4. ASSUME NEW c \in Schedulers, SchedulerStep(c) PROVE UNCHANGED users
  BY <1>4 DEF SchedulerStep, ReadRow, RecoverRow, LeaveRow
<1> QED BY <1>1, <1>2, <1>3, <1>4 DEF Next, vars, LeaseExpires, ReclaimLease

GuardianTypes == gchild \in [Users -> {"off", "gated", "live", "gone"}]

LEMMA UserStepShape ==
  ASSUME ShapeInv, NEW u \in Users, UserStep(u), env' = env
  PROVE  UserTypes' /\ GuardianTypes' /\ UserShape' /\ GuardianShape'
<1> DEFINE Goal == UserTypes' /\ GuardianTypes' /\ UserShape' /\ GuardianShape'
<1>0. /\ UserTypes /\ GuardianTypes /\ UserShape /\ GuardianShape
      /\ Modes' = Modes
  BY DEF ShapeInv, Types, TypeOK, GuardianTypes, Modes
<1> USE <1>0 DEF UserTypes, GuardianTypes, UserShape, GuardianShape, UAt, GAt,
                 Places, GPlaces, AllModes, ReserveModes, SharedModes
<1>1. ASSUME NEW s \in Sessions, RequestInterrupt(u, s) PROVE Goal
  BY <1>1 DEF RequestInterrupt, Opens
<1>2. ASSUME NEW s \in Sessions, TakeStopped(u, s) PROVE Goal
  BY <1>2 DEF TakeStopped, Opens
<1>3. ASSUME NEW s \in Sessions, OpenIdle(u, s) PROVE Goal
  BY <1>3 DEF OpenIdle, Opens
<1>4. ASSUME NEW s \in Sessions, OpenShared(u, s) PROVE Goal
  BY <1>4 DEF OpenShared, Opens
<1>5. CASE Reserve(u)
  BY <1>5 DEF Reserve, Dispositions
<1>6. CASE ReserveRefused(u) \/ HandedOver(u) \/ GiveUp(u) \/ Cancel(u)
  BY <1>6 DEF ReserveRefused, HandedOver, GiveUp, Cancel
<1>7. CASE ReleaseOwn(u)
  BY <1>7 DEF ReleaseOwn
<1>8. CASE StartGuardian(u)
  BY <1>8 DEF StartGuardian
<1>9. CASE RevalidationFails(u) \/ GuardianExited(u) \/ UserDies(u)
  BY <1>9 DEF RevalidationFails, GuardianExited, UserDies
<1> QED BY <1>1, <1>2, <1>3, <1>4, <1>5, <1>6, <1>7, <1>8, <1>9 DEF UserStep

LEMMA GuardianStepShape ==
  ASSUME ShapeInv, NEW u \in Users, GuardianStep(u), env' = env
  PROVE  UserTypes' /\ GuardianTypes' /\ UserShape' /\ GuardianShape'
<1> DEFINE Goal == UserTypes' /\ GuardianTypes' /\ UserShape' /\ GuardianShape'
<1>0. /\ UserTypes /\ GuardianTypes /\ UserShape /\ GuardianShape
      /\ Modes' = Modes
  BY DEF ShapeInv, Types, TypeOK, GuardianTypes, Modes
<1> USE <1>0 DEF UserTypes, GuardianTypes, UserShape, GuardianShape, UAt, GAt,
                 Places, GPlaces
<1>1. CASE Adopt(u)
  BY <1>1 DEF Adopt
<1>2. CASE SpawnGated(u) \/ RegisterChild(u)
  BY <1>2 DEF SpawnGated, RegisterChild
<1>3. CASE OpenInteractive(u) \/ ReapInteractive(u)
  BY <1>3 DEF OpenInteractive, ReapInteractive
<1>4. CASE RenewGuardian(u)
  BY <1>4 DEF RenewGuardian, users
<1>5. CASE Finish(u)
  BY <1>5 DEF Finish
<1>6. CASE HandBack(u) \/ GuardianDies(u) \/ OrphanInteractiveExits(u)
  BY <1>6 DEF HandBack, GuardianDies, OrphanInteractiveExits
<1> QED BY <1>1, <1>2, <1>3, <1>4, <1>5, <1>6 DEF GuardianStep

LEMMA UserInvStep ==
  ASSUME ShapeInv, [Next]_vars
  PROVE  UserTypes' /\ GuardianTypes' /\ UserShape' /\ GuardianShape'
<1>0. env' = env
  BY EnvStep
<1>1. CASE UNCHANGED users
  BY <1>0, <1>1 DEF ShapeInv, Types, TypeOK, users, UserTypes, GuardianTypes,
     UserShape, GuardianShape, Modes
<1> QED BY <1>0, <1>1, UserFootprint, UserStepShape, GuardianStepShape

-----------------------------------------------------------------------------
(* Who loses the lease, and who gets it.                                   *)

\* The recovery of a row from an old read takes the lease that it read.
Recovers(c, h) ==
  /\ snap[c] # None /\ snap[c].lh = h /\ ~snap[c].active
  /\ snap[c].ch \in Runs /\ snap[c].s \in Sessions
  /\ child[snap[c].s] = snap[c].ch /\ Exits(snap[c].s)

\* Why the holder h has to go.
Loses(h) ==
  \/ h = None \/ expired \/ Gone(h)
  \/ h \in Users \cup Guardians
  \/ h \in Runs /\ rpc'[h] \in {"done", "dead"}
  \/ /\ h \in Runs /\ Settle(h) /\ rpc[h] = "settling" /\ sess[h] \in Sessions
     /\ state[sess[h]] = "interrupt_requested" /\ Exits(sess[h])
  \/ h \in Rescuers /\ xpc'[h] = "done"
  \/ h \in Holders \ Users /\ \E c \in Schedulers : Recovers(c, h)

\* How h comes by the lease.
Gains(h) ==
  \/ h = None
  \/ h \in Runs /\ rpc[h] \in {"off", "waiting"} /\ rpc'[h] = "acquired"
  \/ h \in Users /\ upc[h] = "off" /\ upc'[h] = "reserving"
  \/ h \in Users /\ \E s \in Sessions : iholder[s] = h
  \/ \E u \in Users : h = Guardian[u] /\ lease = u
  \/ h \in Rescuers /\ lease = None /\ Claim(h)

LeaseMove ==
  /\ lease' \in Holders \cup {None} /\ expired' \in BOOLEAN
  /\ lease' # lease => Loses(lease) /\ Gains(lease') /\ ~expired'
  /\ lease' = lease /\ expired' # expired => ~expired' \/ LeaseExpires

LEMMA Expiry ==
  /\ CanAcquire => lease = None \/ expired
  /\ Reclaimable => expired \/ Gone(lease)
BY DEF CanAcquire, Reclaimable

LEMMA NoLeaseMove ==
  ASSUME ShapeInv, UNCHANGED own
  PROVE  LeaseMove
BY DEF LeaseMove, own, ShapeInv, Types, TypeOK

\* A release is harmless to everybody but its holder.
LEMMA Release ==
  ASSUME ShapeInv, NEW h, ReleaseLease(h), Loses(h)
  PROVE  LeaseMove
<1>1. CASE lease = h
  BY <1>1 DEF ReleaseLease, LeaseMove, Gains
<1>2. CASE lease # h
  BY <1>2, NoLeaseMove DEF ReleaseLease
<1> QED BY <1>1, <1>2

LEMMA Acquisition ==
  ASSUME ShapeInv, NEW h \in Holders, WriteLease(h), Loses(lease), Gains(h)
  PROVE  LeaseMove
BY DEF WriteLease, LeaseMove

LEMMA RunLease ==
  ASSUME ShapeInv, NEW r \in Runs, RunStep(r)
  PROVE  LeaseMove
<1>0. /\ RunTypes /\ RowTypes /\ RowShape /\ RunShape /\ r \in Holders
      /\ lease \in Holders \cup {None} /\ expired \in BOOLEAN
  BY DEF ShapeInv, Types, TypeOK, RunTypes, RowTypes, Holders
<1>1. ASSUME NEW s \in Sessions \cup {None}, AcquireJob(r, s) PROVE LeaseMove
  <2>1. Loses(lease) /\ Gains(r)
    BY <1>0, <1>1, Expiry DEF AcquireJob, Loses, Gains, At, RunTypes
  <2> QED BY <1>0, <1>1, <2>1, Acquisition DEF AcquireJob
<1>2. CASE Withdraw(r)
  <2>1. Loses(r)
    BY <1>0, <1>2 DEF Withdraw, Loses, At, RunTypes
  <2> QED BY <1>2, <2>1, Release DEF Withdraw
<1>3. CASE RenewRun(r)
  BY <1>0, <1>3 DEF RenewRun, LeaseMove
<1>4. CASE Settle(r)
  <2>1. CASE UNCHANGED own
    BY <2>1, NoLeaseMove
  <2>2. CASE ~UNCHANGED own
    <3>1. /\ sess[r] # None /\ token[sess[r]] = r /\ lease = r
          /\ state[sess[r]] = "interrupt_requested"
          /\ SetRow(sess[r], "ready_interactive", None, r, iholder[sess[r]],
                    None)
          /\ WriteLease(iholder[sess[r]]) /\ UNCHANGED parked
      BY <1>4, <2>2 DEF Settle
    <3>2. sess[r] \in Sessions /\ iholder[sess[r]] \in Users
      BY <1>0, <3>1 DEF RunTypes, RowShape, Shape
    <3>3. Exits(sess[r])
      BY <1>4, <3>1, <3>2 DEF Exits, Settle, WriteLease, users
    <3>4. Loses(lease) /\ Gains(iholder[sess[r]])
      BY <1>4, <3>1, <3>2, <3>3 DEF Loses, Gains, Settle
    <3>5. iholder[sess[r]] \in Holders
      BY <3>2 DEF Holders
    <3> QED BY <3>1, <3>4, <3>5, Acquisition
  <2> QED BY <2>1, <2>2
<1>5. CASE RecordRun(r)
  <2>1. Loses(r)
    BY <1>0, <1>5 DEF RecordRun, Loses, At, RunTypes
  <2> QED BY <1>5, <2>1, Release DEF RecordRun
<1>6. CASE SupervisorAbandons(r) \/ SupervisorFinalizes(r)
  <2>1. Loses(r)
    BY <1>0, <1>6 DEF SupervisorAbandons, SupervisorFinalizes, Loses, Gone,
       RunShape, RunTypes, Active
  <2>2. CASE SupervisorAbandons(r)
    BY <2>1, <2>2, Release DEF SupervisorAbandons
  <2>3. ASSUME NEW s \in RowOf(r), FinalizeAfterExit(s, r) PROVE LeaseMove
    <3>1. CASE UNCHANGED own
      BY <3>1, NoLeaseMove
    <3>2. CASE ReleaseLease(r)
      BY <2>1, <3>2, Release
    <3>3. CASE ~UNCHANGED own /\ ~ReleaseLease(r)
      <4>1. /\ AfterExit(state[s]) = "ready_interactive"
            /\ state[s] \in Automated /\ lease \in {r, None}
            /\ WriteLease(iholder[s]) /\ s \in Sessions
        BY <2>3, <3>3 DEF FinalizeAfterExit, CanTransfer, RowOf
      <4>2. state[s] = "interrupt_requested"
        BY <4>1, ExitStates DEF Automated
      <4>3. iholder[s] \in Users /\ iholder[s] \in Holders
        BY <1>0, <4>1, <4>2 DEF RowShape, Shape, Holders
      <4>4. Loses(lease) /\ Gains(iholder[s])
        BY <2>1, <4>1, <4>3 DEF Loses, Gains
      <4> QED BY <4>1, <4>3, <4>4, Acquisition
    <3> QED BY <3>1, <3>2, <3>3
  <2> QED BY <1>6, <2>2, <2>3 DEF SupervisorFinalizes
<1>7. CASE DrainWorker(r)
  <2>1. Loses(r)
    BY <1>0, <1>7 DEF DrainWorker, Loses, At, RunTypes
  <2> QED BY <1>7, <2>1, Release DEF DrainWorker
<1>8. CASE ResumeWorkerAcquires(r)
  <2>1. Loses(lease) /\ Gains(r)
    BY <1>0, <1>8, Expiry DEF ResumeWorkerAcquires, Loses, Gains, At, RunTypes
  <2> QED BY <1>0, <1>8, <2>1, Acquisition DEF ResumeWorkerAcquires
<1>9. CASE ResumeWorkerReleases(r)
  <2>1. Loses(lease)
    BY <1>9, Expiry DEF ResumeWorkerReleases, Loses
  <2> QED BY <1>9, <2>1, Release DEF ResumeWorkerReleases
<1>10. CASE UNCHANGED own
  BY <1>10, NoLeaseMove
<1> QED
  BY <1>1, <1>2, <1>3, <1>4, <1>5, <1>6, <1>7, <1>8, <1>9, <1>10
  DEF RunStep, Launch, RegisterKnown, RegistrationRefused, ReleaseGate,
      Announce, PollControl, Reaped, Resolve, RunnerDies, SupervisorReaps,
      SupervisorDies, CodexExits, ResumeWorkerRecovers, ResumeWorkerLeaves
LEMMA UserLease ==
  ASSUME ShapeInv, NEW u \in Users, UserStep(u) \/ GuardianStep(u)
  PROVE  LeaseMove
<1>0. /\ UserTypes /\ u \in Holders /\ Guardian[u] \in Holders
      /\ Guardian[u] \in Guardians /\ expired \in BOOLEAN
      /\ lease \in Holders \cup {None}
  BY Names DEF ShapeInv, Types, TypeOK, Holders
<1>1. ASSUME NEW s \in Sessions, TakeStopped(u, s) \/ OpenIdle(u, s)
      PROVE  LeaseMove
  <2>1. Loses(lease) /\ Gains(u)
    BY <1>0, <1>1, Expiry DEF TakeStopped, OpenIdle, Opens, UAt, Loses, Gains,
       UserTypes
  <2> QED BY <1>0, <1>1, <2>1, Acquisition DEF TakeStopped, OpenIdle
<1>2. CASE ReleaseOwn(u)
  <2>1. Loses(u)
    BY DEF Loses
  <2> QED BY <1>2, <2>1, Release DEF ReleaseOwn
<1>3. CASE Adopt(u)
  <2>1. CASE UNCHANGED own
    BY <2>1, NoLeaseMove
  <2>2. CASE ~UNCHANGED own
    <3>1. lease = u /\ WriteLease(Guardian[u])
      BY <1>3, <2>2 DEF Adopt, CanAdopt
    <3>2. Loses(lease) /\ Gains(Guardian[u])
      BY <3>1 DEF Loses, Gains
    <3> QED BY <1>0, <3>1, <3>2, Acquisition
  <2> QED BY <2>1, <2>2
<1>4. CASE RenewGuardian(u)
  BY <1>0, <1>4 DEF RenewGuardian, LeaseMove
<1>5. CASE Finish(u)
  <2>1. UNCHANGED own \/ ReleaseLease(Guardian[u])
    BY <1>5 DEF Finish, EndInteractive
  <2>2. Loses(Guardian[u])
    BY <1>0 DEF Loses
  <2> QED BY <2>1, <2>2, NoLeaseMove, Release
<1>6. CASE UNCHANGED own
  BY <1>6, NoLeaseMove
<1> QED
  BY <1>1, <1>2, <1>3, <1>4, <1>5, <1>6
  DEF UserStep, RequestInterrupt, OpenShared, Reserve, ReserveRefused,
      HandedOver, GiveUp, Cancel, StartGuardian, RevalidationFails,
      GuardianExited, UserDies, GuardianStep, SpawnGated, RegisterChild,
      OpenInteractive, ReapInteractive, HandBack, GuardianDies,
      OrphanInteractiveExits

LEMMA RescuerLeaseMove ==
  ASSUME ShapeInv, NEW x \in Rescuers, RescuerStep(x)
  PROVE  LeaseMove
<1>0. /\ ReaderTypes /\ RowShape /\ x \in Holders /\ expired \in BOOLEAN
      /\ lease \in Holders \cup {None}
  BY DEF ShapeInv, Types, TypeOK, Holders
<1>1. ASSUME NEW s \in Sessions, Attach(x, s) PROVE LeaseMove
  <2>1. Loses(lease)
    BY <1>1 DEF Attach, Loses
  <2> QED BY <1>1, <2>1, Release DEF Attach
<1>2. CASE Claim(x)
  <2>1. CASE UNCHANGED own
    BY <2>1, NoLeaseMove
  <2>2. CASE ~UNCHANGED own
    <3>1. lease = None /\ WriteLease(x)
      BY <1>2, <2>2 DEF Claim, CanClaim
    <3>2. Loses(lease) /\ Gains(x)
      BY <1>2, <3>1 DEF Loses, Gains
    <3> QED BY <1>0, <3>1, <3>2, Acquisition
  <2> QED BY <2>1, <2>2
<1>3. CASE RescuerRenews(x)
  BY <1>0, <1>3 DEF RescuerRenews, LeaseMove
<1>4. CASE RescuerFinalizes(x) \/ RescuerLeaves(x)
  <2>1. Loses(x)
    BY <1>0, <1>4 DEF RescuerFinalizes, RescuerLeaves, Loses, XAt, ReaderTypes
  <2>2. CASE RescuerLeaves(x)
    BY <2>1, <2>2, Release DEF RescuerLeaves
  <2>3. ASSUME NEW s \in RowOf(xrun[x]), FinalizeAfterExit(s, x), lease = x
        PROVE  LeaseMove
    <3>1. CASE UNCHANGED own
      BY <3>1, NoLeaseMove
    <3>2. CASE ReleaseLease(x)
      BY <2>1, <3>2, Release
    <3>3. CASE ~UNCHANGED own /\ ~ReleaseLease(x)
      <4>1. /\ AfterExit(state[s]) = "ready_interactive"
            /\ state[s] \in Automated
            /\ WriteLease(iholder[s]) /\ s \in Sessions
        BY <2>3, <3>3 DEF FinalizeAfterExit, RowOf
      <4>2. state[s] = "interrupt_requested"
        BY <4>1, ExitStates DEF Automated
      <4>3. iholder[s] \in Users /\ iholder[s] \in Holders
        BY <1>0, <4>1, <4>2 DEF RowShape, Shape, Holders
      <4>4. Gains(iholder[s])
        BY <4>1, <4>3 DEF Gains
      <4> QED BY <2>1, <2>3, <4>1, <4>3, <4>4, Acquisition
    <3> QED BY <3>1, <3>2, <3>3
  <2> QED BY <1>4, <2>2, <2>3 DEF RescuerFinalizes, Supervises
<1>5. CASE UNCHANGED own
  BY <1>5, NoLeaseMove
<1> QED BY <1>1, <1>2, <1>3, <1>4, <1>5
       DEF RescuerStep, RescuerStops, RescuerDies

LEMMA SchedulerLease ==
  ASSUME ShapeInv, NEW c \in Schedulers, RecoverRow(c)
  PROVE  LeaseMove
<1>0. /\ TypeOK /\ RowShape /\ ReaderTypes /\ SnapShape
      /\ lease \in Holders \cup {None}
  BY DEF ShapeInv, Types, TypeOK
<1>1. PICK n \in Snaps : n = snap[c]
  BY <1>0 DEF RecoverRow, ReaderTypes
<1>2. CASE UNCHANGED own
  BY <1>2, NoLeaseMove
<1>3. ASSUME NEW u \in Users, ReleaseLease(Guardian[u]) PROVE LeaseMove
  <2>1. Loses(Guardian[u])
    BY Names DEF Loses
  <2> QED BY <1>3, <2>1, Release
<1>4. ASSUME RecoverRun(n), ~UNCHANGED own PROVE LeaseMove
  <2>1. /\ n.s \in Sessions /\ n.ch \in Runs /\ child[n.s] = n.ch
        /\ ~n.active /\ FinalizeAfterExit(n.s, n.lh)
        /\ n.lh \in Holders \cup {None} /\ snap[c] # None
    BY <1>0, <1>1, <1>4 DEF RecoverRun, Snaps, SnapShape, RecoverRow
  <2>2. Exits(n.s)
    BY <1>0, <1>1, <2>1, FinalizeExits DEF RecoverRow, runs
  <2>3. Recovers(c, n.lh)
    BY <1>1, <2>1, <2>2 DEF Recovers
  <2>4. Loses(n.lh)
    BY <2>1, <2>3 DEF Loses
  <2>5. CASE ReleaseLease(n.lh)
    BY <2>4, <2>5, Release
  <2>6. CASE ~ReleaseLease(n.lh)
    <3>1. /\ AfterExit(state[n.s]) = "ready_interactive"
          /\ state[n.s] \in Automated /\ lease \in {n.lh, None}
          /\ WriteLease(iholder[n.s])
      BY <1>4, <2>1, <2>6 DEF FinalizeAfterExit, CanTransfer
    <3>2. state[n.s] = "interrupt_requested"
      BY <3>1, ExitStates DEF Automated
    <3>3. iholder[n.s] \in Users /\ iholder[n.s] \in Holders
      BY <1>0, <2>1, <3>2 DEF RowShape, Shape, Holders
    <3>4. Loses(lease) /\ Gains(iholder[n.s])
      BY <2>1, <2>4, <3>1, <3>3 DEF Gains, Loses
    <3> QED BY <3>1, <3>3, <3>4, Acquisition
  <2> QED BY <2>5, <2>6
<1>5. \/ \E u \in Users, old \in BOOLEAN :
           \/ RecoverIdle(n, u, old) \/ RecoverGuardian(n, u, old)
           \/ RecoverHandoff(n, u, old)
      \/ RecoverRun(n)
  BY <1>1 DEF RecoverRow
<1> QED BY <1>2, <1>3, <1>4, <1>5
       DEF RecoverIdle, RecoverGuardian, RecoverHandoff, EndInteractive

\* What a step may do to the lease.
LEMMA LeaseStep ==
  ASSUME ShapeInv, [Next]_vars
  PROVE  LeaseMove
<1>0. lease \in Holders \cup {None} /\ expired \in BOOLEAN
  BY DEF ShapeInv, Types, TypeOK
<1>1. CASE LeaseExpires
  BY <1>0, <1>1 DEF LeaseExpires, LeaseMove
<1>2. CASE ReclaimLease
  <2>1. Loses(lease)
    BY <1>2, Expiry DEF ReclaimLease, Loses
  <2> QED BY <1>2, <2>1, Release DEF ReclaimLease
<1>3. ASSUME NEW s \in Sessions, SessionStep(s) PROVE UNCHANGED own
  BY <1>3 DEF SessionStep, RequestStop, RequestInteractiveStop, RequestResume,
     RegisterPlanning, RetireCompleted, ClearOrphanedRequest
<1>4. ASSUME NEW c \in Schedulers, SchedulerStep(c) PROVE LeaseMove
  BY <1>4, SchedulerLease, NoLeaseMove DEF SchedulerStep, ReadRow, LeaveRow
<1> QED BY <1>1, <1>2, <1>3, <1>4, NoLeaseMove, RunLease, UserLease,
       RescuerLeaseMove DEF Next, vars

-----------------------------------------------------------------------------
(* One row, one run and one user at a time.                                *)

SameRow(s) ==
  /\ state'[s] = state[s] /\ child'[s] = child[s] /\ token'[s] = token[s]
  /\ iholder'[s] = iholder[s] /\ ilaunch'[s] = ilaunch[s]
  /\ s \in parked' => s \in parked

LEMMA RowChange ==
  ASSUME ShapeInv, [Next]_vars, NEW s \in Sessions
  PROVE  SameRow(s) \/ RowWrite(s)
<1>0. RowTypes
  BY DEF ShapeInv, Types, TypeOK, RowTypes
<1>1. CASE UNCHANGED <<rows, parked>>
  BY <1>1 DEF rows, SameRow
<1>2. ASSUME NEW q \in Sessions, RowWrite(q), q # s PROVE SameRow(s)
  <2>1. PICK st, ch, tk, h, l : SetRow(q, st, ch, tk, h, l)
    BY <1>2, WriteFits
  <2> QED BY <1>0, <1>2, <2>1, ParkedWrites DEF SetRow, SameRow, RowTypes
<1> QED BY <1>1, <1>2, RowWrites

\* A run that has left the launch gate behind never comes back to it, and
\* keeps its session.
LEMMA RunMoves ==
  ASSUME ShapeInv, [Next]_vars, NEW r \in Runs
  PROVE  /\ rpc[r] \notin {"off", "waiting", "acquired", "gated"} =>
              rpc'[r] \notin {"off", "waiting", "acquired", "gated"}
         /\ rpc[r] # "off" /\ sess[r] # None => sess'[r] = sess[r]
         /\ rpc[r] \in {"done", "dead"} => rpc'[r] \in {"done", "dead"}
<1>0. RunTypes /\ RunShape /\ WorkerShape
  BY DEF ShapeInv, Types, TypeOK, RunTypes
<1>1. CASE UNCHANGED <<runs, workers>>
  BY <1>1 DEF runs
<1>2. ASSUME NEW q \in Runs, RunStep(q), q # r
      PROVE  rpc'[r] = rpc[r] /\ sess'[r] = sess[r]
  BY <1>0, <1>2
     DEF RunTypes, At, runs, RunStep, AcquireJob, Launch, Withdraw,
     RegisterKnown, RegistrationRefused, ReleaseGate, Announce, PollControl,
     RenewRun, Reaped, Resolve, Settle, RecordRun, RunnerDies, SupervisorReaps,
     SupervisorDies, CodexExits, SupervisorFinalizes, SupervisorAbandons,
     DrainWorker, ResumeWorkerAcquires, ResumeWorkerReleases,
     ResumeWorkerRecovers, ResumeWorkerLeaves
<1>3. CASE RunStep(r)
  BY <1>0, <1>3
     DEF RunTypes, RunShape, Active, At, runs, RunStep, AcquireJob, Launch,
     Withdraw, RegisterKnown, RegistrationRefused, ReleaseGate, Announce,
     PollControl, RenewRun, Reaped, Resolve, Settle, RecordRun, RunnerDies,
     SupervisorReaps, SupervisorDies, CodexExits, SupervisorFinalizes,
     SupervisorAbandons, DrainWorker, ResumeWorkerAcquires,
     ResumeWorkerReleases, ResumeWorkerRecovers, ResumeWorkerLeaves
<1>4. CASE Spawns
  BY <1>0, <1>4 DEF Spawns, SpawnResume, RescuerStops, At, RunTypes
<1> QED BY <1>1, <1>2, <1>3, <1>4, RunFootprint

\* What an attempt is about is settled when it begins.
LEMMA UserMoves ==
  ASSUME ShapeInv, [Next]_vars, NEW u \in Users
  PROVE  /\ upc[u] # "off" => usess'[u] = usess[u] /\ mode'[u] = mode[u]
         /\ upc[u] \notin {"off", "reserving"} => disp'[u] = disp[u]
         /\ upc'[u] = "done" => upc[u] = "done" \/ ReleaseOwn(u)
         /\ mode[u] # "off" => mode'[u] = mode[u] /\ usess'[u] = usess[u]
<1>0. UserTypes /\ UserShape
  BY DEF ShapeInv, Types
<1>1. CASE UNCHANGED users
  BY <1>1 DEF users
<1>2. ASSUME NEW v \in Users, UserStep(v) \/ GuardianStep(v), v # u
      PROVE  /\ usess'[u] = usess[u] /\ mode'[u] = mode[u]
             /\ disp'[u] = disp[u] /\ upc'[u] = upc[u]
  BY <1>0, <1>2 DEF UserTypes, UAt, users, Opens, UserStep, RequestInterrupt,
     TakeStopped, OpenIdle, OpenShared, Reserve, ReserveRefused, HandedOver,
     GiveUp, Cancel, ReleaseOwn, StartGuardian, RevalidationFails,
     GuardianExited, UserDies, GuardianStep, Adopt, SpawnGated, RegisterChild,
     OpenInteractive, RenewGuardian, ReapInteractive, Finish, HandBack,
     GuardianDies, OrphanInteractiveExits
<1>3. CASE GuardianStep(u)
  BY <1>0, <1>3 DEF users, GuardianStep, Adopt, SpawnGated, RegisterChild,
     OpenInteractive, RenewGuardian, ReapInteractive, Finish, HandBack,
     GuardianDies, OrphanInteractiveExits
<1>4. CASE UserStep(u)
  BY <1>0, <1>4 DEF UserTypes, UserShape, UAt, Opens, UserStep,
     RequestInterrupt, TakeStopped, OpenIdle, OpenShared, Reserve,
     ReserveRefused, HandedOver, GiveUp, Cancel, StartGuardian,
     RevalidationFails, GuardianExited, UserDies, ReleaseOwn
<1> QED BY <1>1, <1>2, <1>3, <1>4, UserFootprint

LEMMA LeaseOfUserStep ==
  ASSUME ShapeInv, [Next]_vars
  PROVE  LeaseOfUser'
<1> SUFFICES ASSUME NEW u \in Users, upc'[u] = "done" PROVE lease' # u
  BY DEF LeaseOfUser
<1>1. CASE ReleaseOwn(u)
  BY <1>1, Names DEF ReleaseOwn, ReleaseLease, own
<1>2. CASE upc[u] = "done"
  <2>1. lease # u /\ \A s \in Sessions : iholder[s] # u
    BY <1>2 DEF ShapeInv, LeaseOfUser, Reserved
  <2>2. ~Gains(u)
    BY <1>2, <2>1, Names DEF Gains
  <2> QED BY <2>1, <2>2, LeaseStep DEF LeaseMove
<1> QED BY <1>1, <1>2, UserMoves

\* Only the start of a run writes a new generation.
LEMMA TokenWrites ==
  ASSUME ShapeInv, [Next]_vars, NEW s \in Sessions
  PROVE  token'[s] \in {None, token[s]} \/ \E r \in Runs : Starts(r, s)
<1>0. RowTypes
  BY DEF ShapeInv, Types, TypeOK, RowTypes
<1> QED
  BY <1>0, RowChange
  DEF SameRow, RowWrite, SetRow, RowTypes, Asks, Exits, Rests, Rest, DeleteRow,
      RequestInterrupt, Reserve, Withdraws, Adopts, Adopt, RegistersChild,
      RegisterChild, Finishes, EndInteractive

LEMMA TokenStep ==
  ASSUME ShapeInv, [Next]_vars
  PROVE  TokenShape'
<1>0. RowTypes /\ RunTypes /\ TokenShape
  BY DEF ShapeInv, Types, TypeOK, RowTypes, RunTypes
<1> SUFFICES ASSUME NEW s \in Sessions, token'[s] \in Runs
             PROVE  /\ sess'[token'[s]] = s
                    /\ rpc'[token'[s]] \notin {"off", "waiting", "acquired",
                                               "gated"}
  BY DEF TokenShape
<1>1. CASE token'[s] = token[s]
  <2>1. /\ sess[token[s]] = s
        /\ rpc[token[s]] \notin {"off", "waiting", "acquired", "gated"}
    BY <1>0, <1>1 DEF TokenShape
  <2> QED BY <1>1, <2>1, RunMoves, Names
<1>2. ASSUME NEW r \in Runs, Starts(r, s)
      PROVE  /\ token'[s] = r /\ sess'[r] = s
             /\ rpc'[r] \in {"registered", "running"}
  BY <1>0, <1>2, Names DEF Starts, SetRow, RowTypes, RegisterKnown, Announce, At,
     RunTypes
<1> QED BY <1>1, <1>2, TokenWrites, Names

\* Who becomes the interactive holder of a row.
LEMMA HolderWrites ==
  ASSUME ShapeInv, [Next]_vars, NEW s \in Sessions
  PROVE  /\ \/ iholder'[s] \in {None, iholder[s]}
            \/ \E u \in Users : \/ RequestInterrupt(u, s) /\ iholder'[s] = u
                                \/ s = usess[u] /\ Reserve(u) /\ iholder'[s] = u
                                \/ Adopts(u, s) /\ iholder'[s] = Guardian[u]
         /\ state'[s] = "interrupt_requested" =>
              \/ state[s] = "interrupt_requested"
              \/ \E u \in Users : RequestInterrupt(u, s)
<1>0. RowTypes
  BY DEF ShapeInv, Types, TypeOK, RowTypes
<1>1. CASE SameRow(s)
  BY <1>1 DEF SameRow
<1>2. CASE (\E r \in Runs : Starts(r, s)) \/ Asks(s) \/ Rests(s)
  BY <1>0, <1>2 DEF Starts, Asks, Rests, SetRow, RowTypes, Resting
<1>3. CASE Exits(s)
  BY <1>0, <1>3, ExitStates DEF Exits, Rest, DeleteRow, SetRow, RowTypes
<1>4. ASSUME NEW u \in Users, RequestInterrupt(u, s)
      PROVE  iholder'[s] = u
  BY <1>0, <1>4 DEF RequestInterrupt, SetRow, RowTypes
<1>5. ASSUME NEW u \in Users, s = usess[u], Reserve(u)
      PROVE  iholder'[s] = u /\ state'[s] = "ready_interactive"
  BY <1>0, <1>5 DEF Reserve, SetRow, RowTypes
<1>6. ASSUME NEW u \in Users, Withdraws(u, s)
      PROVE  iholder'[s] = None /\ state'[s] # "interrupt_requested"
  BY <1>0, <1>6 DEF Withdraws, Rest, DeleteRow, SetRow, RowTypes
<1>7. ASSUME NEW u \in Users, Adopts(u, s)
      PROVE  iholder'[s] = Guardian[u] /\ state'[s] = "interactive"
  BY <1>0, <1>7 DEF Adopts, Adopt, SetRow, RowTypes
<1>8. ASSUME NEW u \in Users, RegistersChild(u, s)
      PROVE  iholder'[s] = iholder[s] /\ state'[s] = state[s]
  BY <1>0, <1>8 DEF RegistersChild, RegisterChild, SetRow, RowTypes
<1>9. ASSUME NEW u \in Users, Finishes(u, s)
      PROVE  iholder'[s] = None /\ state'[s] # "interrupt_requested"
  BY <1>0, <1>9 DEF Finishes, EndInteractive, AfterInteractive, Rest, SetRow,
     RowTypes
<1> QED BY <1>1, <1>2, <1>3, <1>4, <1>5, <1>6, <1>7, <1>8, <1>9, RowChange
       DEF RowWrite

\* While a user's reservation lasts the attempt goes on.
LEMMA ReservedMoves ==
  ASSUME ShapeInv, [Next]_vars, NEW s \in Sessions, NEW u \in Users,
         iholder[s] = u, iholder'[s] = u
  PROVE  /\ upc'[u] \in {"waiting", "ready", "guarded", "cancelling", "dead"}
         /\ gpc'[u] \in {"off", "starting", "failed", "dead"}
<1>0. /\ UserTypes /\ RowTypes /\ RowShape /\ usess[u] = s
      /\ upc[u] \in {"waiting", "ready", "guarded", "cancelling", "dead"}
      /\ gpc[u] \in {"off", "starting", "failed", "dead"}
      /\ state[s] = "interrupt_requested" => mode[u] = "interrupt"
      /\ mode[u] \in AllModes \ {"off"}
  BY DEF ShapeInv, Types, TypeOK, RowTypes, Reserved, UserShape, UserTypes
<1>1. CASE UNCHANGED users
  BY <1>0, <1>1 DEF users
<1>2. ASSUME NEW v \in Users, UserStep(v) \/ GuardianStep(v), v # u
      PROVE  upc'[u] = upc[u] /\ gpc'[u] = gpc[u]
  BY <1>0, <1>2 DEF UserTypes, UAt, GAt, users, Opens, UserStep,
     RequestInterrupt, TakeStopped, OpenIdle, OpenShared, Reserve,
     ReserveRefused, HandedOver, GiveUp, Cancel, ReleaseOwn, StartGuardian,
     RevalidationFails, GuardianExited, UserDies, GuardianStep, Adopt,
     SpawnGated, RegisterChild, OpenInteractive, RenewGuardian,
     ReapInteractive, Finish, HandBack, GuardianDies, OrphanInteractiveExits
<1>3. ~Cancel(u)
  <2>1. SUFFICES ASSUME Cancel(u) PROVE FALSE
    OBVIOUS
  <2>2. state[s] \in {"interrupt_requested", "ready_interactive"}
    BY <1>0, Names DEF RowShape, Shape, RowTypes, RowStates
  <2>3. /\ CancelRow(u) /\ iholder[usess[u]] = u
        /\ \/ mode[u] \in {"interrupt", "takeover"}
           \/ mode[u] \in {"stopped", "stopped_shared"}
              /\ state[s] = "ready_interactive"
           \/ mode[u] \in {"idle", "shared"} /\ state[s] = "ready_interactive"
    BY <1>0, <2>1, <2>2 DEF Cancel, AllModes, ReserveModes, SharedModes
  <2>4. iholder' = [iholder EXCEPT ![s] = None]
    BY <1>0, <2>2, <2>3 DEF CancelRow, Rest, DeleteRow, SetRow
  <2> QED BY <1>0, <2>4, Names DEF RowTypes
<1>4. CASE UserStep(u)
  BY <1>0, <1>3, <1>4 DEF UserTypes, UAt, GAt, Opens, UserStep,
     RequestInterrupt, TakeStopped, OpenIdle, OpenShared, Reserve,
     ReserveRefused, HandedOver, GiveUp, ReleaseOwn, StartGuardian,
     RevalidationFails, GuardianExited, UserDies
<1>5. CASE GuardianStep(u)
  <2>1. CASE Adopt(u)
    <3>1. ~CanAdopt(u)
      <4>1. SUFFICES ASSUME CanAdopt(u) PROVE FALSE
        OBVIOUS
      <4>2. iholder'[s] = Guardian[u]
        BY <1>0, <2>1, <4>1 DEF Adopt, SetRow, RowTypes
      <4> QED BY <4>2, Names
    <3> QED BY <1>0, <2>1, <3>1 DEF Adopt, GAt, UserTypes
  <2> QED
    BY <1>0, <1>5, <2>1 DEF UserTypes, GAt, users, GuardianStep, SpawnGated,
       RegisterChild, OpenInteractive, RenewGuardian, ReapInteractive, Finish,
       HandBack, GuardianDies, OrphanInteractiveExits
<1> QED BY <1>0, <1>1, <1>2, <1>4, <1>5, UserFootprint

LEMMA ReservedStep ==
  ASSUME ShapeInv, [Next]_vars
  PROVE  Reserved'
<1>0. /\ UserTypes /\ RowTypes /\ RowShape /\ Reserved /\ RowTypes' /\ RowShape'
      /\ UserShape
  BY RowStep DEF ShapeInv, Types, TypeOK, RowTypes
<1> SUFFICES ASSUME NEW s \in Sessions, NEW u \in Users, iholder'[s] = u
             PROVE  /\ usess'[u] = s
                    /\ upc'[u] \in {"waiting", "ready", "guarded",
                                    "cancelling", "dead"}
                    /\ gpc'[u] \in {"off", "starting", "failed", "dead"}
                    /\ state'[s] = "interrupt_requested" =>
                         mode'[u] = "interrupt"
  BY DEF Reserved
<1>1. ASSUME NEW v \in Users, RequestInterrupt(v, s), iholder'[s] = v
      PROVE  /\ v = u /\ usess'[u] = s /\ upc'[u] = "waiting"
             /\ gpc'[u] = "off" /\ mode'[u] = "interrupt"
  BY <1>0, <1>1 DEF RequestInterrupt, Opens, UAt, UserTypes, UserShape
<1>2. ASSUME NEW v \in Users, s = usess[v], Reserve(v), iholder'[s] = v
      PROVE  /\ v = u /\ usess'[u] = s /\ upc'[u] = "ready"
             /\ gpc'[u] = "off" /\ state'[s] = "ready_interactive"
  BY <1>0, <1>2 DEF Reserve, UAt, UserTypes, UserShape, SetRow, RowTypes
<1>3. CASE iholder[s] = u
  <2>1. /\ usess[u] = s /\ upc[u] # "off"
        /\ state[s] = "interrupt_requested" => mode[u] = "interrupt"
    BY <1>0, <1>3 DEF Reserved
  <2>2. usess'[u] = s /\ mode'[u] = mode[u]
    BY <2>1, UserMoves
  <2>3. CASE state'[s] = "interrupt_requested" /\ state[s] # "interrupt_requested"
    <3>1. PICK v \in Users : RequestInterrupt(v, s)
      BY <2>3, HolderWrites
    <3>2. iholder'[s] = v
      BY <1>0, <3>1 DEF RequestInterrupt, SetRow, RowTypes
    <3> QED BY <1>1, <3>1, <3>2
  <2> QED BY <1>3, <2>1, <2>2, <2>3, ReservedMoves
<1> QED BY <1>1, <1>2, <1>3, HolderWrites, Names

LEMMA GuardedStep ==
  ASSUME ShapeInv, [Next]_vars
  PROVE  Guarded'
<1>0. /\ UserTypes /\ RowTypes /\ RowShape /\ Guarded /\ UserShape
  BY DEF ShapeInv, Types, TypeOK, RowTypes
<1> DEFINE OwnsRow(p) == p \in {"adopted", "gated", "registered", "live",
                               "reaped", "dead"}
<1> SUFFICES ASSUME NEW s \in Sessions, NEW u \in Users,
                    iholder'[s] = Guardian[u]
             PROVE  usess'[u] = s /\ OwnsRow(gpc'[u])
  BY DEF Guarded
<1>1. ASSUME NEW v \in Users, Adopts(v, s), iholder'[s] = Guardian[v]
      PROVE  v = u /\ usess'[u] = s /\ gpc'[u] = "adopted"
  BY <1>0, <1>1, HolderNames DEF Adopts, Adopt, GAt, UserTypes
<1>2. CASE iholder[s] = Guardian[u]
  <2>1. usess[u] = s /\ OwnsRow(gpc[u]) /\ upc[u] # "off"
    BY <1>0, <1>2 DEF Guarded, UserShape
  <2>2. usess'[u] = s
    BY <2>1, UserMoves
  <2>3. state[s] \in {"interactive", "stop_requested"}
    BY <1>0, <1>2, Names DEF RowShape, Shape, RowTypes, RowStates
  <2>4. CASE UNCHANGED users
    BY <2>1, <2>4 DEF users
  <2>5. ASSUME NEW v \in Users, UserStep(v) \/ GuardianStep(v), v # u
        PROVE  gpc'[u] = gpc[u]
    BY <1>0, <2>5 DEF UserTypes, GAt, users, Opens, UserStep,
     RequestInterrupt, TakeStopped, OpenIdle, OpenShared, Reserve,
     ReserveRefused, HandedOver, GiveUp, Cancel, ReleaseOwn, StartGuardian,
     RevalidationFails, GuardianExited, UserDies, GuardianStep, Adopt,
     SpawnGated, RegisterChild, OpenInteractive, RenewGuardian,
     ReapInteractive, Finish, HandBack, GuardianDies, OrphanInteractiveExits
  <2>6. CASE UserStep(u)
    BY <1>0, <2>1, <2>6 DEF UserTypes, GAt, Opens, UserStep, UserShape,
     RequestInterrupt, TakeStopped, OpenIdle, OpenShared, Reserve,
     ReserveRefused, HandedOver, GiveUp, Cancel, ReleaseOwn, StartGuardian,
     RevalidationFails, GuardianExited, UserDies
  <2>7. ~Finish(u)
    <3>1. SUFFICES ASSUME Finish(u) PROVE FALSE
      OBVIOUS
    <3>2. EndInteractive(u, s)
      BY <1>2, <2>1, <2>3, <3>1 DEF Finish, OwnedBy
    <3>3. iholder'[s] = None
      BY <1>0, <3>2 DEF EndInteractive, Rest, SetRow, RowTypes
    <3> QED BY <3>3, Names
  <2>8. CASE GuardianStep(u)
    BY <1>0, <2>1, <2>7, <2>8 DEF UserTypes, GAt, users, GuardianStep, Adopt,
     SpawnGated, RegisterChild, OpenInteractive, RenewGuardian,
     ReapInteractive, HandBack, GuardianDies, OrphanInteractiveExits
  <2> QED BY <2>1, <2>2, <2>4, <2>5, <2>6, <2>8, UserFootprint
<1> QED BY <1>1, <1>2, HolderWrites, Names

LEMMA ExcusedKept ==
  ASSUME ShapeInv, [Next]_vars, NEW s, Excused(s)
  PROVE  Excused(s)'
<1>1. PICK u \in Users : usess[u] = s /\ mode[u] = "stopped_shared"
  BY DEF Excused
<1>2. usess'[u] = s /\ mode'[u] = "stopped_shared"
  BY <1>1, UserMoves
<1> QED BY <1>2 DEF Excused

\* A stopped session: its row, read through its owner, says that it rests.
LEMMA ParkedStep ==
  ASSUME ShapeInv, [Next]_vars
  PROVE  ParkedShape'
<1>0. /\ UserTypes /\ RowTypes /\ RowShape /\ Guarded /\ UserShape /\ Reserved
      /\ ParkedShape /\ RowTypes' /\ RowShape'
  BY RowStep DEF ShapeInv, Types, TypeOK, RowTypes
<1> DEFINE Good == {"stopped", "ready_interactive", "interactive",
                    "stop_requested"}
           Owner(u, st, h, m, d) ==
             /\ st = "ready_interactive" /\ h = u =>
                  m = "stopped" /\ d # "resume_exec"
             /\ st = "interactive" /\ h = Guardian[u] => d # "resume_exec"
<1> SUFFICES ASSUME NEW s \in parked', ~Excused(s)'
             PROVE  /\ token'[s] # None /\ state'[s] \in Good
                    /\ \A u \in Users : Owner(u, state'[s], iholder'[s],
                                              mode'[u], disp'[u])
  BY DEF ParkedShape
<1> DEFINE Goal == /\ token'[s] # None /\ state'[s] \in Good
                   /\ \A u \in Users : Owner(u, state'[s], iholder'[s],
                                             mode'[u], disp'[u])
<1>1. s \in Sessions /\ ~Excused(s)
  BY <1>0, ExcusedKept DEF RowTypes
<1>2. s \in parked =>
        /\ token[s] # None /\ state[s] \in Good
        /\ \A u \in Users : Owner(u, state[s], iholder[s], mode[u], disp[u])
  BY <1>0, <1>1 DEF ParkedShape
<1>3. \A u \in Users : iholder[s] \in {u, Guardian[u]} =>
        mode'[u] = mode[u] /\ disp'[u] = disp[u]
  <2> SUFFICES ASSUME NEW u \in Users, iholder[s] \in {u, Guardian[u]}
               PROVE  mode'[u] = mode[u] /\ disp'[u] = disp[u]
    OBVIOUS
  <2>1. upc[u] \notin {"off", "reserving"}
    BY <1>0, <1>1 DEF Reserved, Guarded, UserShape
  <2> QED BY <2>1, UserMoves
<1>4. CASE SameRow(s)
  BY <1>2, <1>3, <1>4 DEF SameRow
<1>5. ASSUME NEW r \in Runs, Starts(r, s) PROVE FALSE
  <2>1. s \in parked
    BY <1>5 DEF Starts, RegisterKnown, Announce
  <2> QED BY <1>2, <1>5, <2>1 DEF Starts, Resting
<1>6. CASE Asks(s)
  <2>1. s \in parked
    BY <1>6 DEF Asks
  <2> QED BY <1>0, <1>1, <1>2, <1>6, <2>1 DEF Asks, SetRow, RowTypes
<1>7. CASE Exits(s)
  <2>1. CASE s \in parked
    BY <1>0, <1>1, <1>2, <1>7, <2>1, ExitStates, Names
       DEF Exits, Rest, SetRow, RowTypes
  <2>2. CASE s \notin parked
    BY <1>0, <1>1, <1>7, <2>2, ExitStates, Names
       DEF Exits, Rest, SetRow, RowTypes
  <2> QED BY <2>1, <2>2
<1>8. ASSUME Rests(s) PROVE FALSE
  BY <1>2, <1>8 DEF Rests, Resting
<1>9. ASSUME NEW u \in Users, RequestInterrupt(u, s) PROVE FALSE
  BY <1>2, <1>9 DEF RequestInterrupt
<1>10. ASSUME NEW u \in Users, s = usess[u], Reserve(u) PROVE Goal
  <2>1. s \in parked /\ mode[u] # "takeover" /\ mode[u] \in ReserveModes
        /\ mode[u] # "stopped_shared"
    BY <1>0, <1>1, <1>10 DEF Reserve, UserShape, Excused
  <2>2. mode[u] = "stopped"
    <3>1. mode[u] \in {"idle", "shared"} => state[s] = "none"
      BY <1>10 DEF Reserve, CanReserve
    <3> QED BY <1>2, <2>1, <3>1 DEF ReserveModes, SharedModes
  <2>3. state[s] = "stopped"
    BY <1>2, <1>10, <2>1, <2>2 DEF Reserve, CanReserve
  <2>4. /\ disp' = [disp EXCEPT ![u] = "preserve"] /\ UNCHANGED mode
        /\ state'[s] = "ready_interactive" /\ iholder'[s] = u
        /\ token'[s] = token[s]
    BY <1>0, <1>1, <1>10, <2>2, <2>3 DEF Reserve, Dispositions, SetRow, RowTypes
  <2> QED BY <1>0, <1>2, <2>1, <2>2, <2>4 DEF UserTypes
<1>11. ASSUME NEW u \in Users, Withdraws(u, s) PROVE Goal
  <2>1. s \in parked
    BY <1>11 DEF Withdraws
  <2>2. state[s] = "ready_interactive" /\ mode[u] = "stopped"
    BY <1>2, <1>11, <2>1 DEF Withdraws
  <2>3. Rest(s, "stopped")
    BY <1>11, <2>2 DEF Withdraws
  <2> QED BY <1>0, <1>1, <1>2, <2>1, <2>3 DEF Rest, SetRow, RowTypes
<1>12. ASSUME NEW u \in Users, Adopts(u, s) PROVE Goal
  <2>1. /\ s \in parked /\ UNCHANGED disp
        /\ state[s] = "ready_interactive" /\ iholder[s] = u
        /\ state'[s] = "interactive" /\ iholder'[s] = Guardian[u]
        /\ token'[s] = token[s]
    BY <1>0, <1>1, <1>12 DEF Adopts, Adopt, CanAdopt, SetRow, RowTypes
  <2> QED BY <1>2, <2>1, HolderNames
<1>13. ASSUME NEW u \in Users, RegistersChild(u, s) PROVE Goal
  <2>1. /\ s \in parked /\ UNCHANGED <<mode, disp>>
        /\ state'[s] = state[s] /\ iholder'[s] = iholder[s]
        /\ token'[s] = token[s]
    BY <1>0, <1>1, <1>13 DEF RegistersChild, RegisterChild, SetRow, RowTypes
  <2> QED BY <1>2, <2>1
<1>14. ASSUME NEW u \in Users, Finishes(u, s) PROVE Goal
  <2>1. /\ Rest(s, AfterInteractive(u, s))
        /\ s \in parked \/ (state[s] = "stop_requested" /\ token[s] # None)
        /\ state[s] \in {"interactive", "stop_requested"}
        /\ iholder[s] = Guardian[u]
    BY <1>14 DEF Finishes, EndInteractive
  <2>2. AfterInteractive(u, s) = "stopped" /\ token[s] # None
    BY <1>2, <2>1 DEF AfterInteractive
  <2> QED BY <1>0, <1>1, <2>1, <2>2 DEF Rest, SetRow, RowTypes
<1> QED BY <1>1, <1>4, <1>5, <1>6, <1>7, <1>8, <1>9, <1>10, <1>11, <1>12,
       <1>13, <1>14, RowChange DEF RowWrite

\* What a scheduler reads is a row as it is.
LEMMA ReadFacts ==
  ASSUME ShapeInv, NEW c \in Schedulers, NEW s \in Sessions, ReadRow(c, s)
  PROVE  \E n \in Snaps :
           /\ snap' = [snap EXCEPT ![c] = n]
           /\ n.s = s /\ n.st = state[s] /\ n.ch = child[s] /\ n.tk = token[s]
           /\ n.h = iholder[s] /\ n.l = ilaunch[s] /\ n.lh = lease
           /\ n.active <=> LeaseActive
<1>0. RowTypes /\ lease \in Holders \cup {None} /\ expired \in BOOLEAN
  BY DEF ShapeInv, Types, TypeOK, RowTypes
<1>1. LeaseActive \in BOOLEAN
  BY DEF LeaseActive
<1> DEFINE n == [s |-> s, st |-> state[s], ch |-> child[s], tk |-> token[s],
                 h |-> iholder[s], l |-> ilaunch[s], lh |-> lease,
                 active |-> LeaseActive]
<1>2. n \in Snaps
  BY <1>0, <1>1 DEF Snaps, RowTypes
<1>3. snap' = [snap EXCEPT ![c] = n]
  BY DEF ReadRow
<1> QED BY <1>1, <1>2, <1>3

\* Snapshots are taken and dropped by their scheduler.
LEMMA SnapWrites ==
  ASSUME [Next]_vars
  PROVE  \/ UNCHANGED snap
         \/ \E c \in Schedulers : \/ snap' = [snap EXCEPT ![c] = None]
                                 \/ \E s \in Sessions : ReadRow(c, s)
<1>1. ASSUME NEW r \in Runs, RunStep(r) PROVE UNCHANGED snap
  BY <1>1 DEF RunStep, AcquireJob, Launch, Withdraw, RegisterKnown,
     RegistrationRefused, ReleaseGate, Announce, PollControl, RenewRun, Reaped,
     Resolve, Settle, RecordRun, RunnerDies, SupervisorReaps, SupervisorDies,
     CodexExits, SupervisorFinalizes, SupervisorAbandons, DrainWorker,
     ResumeWorkerAcquires, ResumeWorkerReleases, ResumeWorkerRecovers,
     ResumeWorkerLeaves
<1>2. ASSUME NEW s \in Sessions, SessionStep(s) PROVE UNCHANGED snap
  BY <1>2 DEF SessionStep, RequestStop, RequestInteractiveStop, RequestResume,
     RegisterPlanning, RetireCompleted, ClearOrphanedRequest
<1>3. ASSUME NEW u \in Users, UserStep(u) PROVE UNCHANGED snap
  BY <1>3 DEF UserStep, RequestInterrupt, TakeStopped, OpenIdle, OpenShared,
     Reserve, ReserveRefused, HandedOver, GiveUp, Cancel, ReleaseOwn,
     StartGuardian, RevalidationFails, GuardianExited, UserDies
<1>4. ASSUME NEW u \in Users, GuardianStep(u) PROVE UNCHANGED snap
  BY <1>4 DEF GuardianStep, Adopt, SpawnGated, RegisterChild, OpenInteractive,
     RenewGuardian, ReapInteractive, Finish, HandBack, GuardianDies,
     OrphanInteractiveExits
<1>5. ASSUME NEW x \in Rescuers, RescuerStep(x) PROVE UNCHANGED snap
  BY <1>5 DEF RescuerStep, Attach, Claim, RescuerRenews, RescuerStops,
     RescuerFinalizes, RescuerLeaves, RescuerDies
<1>6. ASSUME NEW c \in Schedulers, SchedulerStep(c)
      PROVE  \/ snap' = [snap EXCEPT ![c] = None]
             \/ \E s \in Sessions : ReadRow(c, s)
  BY <1>6 DEF SchedulerStep, RecoverRow, LeaveRow
<1> QED BY <1>1, <1>2, <1>3, <1>4, <1>5, <1>6
       DEF Next, vars, LeaseExpires, ReclaimLease
LEMMA SnapChange ==
  ASSUME ShapeInv, [Next]_vars, NEW c \in Schedulers
  PROVE  \/ snap'[c] = snap[c] \/ snap'[c] = None
         \/ \E s \in Sessions : ReadRow(c, s)
<1>0. ReaderTypes
  BY DEF ShapeInv, Types
<1>1. ASSUME NEW d \in Schedulers, NEW s \in Sessions, ReadRow(d, s), d # c
      PROVE  snap'[c] = snap[c]
  BY <1>0, <1>1, ReadFacts DEF ReaderTypes
<1> QED BY <1>0, <1>1, SnapWrites DEF ReaderTypes

LEMMA SnapStep ==
  ASSUME ShapeInv, [Next]_vars
  PROVE  SnapShape' /\ snap' \in [Schedulers -> Snaps \cup {None}]
<1>0. ReaderTypes /\ SnapShape /\ RowShape /\ RowTypes
  BY DEF ShapeInv, Types, TypeOK, RowTypes
<1>1. snap' \in [Schedulers -> Snaps \cup {None}]
  BY <1>0, SnapWrites, ReadFacts DEF ReaderTypes
<1>2. ASSUME NEW c \in Schedulers, snap'[c] # None,
             snap'[c].st \in Automated, snap'[c].l = None
      PROVE  snap'[c].ch \in Runs /\ snap'[c].tk = snap'[c].ch
  <2>1. CASE snap'[c] = snap[c]
    BY <1>0, <1>2, <2>1 DEF SnapShape
  <2>2. ASSUME NEW s \in Sessions, ReadRow(c, s)
        PROVE  snap'[c].ch \in Runs /\ snap'[c].tk = snap'[c].ch
    <3>1. /\ snap'[c].ch = child[s] /\ snap'[c].tk = token[s]
          /\ snap'[c].st = state[s] /\ snap'[c].l = ilaunch[s]
      BY <1>0, <2>2, ReadFacts DEF ReaderTypes
    <3> QED BY <1>0, <1>2, <3>1, Names DEF RowShape, Shape, Automated
  <2> QED BY <1>2, <2>1, <2>2, SnapChange
<1> QED BY <1>1, <1>2 DEF SnapShape

LEMMA RescuerFootprint ==
  ASSUME [Next]_vars
  PROVE  UNCHANGED resc \/ \E x \in Rescuers : RescuerStep(x)
<1>1. ASSUME NEW r \in Runs, RunStep(r) PROVE UNCHANGED resc
  BY <1>1 DEF RunStep, AcquireJob, Launch, Withdraw, RegisterKnown,
     RegistrationRefused, ReleaseGate, Announce, PollControl, RenewRun, Reaped,
     Resolve, Settle, RecordRun, RunnerDies, SupervisorReaps, SupervisorDies,
     CodexExits, SupervisorFinalizes, SupervisorAbandons, DrainWorker,
     ResumeWorkerAcquires, ResumeWorkerReleases, ResumeWorkerRecovers,
     ResumeWorkerLeaves
<1>2. ASSUME NEW s \in Sessions, SessionStep(s) PROVE UNCHANGED resc
  BY <1>2 DEF SessionStep, RequestStop, RequestInteractiveStop, RequestResume,
     RegisterPlanning, RetireCompleted, ClearOrphanedRequest
<1>3. ASSUME NEW u \in Users, UserStep(u) PROVE UNCHANGED resc
  BY <1>3 DEF UserStep, RequestInterrupt, TakeStopped, OpenIdle, OpenShared,
     Reserve, ReserveRefused, HandedOver, GiveUp, Cancel, ReleaseOwn,
     StartGuardian, RevalidationFails, GuardianExited, UserDies
<1>4. ASSUME NEW u \in Users, GuardianStep(u) PROVE UNCHANGED resc
  BY <1>4 DEF GuardianStep, Adopt, SpawnGated, RegisterChild, OpenInteractive,
     RenewGuardian, ReapInteractive, Finish, HandBack, GuardianDies,
     OrphanInteractiveExits
<1>5. ASSUME NEW c \in Schedulers, SchedulerStep(c) PROVE UNCHANGED resc
  BY <1>5 DEF SchedulerStep, ReadRow, RecoverRow, LeaveRow
<1> QED BY <1>1, <1>2, <1>3, <1>4, <1>5
       DEF Next, vars, LeaseExpires, ReclaimLease

LEMMA ReaderStep ==
  ASSUME ShapeInv, [Next]_vars
  PROVE  ReaderTypes' /\ SnapShape'
<1>0. ReaderTypes /\ RowTypes
  BY DEF ShapeInv, Types, TypeOK, RowTypes
<1> DEFINE Goal ==
      /\ xpc' \in [Rescuers -> {"off", "attached", "supervising", "done", "dead"}]
      /\ xrun' \in [Rescuers -> Runs \cup {None}]
<1>1. CASE UNCHANGED resc
  BY <1>0, <1>1, SnapStep DEF ReaderTypes, resc
<1>2. ASSUME NEW x \in Rescuers, RescuerStep(x) PROVE Goal
  <2>1. ASSUME NEW s \in Sessions, Attach(x, s) PROVE Goal
    <3>1. child[s] \in Runs
      <4>1. state[s] \in Automated /\ ilaunch[s] = None /\ child[s] # None
        BY <2>1 DEF Attach, Recoverable
      <4> QED BY <4>1, Names DEF ShapeInv, RowShape, Shape, Automated
    <3> QED BY <1>0, <2>1, <3>1 DEF Attach, XAt, ReaderTypes
  <2> QED BY <1>0, <1>2, <2>1 DEF ReaderTypes, XAt, resc, RescuerStep, Claim,
       RescuerRenews, RescuerStops, RescuerFinalizes, RescuerLeaves,
       RescuerDies
<1> QED BY <1>1, <1>2, SnapStep, RescuerFootprint DEF ReaderTypes

LEMMA ShapeStep ==
  ASSUME ShapeInv, [Next]_vars
  PROVE  ShapeInv'
<1>1. env' \in Scenarios
  BY EnvStep DEF ShapeInv, Types
<1>2. TypeOK'
  BY RowStep, RunInvStep, UserInvStep, LeaseStep
     DEF TypeOK, RowTypes, RunTypes, GuardianTypes, LeaseMove
<1>3. Types' /\ SnapShape'
  BY <1>1, <1>2, UserInvStep, ReaderStep DEF Types
<1> QED BY <1>3, RowStep, RunInvStep, TokenStep, UserInvStep, ReservedStep,
       GuardedStep, LeaseOfUserStep, ParkedStep DEF ShapeInv

LEMMA ShapeInit == Init => ShapeInv
<1> SUFFICES ASSUME Init PROVE ShapeInv
  OBVIOUS
<1>1. TypeOK
  BY DEF Init, TypeOK, RowStates, Active, Holders
<1>2. UserTypes
  BY DEF Init, UserTypes, Places, GPlaces, AllModes, ReserveModes, SharedModes
<1>3. ReaderTypes
  BY DEF Init, ReaderTypes
<1>4. RowShape /\ RunShape /\ TokenShape
  BY Names DEF Init, RowShape, Shape, RunShape, TokenShape
<1>5. WorkerShape /\ UserShape /\ GuardianShape
  BY DEF Init, WorkerShape, UserShape, GuardianShape, Active, SharedModes
<1>6. Reserved /\ Guarded /\ LeaseOfUser
  BY Names DEF Init, Reserved, Guarded, LeaseOfUser
<1>7. SnapShape /\ ParkedShape
  BY DEF Init, SnapShape, ParkedShape
<1> QED BY <1>1, <1>2, <1>3, <1>4, <1>5, <1>6, <1>7
       DEF ShapeInv, Types, Init

\* The rows of session_controls and the processes that own them fit together
\* in every state, whatever dies or stalls.
THEOREM ShapeInvariant == Spec => []ShapeInv
<1>1. ShapeInv /\ [Next]_vars => ShapeInv'
  BY ShapeStep
<1> QED BY <1>1, ShapeInit, PTL DEF Spec

\* The columns of a row, the lease and the processes always have their values.
THEOREM SessionTypes == Spec => []TypeOK
<1>1. ShapeInv => TypeOK
  BY DEF ShapeInv, Types
<1> QED BY <1>1, ShapeInvariant, PTL

\* An attempt to open a session that is over holds neither the project lease
\* nor a row, however its timeout raced the hand-off (tui.rs,
\* cancel_session_interrupt_handoff).
THEOREM ReservationsEnd == Spec => []NoReservationLeftBehind
<1>1. ShapeInv => NoReservationLeftBehind
  BY DEF ShapeInv, NoReservationLeftBehind, LeaseOfUser, Reserved
<1> QED BY <1>1, ShapeInvariant, PTL

\* A session that was stopped on request stays stopped until it is resumed or
\* taken over, whoever opens it and crashes in between.
THEOREM StopsStand == Spec => []StopStands
<1>1. ShapeInv => StopStands
  BY DEF ShapeInv, StopStands, ParkedShape, Excused
<1> QED BY <1>1, ShapeInvariant, PTL

\* A reservation starts from a row that nobody owns.
LEMMA ReserveFrom ==
  ASSUME ShapeInv, NEW u \in Users, Reserve(u)
  PROVE  usess[u] \in Sessions /\ state[usess[u]] \in Resting
<1>1. mode[u] \in ReserveModes /\ usess[u] \in Sessions
  BY DEF ShapeInv, UserShape, Reserve
<1>2. CanReserve(u, usess[u])
  BY DEF Reserve
<1>3. CASE mode[u] = "takeover"
  BY <1>1, <1>2, <1>3 DEF CanReserve, Resting
<1>4. CASE mode[u] = "idle"
  BY <1>1, <1>2, <1>4 DEF CanReserve, Resting
<1>5. CASE mode[u] = "stopped"
  BY <1>1, <1>2, <1>5 DEF CanReserve, Resting
<1>6. CASE mode[u] = "shared"
  BY <1>1, <1>2, <1>6 DEF CanReserve, Resting
<1>7. CASE mode[u] = "stopped_shared"
  BY <1>1, <1>2, <1>7 DEF CanReserve, Resting
<1> QED BY <1>1, <1>3, <1>4, <1>5, <1>6, <1>7 DEF ReserveModes, SharedModes

\* No exit, crash or recovery loses a stop or a hand-off that was asked for.
THEOREM RequestsKept == Spec => RequestsAreKept
<1>1. ASSUME ShapeInv, [Next]_vars, NEW s \in Sessions
      PROVE  StopKept(s) /\ InterruptKept(s)
  <2>0. RowTypes /\ RowShape
    BY <1>1 DEF ShapeInv, Types, TypeOK, RowTypes
  <2>1. CASE SameRow(s)
    BY <2>1 DEF SameRow, StopKept, InterruptKept
  <2>2. CASE Asks(s) \/ Rests(s) \/ \E r \in Runs : Starts(r, s)
    BY <2>2 DEF Asks, Rests, Starts, Resting, StopKept, InterruptKept
  <2>3. CASE Exits(s)
    BY <2>0, <2>3, ExitStates DEF Exits, Rest, DeleteRow, SetRow, RowTypes,
       StopKept, InterruptKept
  <2>4. ASSUME NEW u \in Users,
               \/ RequestInterrupt(u, s) \/ Adopts(u, s) \/ RegistersChild(u, s)
               \/ s = usess[u] /\ Reserve(u)
        PROVE  state[s] \notin {"stop_requested", "interrupt_requested"}
    <3>1. CASE RequestInterrupt(u, s) \/ Adopts(u, s) \/ RegistersChild(u, s)
      BY <3>1 DEF RequestInterrupt, Adopts, CanAdopt, RegistersChild,
         CanRegisterChild
    <3>2. CASE s = usess[u] /\ Reserve(u)
      BY <1>1, <3>2, ReserveFrom DEF Resting
    <3> QED BY <2>4, <3>1, <3>2
  <2>5. ASSUME NEW u \in Users, Withdraws(u, s)
        PROVE  StopKept(s) /\ InterruptKept(s)
    BY <2>0, <2>5 DEF Withdraws, SetRow, RowTypes, StopKept, InterruptKept
  <2>6. ASSUME NEW u \in Users, Finishes(u, s)
        PROVE  StopKept(s) /\ InterruptKept(s)
    BY <2>0, <2>6 DEF Finishes, EndInteractive, AfterInteractive, Rest, SetRow,
       RowTypes, StopKept, InterruptKept
  <2> QED BY <1>1, <2>1, <2>2, <2>3, <2>4, <2>5, <2>6, RowChange
         DEF RowWrite, StopKept, InterruptKept
<1>2. ShapeInv /\ [Next]_vars
        => [\A s \in Sessions : StopKept(s) /\ InterruptKept(s)]_vars
  BY <1>1
<1> QED BY <1>2, ShapeInvariant, PTL DEF Spec, RequestsAreKept

-----------------------------------------------------------------------------
(* Layer two is inductive.                                                 *)

\* The places of a run that matter to the fence.
LEMMA Advances ==
  ASSUME ShapeInv, [Next]_vars, NEW r \in Runs
  PROVE  /\ rpc'[r] \in Holding \cup {"recording"} =>
              \/ rpc[r] \in Holding \cup {"recording"}
              \/ lease' = r /\ ~expired'
         /\ rpc[r] = "recording" => rpc'[r] \in {"recording", "done", "dead"}
         /\ rpc'[r] = "registered" => rpc[r] = "registered" \/ RegisterKnown(r)
         /\ codex'[r] = "live" =>
              \/ codex[r] = "live" \/ rpc[r] = "registered"
              \/ sess'[r] = None
         /\ \/ sess'[r] = sess[r] \/ rpc'[r] \in {"acquired", "waiting"}
            \/ Announce(r, sess'[r]) /\ sess'[r] \in Sessions
<1>0. RunTypes /\ RunShape
  BY DEF ShapeInv, Types, TypeOK, RunTypes
<1>1. CASE UNCHANGED <<runs, workers>>
  BY <1>1 DEF runs
<1>2. ASSUME NEW q \in Runs, RunStep(q), q # r
      PROVE  rpc'[r] = rpc[r] /\ sess'[r] = sess[r] /\ codex'[r] = codex[r]
  BY <1>0, <1>2
     DEF RunTypes, At, runs, RunStep, AcquireJob, Launch, Withdraw,
     RegisterKnown, RegistrationRefused, ReleaseGate, Announce, PollControl,
     RenewRun, Reaped, Resolve, Settle, RecordRun, RunnerDies, SupervisorReaps,
     SupervisorDies, CodexExits, SupervisorFinalizes, SupervisorAbandons,
     DrainWorker, ResumeWorkerAcquires, ResumeWorkerReleases,
     ResumeWorkerRecovers, ResumeWorkerLeaves
<1>3. CASE RunStep(r)
  <2> USE <1>0 DEF RunTypes, RunShape, Active, At, Holding, Launched
  <2>1. CASE \E s \in Sessions \cup {None} : AcquireJob(r, s)
    BY <2>1 DEF AcquireJob, WriteLease
  <2>2. CASE Launch(r) \/ Withdraw(r) \/ RegisterKnown(r)
             \/ RegistrationRefused(r)
    BY <2>2 DEF Launch, Withdraw, RegisterKnown, RegistrationRefused
  <2>3. CASE ReleaseGate(r)
    BY <2>3 DEF ReleaseGate
  <2>4. ASSUME NEW s \in Sessions, Announce(r, s)
        PROVE  \/ sess'[r] = s /\ rpc'[r] = rpc[r]
               \/ sess'[r] = sess[r] /\ rpc'[r] = "stopping"
    BY <2>4 DEF Announce
  <2>5. CASE \E s \in Sessions : Announce(r, s)
    BY <2>4, <2>5 DEF Announce
  <2>6. CASE PollControl(r) \/ RenewRun(r) \/ Reaped(r)
             \/ \E retry \in BOOLEAN : Resolve(r, retry)
    BY <2>6 DEF PollControl, RenewRun, Reaped, Resolve
  <2>7. CASE Settle(r) \/ RecordRun(r) \/ RunnerDies(r) \/ SupervisorReaps(r)
             \/ SupervisorDies(r) \/ CodexExits(r)
    BY <2>7 DEF Settle, RecordRun, RunnerDies, SupervisorReaps, SupervisorDies,
       CodexExits
  <2>8. CASE SupervisorFinalizes(r) \/ SupervisorAbandons(r) \/ DrainWorker(r)
    BY <2>8 DEF SupervisorFinalizes, SupervisorAbandons, DrainWorker
  <2>9. CASE ResumeWorkerAcquires(r)
    BY <2>9 DEF ResumeWorkerAcquires, WriteLease
  <2>10. CASE ResumeWorkerReleases(r) \/ ResumeWorkerRecovers(r)
              \/ ResumeWorkerLeaves(r)
    BY <2>10 DEF ResumeWorkerReleases, ResumeWorkerRecovers, ResumeWorkerLeaves,
       runs
  <2> QED BY <1>3, <2>1, <2>2, <2>3, <2>5, <2>6, <2>7, <2>8, <2>9, <2>10
         DEF RunStep
<1>4. CASE Spawns
  <2>1. ASSUME NEW u \in Users, ReleaseOwn(u) \/ HandBack(u),
               SpawnResume(usess[u])
        PROVE  /\ UNCHANGED codex
               /\ \/ rpc'[r] = rpc[r] /\ sess'[r] = sess[r]
                  \/ rpc[r] = "off" /\ rpc'[r] = "waiting"
    BY <1>0, <2>1 DEF SpawnResume, ReleaseOwn, HandBack, At, RunTypes
  <2>2. ASSUME NEW x \in Rescuers, RescuerStops(x)
        PROVE  rpc'[r] = rpc[r] /\ sess'[r] = sess[r]
               /\ (codex'[r] = "live" => codex[r] = "live")
    BY <1>0, <2>2 DEF RescuerStops, RunTypes
  <2> QED BY <1>4, <2>1, <2>2 DEF Spawns, Holding, Launched
<1> QED BY <1>1, <1>2, <1>3, <1>4, RunFootprint

\* The row of a run: what its child column says about the others.
LEMMA RunRow ==
  ASSUME RowTypes, RowShape, NEW s \in Sessions, child[s] \in Runs
  PROVE  state[s] \in Automated /\ token[s] = child[s] /\ ilaunch[s] = None
BY Names DEF RowTypes, RowShape, Shape, RowStates, Automated

LEMMA GuardianRow ==
  ASSUME RowTypes, RowShape, NEW s \in Sessions, NEW u \in Users,
         child[s] = Guardian[u]
  PROVE  /\ state[s] \in {"interactive", "stop_requested"}
         /\ iholder[s] = Guardian[u]
BY Names DEF RowTypes, RowShape, Shape, RowStates

\* A run enters a child column when it starts, and in no other way.
LEMMA ChildWrites ==
  ASSUME ShapeInv, [Next]_vars, NEW s \in Sessions, child'[s] \in Runs
  PROVE  child'[s] = child[s] \/ Starts(child'[s], s)
<1>0. RowTypes
  BY DEF ShapeInv, Types, TypeOK, RowTypes
<1>1. CASE SameRow(s)
  BY <1>1 DEF SameRow
<1>2. ASSUME NEW r \in Runs, Starts(r, s) PROVE child'[s] = r
  BY <1>0, <1>2 DEF Starts, SetRow, RowTypes
<1>3. CASE Asks(s) \/ Rests(s) \/ Exits(s)
  BY <1>0, <1>3, Names
     DEF Asks, Rests, Exits, Rest, DeleteRow, SetRow, RowTypes
<1>4. CASE \E u \in Users : RequestInterrupt(u, s) \/ Withdraws(u, s)
                            \/ (s = usess[u] /\ Reserve(u))
  BY <1>0, <1>4, Names DEF RequestInterrupt, Withdraws, Reserve, Rest,
     DeleteRow, SetRow, RowTypes
<1>5. CASE \E u \in Users : Adopts(u, s) \/ RegistersChild(u, s)
                            \/ Finishes(u, s)
  BY <1>0, <1>5, Names DEF Adopts, Adopt, RegistersChild, RegisterChild,
     Finishes, EndInteractive, Rest, SetRow, RowTypes
<1> QED BY <1>1, <1>2, <1>3, <1>4, <1>5, RowChange DEF RowWrite

\* Why the generation r of a row is over.
Over(r, s) ==
  /\ codex[r] \notin {"gated", "live"} /\ UNCHANGED codex
  /\ \/ token'[s] = None
     \/ rpc[r] = "settling" /\ rpc'[r] = "recording"
     \/ sup[r] = "finalizing" \/ lease \in Rescuers \/ ~LeaseActive
     \/ \E c \in Schedulers :
          snap[c] # None /\ ~snap[c].active /\ snap[c].ch = r

\* complete_session_stop of a run meets the row of a guardian.
LateStop(r, s) ==
  /\ rpc[r] = "settling" /\ token[s] = r /\ MayFinalize(r)

\* A process leaves the child column when it is over, when its guardian
\* finishes, or by a late stop.
ChildLeaves(s) ==
  \/ child[s] \in Runs /\ Over(child[s], s)
  \/ \E u \in Users : Finishes(u, s)
  \/ child[s] \in Guardians /\ \E r \in Runs : LateStop(r, s)

LEMMA Absent ==
  ASSUME NEW r \in Runs, GroupAbsent(r)
  PROVE  codex[r] \notin {"gated", "live"}
BY Names DEF GroupAbsent

\* The steps of a run that end a generation.
LEMMA RunEnds ==
  ASSUME ShapeInv, NEW q \in Runs, RunStep(q), NEW s \in Sessions,
         child[s] # None, child'[s] # child[s]
  PROVE  ChildLeaves(s)
<1>0. /\ RowTypes /\ RowShape /\ RunTypes /\ RunShape /\ TokenShape
      /\ child[s] \in Runs \cup Guardians
  BY DEF ShapeInv, Types, TypeOK, RowTypes, RunTypes
<1>1. CASE RegisterKnown(q)
  <2>1. sess[q] \in Sessions /\ state[sess[q]] \in Resting
    BY <1>0, <1>1 DEF RegisterKnown, CanRegister, TodoSession, RunTypes, Resting
  <2>2. child[sess[q]] = None
    BY <1>0, <2>1 DEF RowShape, Shape, Resting
  <2> QED BY <1>0, <1>1, <2>1, <2>2 DEF RegisterKnown, SetRow, RowTypes
<1>2. ASSUME NEW p \in Sessions, Announce(q, p) PROVE FALSE
  <2>1. child[p] = None
    BY <1>0, <1>2 DEF Announce, Fresh, RowShape, Shape
  <2> QED BY <1>0, <1>2, <2>1 DEF Announce, SetRow, RowTypes, rows
<1>3. ASSUME NEW retry \in BOOLEAN, Resolve(q, retry) PROVE ChildLeaves(s)
  <2>1. /\ s = sess[q] /\ state[s] = "running" /\ token[s] = q /\ DeleteRow(s)
        /\ rpc[q] = "reaped" /\ UNCHANGED codex
    BY <1>0, <1>3 DEF Resolve, DeleteRow, SetRow, RowTypes, rows
  <2>2. child[s] = q /\ token'[s] = None /\ codex[q] \notin {"gated", "live"}
    BY <1>0, <2>1 DEF RowShape, Shape, RunShape, DeleteRow, SetRow, RowTypes
  <2> QED BY <2>1, <2>2 DEF ChildLeaves, Over
<1>4. CASE Settle(q)
  <2>1. /\ sess[q] # None /\ s = sess[q] /\ token[s] = q /\ rpc[q] = "settling"
        /\ rpc'[q] = "recording" /\ UNCHANGED codex
        /\ \/ state[s] = "stop_requested" /\ MayFinalize(q)
           \/ state[s] = "interrupt_requested"
    <3>1. CASE /\ seen[q] = "stop" /\ sess[q] # None /\ token[sess[q]] = q
               /\ state[sess[q]] = "stop_requested" /\ MayFinalize(q)
      <4>1. Rest(sess[q], "stopped")
        BY <1>4, <3>1 DEF Settle
      <4> QED BY <1>0, <1>4, <3>1, <4>1
             DEF Settle, Rest, SetRow, RowTypes, RunTypes, At
    <3>2. CASE /\ seen[q] = "interrupt" /\ sess[q] # None /\ token[sess[q]] = q
               /\ state[sess[q]] = "interrupt_requested" /\ lease = q
      <4>1. SetRow(sess[q], "ready_interactive", None, q, iholder[sess[q]],
                   None)
        BY <1>4, <3>2 DEF Settle
      <4> QED BY <1>0, <1>4, <3>2, <4>1
             DEF Settle, SetRow, RowTypes, RunTypes, At
    <3> QED BY <1>4, <3>1, <3>2 DEF Settle, rows
  <2>2. CASE child[s] \in Runs
    <3>1. child[s] = q
      BY <1>0, <2>1, <2>2, RunRow
    <3>2. codex[q] \notin {"gated", "live"}
      BY <1>0, <2>1 DEF RunShape
    <3> QED BY <2>1, <2>2, <3>1, <3>2 DEF ChildLeaves, Over
  <2>3. CASE child[s] \in Guardians
    <3>1. state[s] # "interrupt_requested"
      BY <1>0, <2>3, Names DEF RowShape, Shape
    <3> QED BY <2>1, <2>3, <3>1 DEF ChildLeaves, LateStop
  <2> QED BY <1>0, <2>2, <2>3
<1>5. CASE SupervisorFinalizes(q)
  <2>1. PICK p \in RowOf(q) : FinalizeAfterExit(p, q)
    BY <1>5 DEF SupervisorFinalizes
  <2>2. p = s
    BY <1>0, <2>1 DEF RowOf, FinalizeAfterExit, SetRow, RowTypes
  <2>3. child[s] = q /\ sup[q] = "finalizing" /\ UNCHANGED codex
    BY <1>5, <2>1, <2>2 DEF RowOf, SupervisorFinalizes
  <2>4. codex[q] = "gone"
    BY <1>0, <2>3 DEF RunShape
  <2> QED BY <2>3, <2>4 DEF ChildLeaves, Over
<1>6. CASE ResumeWorkerRecovers(q)
  <2>1. /\ s = sess[q] /\ state[s] = "running" /\ ~LeaseActive
        /\ GroupAbsent(child[s]) /\ UNCHANGED codex
    BY <1>0, <1>6 DEF ResumeWorkerRecovers, RecoverAutomated, Rest, SetRow,
       RowTypes, runs
  <2>2. child[s] \in Runs
    BY <1>0, <2>1 DEF RowShape, Shape
  <2> QED BY <2>1, <2>2, Absent DEF ChildLeaves, Over
<1> QED
  BY <1>1, <1>2, <1>3, <1>4, <1>5, <1>6
  DEF RunStep, AcquireJob, Launch, Withdraw, RegistrationRefused, ReleaseGate,
      PollControl, RenewRun, Reaped, RecordRun, RunnerDies, SupervisorReaps,
      SupervisorDies, CodexExits, SupervisorAbandons, DrainWorker,
      ResumeWorkerAcquires, ResumeWorkerReleases, ResumeWorkerLeaves, rows

\* The recoveries of a scheduler and of a replacement supervisor.
LEMMA RecoveryEnds ==
  ASSUME ShapeInv, NEW s \in Sessions, child[s] # None, child'[s] # child[s],
         \/ \E c \in Schedulers : SchedulerStep(c)
         \/ \E x \in Rescuers : RescuerStep(x)
  PROVE  ChildLeaves(s)
<1>0. /\ RowTypes /\ RowShape /\ ReaderTypes /\ SnapShape
      /\ child[s] \in Runs \cup Guardians
  BY DEF ShapeInv, Types, TypeOK, RowTypes
<1>1. ASSUME NEW c \in Schedulers, RecoverRow(c) PROVE ChildLeaves(s)
  <2>0. PICK n \in Snaps : n = snap[c]
    BY <1>0, <1>1 DEF RecoverRow, ReaderTypes
  <2>1. /\ n.s \in Sessions /\ UNCHANGED <<workers, runs, users, resc>>
        /\ n.st \in Automated /\ n.l = None => n.ch \in Runs /\ n.tk = n.ch
        /\ snap[c] # None
    BY <1>0, <1>1, <2>0 DEF RecoverRow, Snaps, SnapShape
  <2>2. ASSUME NEW u \in Users, NEW old \in BOOLEAN,
               RecoverIdle(n, u, old) \/ RecoverHandoff(n, u, old)
        PROVE  FALSE
    <3>1. state[n.s] = "ready_interactive"
      BY <2>2 DEF RecoverIdle, RecoverHandoff
    <3>2. child[n.s] = None
      BY <1>0, <2>1, <3>1 DEF RowShape, Shape
    <3> QED BY <1>0, <2>1, <2>2, <3>2
           DEF RecoverIdle, RecoverHandoff, Rest, DeleteRow, SetRow, RowTypes
  <2>3. ASSUME NEW u \in Users, NEW old \in BOOLEAN, RecoverGuardian(n, u, old)
        PROVE  ChildLeaves(s)
    <3>1. Finishes(u, n.s)
      BY <2>1, <2>3 DEF RecoverGuardian, SameGuardian, Finishes, users
    <3>2. n.s = s
      BY <1>0, <2>1, <3>1 DEF Finishes, EndInteractive, Rest, SetRow, RowTypes
    <3> QED BY <3>1, <3>2 DEF ChildLeaves
  <2>4. ASSUME RecoverRun(n) PROVE ChildLeaves(s)
    <3>1. /\ n.ch \in Runs /\ child[n.s] = n.ch /\ ~n.active /\ GroupAbsent(n.ch)
      BY <2>1, <2>4 DEF RecoverRun, SameRun
    <3>2. n.s = s
      BY <1>0, <2>1, <2>4 DEF RecoverRun, FinalizeAfterExit, RecoverAutomated,
         Rest, SetRow, RowTypes
    <3> QED BY <2>0, <2>1, <3>1, <3>2, Absent DEF ChildLeaves, Over, runs
  <2>5. \/ \E u \in Users, old \in BOOLEAN :
             \/ RecoverIdle(n, u, old) \/ RecoverGuardian(n, u, old)
             \/ RecoverHandoff(n, u, old)
        \/ RecoverRun(n)
    BY <1>1, <2>0 DEF RecoverRow
  <2> QED BY <2>2, <2>3, <2>4, <2>5
<1>2. ASSUME NEW x \in Rescuers, RescuerFinalizes(x) PROVE ChildLeaves(s)
  <2>1. PICK p \in RowOf(xrun[x]) : FinalizeAfterExit(p, x)
    BY <1>2 DEF RescuerFinalizes
  <2>2. p = s
    BY <1>0, <2>1 DEF RowOf, FinalizeAfterExit, SetRow, RowTypes
  <2>3. /\ child[s] = xrun[x] /\ lease \in Rescuers /\ UNCHANGED codex
        /\ GroupAbsent(child[s]) /\ state[s] \in Automated /\ token[s] = child[s]
    BY <1>2, <2>1, <2>2 DEF RowOf, RescuerFinalizes, Supervises, runs,
       FinalizeAfterExit
  <2>4. child[s] \in Runs
    BY <1>0, <2>3, Names DEF RowTypes
  <2> QED BY <2>3, <2>4, Absent DEF ChildLeaves, Over
<1> QED
  BY <1>1, <1>2
  DEF SchedulerStep, ReadRow, LeaveRow, RescuerStep, Attach, Claim,
      RescuerRenews, RescuerStops, RescuerLeaves, RescuerDies, rows

LEMMA ChildLoss ==
  ASSUME ShapeInv, [Next]_vars, NEW s \in Sessions,
         child[s] # None, child'[s] # child[s]
  PROVE  ChildLeaves(s)
<1>0. RowTypes /\ RowShape /\ UserTypes
  BY DEF ShapeInv, Types, TypeOK, RowTypes
<1>1. ASSUME RowWrite(s) PROVE Exits(s) \/ \E u \in Users : Finishes(u, s)
  <2>1. ASSUME state[s] \in Resting PROVE FALSE
    BY <1>0, <2>1 DEF RowShape, Shape, Resting
  <2>2. ASSUME state[s] = "ready_interactive" PROVE FALSE
    BY <1>0, <2>2 DEF RowShape, Shape
  <2>3. \A r \in Runs : ~Starts(r, s)
    BY <2>1 DEF Starts
  <2>4. ~Asks(s) /\ ~Rests(s)
    BY <1>0, <2>1 DEF Asks, Rests, SetRow, RowTypes
  <2>5. ASSUME NEW u \in Users
        PROVE  /\ ~RequestInterrupt(u, s) /\ ~(s = usess[u] /\ Reserve(u))
               /\ ~Withdraws(u, s) /\ ~Adopts(u, s) /\ ~RegistersChild(u, s)
    <3>1. ~RequestInterrupt(u, s)
      BY <1>0 DEF RequestInterrupt, SetRow, RowTypes
    <3>2. ~(s = usess[u] /\ Reserve(u))
      BY <2>1, ReserveFrom
    <3>3. ~Withdraws(u, s)
      BY <1>0, <2>2 DEF Withdraws, SetRow, RowTypes
    <3>4. ~Adopts(u, s)
      BY <2>2 DEF Adopts, CanAdopt
    <3>5. ~RegistersChild(u, s)
      BY DEF RegistersChild, CanRegisterChild
    <3> QED BY <3>1, <3>2, <3>3, <3>4, <3>5
  <2> QED BY <1>1, <2>3, <2>4, <2>5 DEF RowWrite
<1>2. ASSUME NEW u \in Users, UserStep(u) \/ GuardianStep(u) PROVE ~Exits(s)
  <2>1. SUFFICES ASSUME Exits(s) PROVE FALSE
    OBVIOUS
  <2>2. UNCHANGED users
    BY <2>1 DEF Exits
  <2>3. ~(UNCHANGED rows)
    BY DEF rows
  <2> QED
    BY <1>0, <1>2, <2>2, <2>3
    DEF users, UserTypes, UAt, GAt, Opens, UserStep, RequestInterrupt,
     TakeStopped, OpenIdle, OpenShared, Reserve, ReserveRefused, HandedOver,
     GiveUp, Cancel, ReleaseOwn, StartGuardian, RevalidationFails,
     GuardianExited, UserDies, GuardianStep, Adopt, SpawnGated, RegisterChild,
     OpenInteractive, RenewGuardian, ReapInteractive, Finish, HandBack,
     GuardianDies, OrphanInteractiveExits
<1>3. ASSUME NEW p \in Sessions, SessionStep(p) PROVE FALSE
  <2>1. RowWrite(p) /\ (Asks(p) \/ Rests(p))
    <3>1. CASE RequestStop(p) \/ RequestInteractiveStop(p)
      BY <3>1 DEF RequestStop, RequestInteractiveStop, RowWrite, Asks
    <3>2. CASE \/ RequestResume(p) \/ RegisterPlanning(p) \/ RetireCompleted(p)
               \/ ClearOrphanedRequest(p)
      <4>1. Rests(p)
        BY <1>0, <3>2 DEF RequestResume, RegisterPlanning, RetireCompleted,
           ClearOrphanedRequest, Rests, Resting, Rest, DeleteRow, Fresh
      <4> QED BY <4>1 DEF RowWrite
    <3> QED BY <1>3, <3>1, <3>2 DEF SessionStep
  <2>2. state[p] \in Resting => child[p] = None
    BY <1>0 DEF RowShape, Shape, Resting
  <2> QED BY <1>0, <2>1, <2>2 DEF Asks, Rests, SetRow, RowTypes
<1>4. ~SameRow(s) /\ RowWrite(s)
  BY RowChange DEF SameRow
<1>5. CASE \E u \in Users : Finishes(u, s)
  BY <1>5 DEF ChildLeaves
<1>6. CASE UNCHANGED rows
  BY <1>6 DEF rows
<1> QED BY <1>1, <1>2, <1>3, <1>4, <1>5, <1>6, RunEnds, RecoveryEnds
       DEF Next, vars, LeaseExpires, ReclaimLease

\* A run that has a row after a step had it before, or is starting.
LEMMA RowOfMoves ==
  ASSUME ShapeInv, [Next]_vars, NEW r \in Runs, NEW s \in RowOf(r)'
  PROVE  s \in RowOf(r) \/ rpc[r] \in {"gated", "running"}
<1>0. RowTypes /\ RowShape /\ s \in Sessions /\ child'[s] = r /\ token'[s] = r
  BY DEF ShapeInv, Types, TypeOK, RowTypes, RowOf
<1>1. CASE child[s] = r
  BY <1>0, <1>1, RunRow DEF RowOf
<1>2. CASE Starts(r, s)
  BY <1>2 DEF Starts, RegisterKnown, Announce
<1> QED BY <1>0, <1>1, <1>2, ChildWrites

\* The exit of a run's only row leaves it without one.
LEMMA RowOfEnds ==
  ASSUME ShapeInv, [Next]_vars, NEW r \in Runs, NEW s \in Sessions,
         token[s] = r, Exits(s)
  PROVE  RowOf(r)' = {}
<1>0. RowTypes /\ TokenShape /\ TokenShape' /\ sess' = sess
  BY TokenStep DEF ShapeInv, Types, TypeOK, RowTypes, Exits
<1>1. child'[s] = None
  BY <1>0 DEF Exits, Rest, DeleteRow, SetRow, RowTypes
<1>2. ASSUME NEW p \in RowOf(r)' PROVE FALSE
  <2>1. p \in Sessions /\ token'[p] = r /\ child'[p] = r
    BY <1>2 DEF RowOf
  <2>2. sess'[r] = p /\ sess[r] = s
    BY <1>0, <2>1 DEF TokenShape
  <2> QED BY <1>0, <1>1, <2>1, <2>2, Names
<1> QED BY <1>2

\* What it takes to move the lease of a run that renews it.
LEMMA SteadyLeaseKept ==
  ASSUME ShapeInv, SteadyInv, [Next]_vars, NEW r \in Runs \ MayStall,
         lease = r, ~expired,
         rpc[r] \notin {"done", "dead"}, rpc'[r] \notin {"done", "dead"},
         RowOf(r)' # {} \/ rpc'[r] # "recording"
  PROVE  lease' = r /\ ~expired'
<1>0. /\ RunTypes /\ RowTypes /\ RowShape /\ TokenShape /\ SteadySnap
      /\ r \notin Users \cup Guardians \cup Rescuers \cup {None}
  BY Names DEF ShapeInv, Types, TypeOK, RunTypes, RowTypes, SteadyInv
<1>1. ~Gone(r)
  BY <1>0, Names DEF Gone
<1>2. ~LeaseExpires
  BY <1>1 DEF LeaseExpires
<1>3. ASSUME Settle(r), rpc[r] = "settling", sess[r] \in Sessions,
             state[sess[r]] = "interrupt_requested", Exits(sess[r])
      PROVE  FALSE
  <2>1. rpc'[r] = "recording"
    BY <1>0, <1>3 DEF Settle, At, RunTypes
  <2>2. ~(UNCHANGED rows)
    BY <1>0, <1>3 DEF Exits, SetRow, RowTypes, rows
  <2>3. token[sess[r]] = r
    BY <1>3, <2>2 DEF Settle
  <2> QED BY <1>3, <2>1, <2>3, RowOfEnds
<1>4. ASSUME NEW c \in Schedulers, Recovers(c, r) PROVE FALSE
  BY <1>0, <1>4 DEF Recovers, SteadySnap
<1>5. ~Loses(r)
  BY <1>0, <1>1, <1>3, <1>4 DEF Loses
<1> QED BY <1>2, <1>5, LeaseStep DEF LeaseMove

LEMMA SteadyLeaseStep ==
  ASSUME ShapeInv, SteadyInv, [Next]_vars
  PROVE  SteadyLease'
<1>0. /\ RunTypes /\ RunTypes' /\ SteadyLease /\ MayStall' = MayStall
      /\ expired \in BOOLEAN
  BY EnvStep, RunInvStep DEF ShapeInv, Types, TypeOK, RunTypes, SteadyInv,
     MayStall
<1>1. ASSUME NEW r \in Runs \ MayStall,
             rpc'[r] \in Holding \/ (rpc'[r] = "recording" /\ RowOf(r)' # {})
      PROVE  lease' = r /\ ~expired'
  <2>1. rpc[r] \in Holding \cup {"recording"} \/ (lease' = r /\ ~expired')
    BY <1>1, Advances DEF Holding, Launched
  <2>2. CASE rpc[r] \in Holding \cup {"recording"}
    <3>1. lease = r /\ ~expired
      <4>1. CASE rpc[r] \in Holding
        BY <1>0, <4>1 DEF SteadyLease
      <4>2. CASE rpc[r] = "recording"
        <5>1. rpc'[r] = "recording" /\ RowOf(r)' # {}
          BY <1>1, <4>2, Advances DEF Holding, Launched
        <5>2. RowOf(r) # {}
          BY <4>2, <5>1, RowOfMoves
        <5> QED BY <1>0, <4>2, <5>2 DEF SteadyLease
      <4> QED BY <2>2, <4>1, <4>2
    <3>2. /\ rpc[r] \notin {"done", "dead"} /\ rpc'[r] \notin {"done", "dead"}
          /\ RowOf(r)' # {} \/ rpc'[r] # "recording"
      BY <1>1, <2>2 DEF Holding, Launched
    <3> QED BY <3>1, <3>2, SteadyLeaseKept
  <2> QED BY <2>1, <2>2
<1>2. ASSUME NEW r \in Runs \ MayStall, lease' = r, expired'
      PROVE  rpc'[r] \in {"done", "dead"}
  <2>1. lease = r
    BY <1>2, LeaseStep DEF LeaseMove
  <2>2. CASE expired
    BY <1>0, <2>1, <2>2, RunMoves DEF SteadyLease
  <2>3. CASE ~expired
    <3>1. LeaseExpires
      BY <1>0, <1>2, <2>1, <2>3, LeaseStep DEF LeaseMove
    <3>2. Gone(r)
      BY <2>1, <3>1 DEF LeaseExpires
    <3>3. rpc[r] \in {"done", "dead"}
      BY <3>2, Names DEF Gone
    <3> QED BY <3>3, RunMoves
  <2> QED BY <2>2, <2>3
<1> QED BY <1>0, <1>1, <1>2 DEF SteadyLease

LEMMA SteadyActive ==
  ASSUME ShapeInv, SteadyLease, NEW r \in Runs \ MayStall, rpc[r] \in Holding
  PROVE  LeaseActive /\ lease \notin Rescuers
<1>1. lease = r /\ ~expired /\ rpc[r] \notin {"done", "dead"}
  BY DEF SteadyLease, Holding, Launched
<1>2. ~Gone(r) /\ r # None /\ r \notin Rescuers
  BY <1>1, Names DEF Gone
<1> QED BY <1>1, <1>2 DEF LeaseActive, Reclaimable

LEMMA SteadyRowStep ==
  ASSUME ShapeInv, SteadyInv, [Next]_vars
  PROVE  SteadyRow'
<1>0. /\ RunTypes /\ RunShape /\ RowTypes /\ RowShape /\ TokenShape /\ SteadyRow
      /\ SteadySnap /\ SteadyLease /\ MayStall' = MayStall
  BY EnvStep DEF ShapeInv, Types, TypeOK, RunTypes, RowTypes, SteadyInv, MayStall
<1> SUFFICES ASSUME NEW r \in Runs \ MayStall, NEW s \in Sessions,
                    rpc'[r] \in Launched, token'[s] = r
             PROVE  child'[s] = r
  BY <1>0 DEF SteadyRow
<1>1. CASE token[s] = r
  <2>1. rpc[r] \notin {"off", "waiting", "acquired", "gated"}
    BY <1>0, <1>1 DEF TokenShape
  <2>2. rpc[r] \notin {"recording", "done", "dead"}
    BY RunMoves, Advances DEF Launched
  <2>3. rpc[r] \in Launched
    BY <1>0, <2>1, <2>2 DEF RunTypes, Active, Launched
  <2>4. child[s] = r /\ LeaseActive /\ lease \notin Rescuers
    BY <1>0, <1>1, <2>3, SteadyActive DEF SteadyRow, Holding
  <2>5. ASSUME child'[s] # r PROVE FALSE
    <3>1. ChildLeaves(s) /\ r \notin Guardians \cup {None}
      BY <2>4, <2>5, ChildLoss, Names
    <3>2. ~\E u \in Users : Finishes(u, s)
      BY <1>0, <2>4, RunRow, Names DEF Finishes, RowShape, Shape
    <3>3. Over(r, s)
      BY <2>4, <3>1, <3>2 DEF ChildLeaves
    <3>4. token'[s] # None /\ rpc'[r] # "recording" /\ sup[r] # "finalizing"
      BY <1>0, <2>3, <3>1 DEF Launched, RunShape
    <3>5. PICK c \in Schedulers :
            snap[c] # None /\ ~snap[c].active /\ snap[c].ch = r
      BY <2>4, <3>3, <3>4 DEF Over
    <3> QED BY <1>0, <2>2, <3>5 DEF SteadySnap
  <2> QED BY <2>5
<1>2. ASSUME NEW q \in Runs, Starts(q, s) PROVE child'[s] = r
  BY <1>0, <1>2 DEF Starts, SetRow, RowTypes
<1> QED BY <1>1, <1>2, TokenWrites, Names

LEMMA SteadySnapStep ==
  ASSUME ShapeInv, SteadyInv, [Next]_vars
  PROVE  SteadySnap'
<1>0. /\ ReaderTypes /\ RunTypes /\ RowTypes /\ RowShape /\ TokenShape
      /\ SteadySnap /\ SteadyLease /\ MayStall' = MayStall
  BY EnvStep DEF ShapeInv, Types, TypeOK, RunTypes, RowTypes, SteadyInv, MayStall
<1> SUFFICES ASSUME NEW c \in Schedulers, snap'[c] # None, ~snap'[c].active
             PROVE  /\ snap'[c].ch \in Runs \ MayStall =>
                         rpc'[snap'[c].ch] \in {"recording", "done", "dead"}
                    /\ snap'[c].lh \in Runs \ MayStall =>
                         rpc'[snap'[c].lh] \in {"done", "dead"}
  BY <1>0 DEF SteadySnap
<1>1. CASE snap'[c] = snap[c]
  <2>1. /\ snap[c].ch \in Runs \ MayStall =>
             rpc[snap[c].ch] \in {"recording", "done", "dead"}
        /\ snap[c].lh \in Runs \ MayStall =>
             rpc[snap[c].lh] \in {"done", "dead"}
    BY <1>0, <1>1 DEF SteadySnap
  <2> QED BY <1>1, <2>1, RunMoves, Advances
<1>2. ASSUME NEW s \in Sessions, ReadRow(c, s)
      PROVE  /\ snap'[c].ch \in Runs \ MayStall =>
                  rpc'[snap'[c].ch] \in {"recording", "done", "dead"}
             /\ snap'[c].lh \in Runs \ MayStall =>
                  rpc'[snap'[c].lh] \in {"done", "dead"}
  <2>1. /\ snap'[c].ch = child[s] /\ snap'[c].lh = lease /\ ~LeaseActive
        /\ UNCHANGED rpc
    BY <1>0, <1>2, ReadFacts DEF ReaderTypes, ReadRow, runs
  <2>2. ASSUME child[s] \in Runs \ MayStall
        PROVE  rpc[child[s]] \in {"recording", "done", "dead"}
    <3>1. token[s] = child[s]
      BY <1>0, <2>2, RunRow
    <3>2. rpc[child[s]] \notin {"off", "waiting", "acquired", "gated"}
      BY <1>0, <2>2, <3>1 DEF TokenShape
    <3>3. rpc[child[s]] \notin Holding
      BY <1>0, <2>1, <2>2, SteadyActive
    <3> QED BY <1>0, <2>2, <3>2, <3>3 DEF RunTypes, Active, Holding, Launched
  <2>3. ASSUME lease \in Runs \ MayStall
        PROVE  rpc[lease] \in {"done", "dead"}
    <3>1. expired \/ Gone(lease)
      BY <2>1, <2>3, Expiry, Names DEF LeaseActive
    <3> QED BY <1>0, <2>3, <3>1, Names DEF SteadyLease, Gone
  <2> QED BY <2>1, <2>2, <2>3
<1> QED BY <1>1, <1>2, SnapChange

LEMMA LeaseLostStep ==
  ASSUME ShapeInv, SteadyInv, [Next]_vars
  PROVE  LeaseLost'
<1>0. /\ UserTypes /\ UserShape /\ RowTypes /\ RowTypes' /\ TokenShape
      /\ LeaseLost /\ Guarded
  BY RowStep DEF ShapeInv, Types, TypeOK, RowTypes, SteadyInv
<1> SUFFICES ASSUME NEW s \in Sessions, NEW u \in Users,
                    iholder'[s] = Guardian[u], disp'[u] # "shared",
                    token'[s] # None
             PROVE  lease' # token'[s]
  BY DEF LeaseLost
<1>1. ASSUME NEW v \in Users, Adopts(v, s), iholder'[s] = Guardian[v]
      PROVE  lease' # token'[s]
  <2>1. v = u /\ disp'[u] = disp[u]
    BY <1>1, HolderNames DEF Adopts, Adopt
  <2>2. lease' = Guardian[u]
    BY <1>1, <2>1 DEF Adopts, Adopt, HoldsProjectLease, WriteLease
  <2> QED BY <1>0, <2>2, Names DEF RowTypes
<1>2. CASE iholder[s] = Guardian[u]
  <2>1. upc[u] \notin {"off", "reserving"}
    BY <1>0, <1>2 DEF Guarded, UserShape
  <2>2. disp[u] # "shared"
    BY <2>1, UserMoves
  <2>3. ~\E r \in Runs : Starts(r, s)
    BY <1>0, Names DEF Starts, SetRow, RowTypes
  <2>4. token'[s] = token[s] /\ token[s] \in Runs
    BY <1>0, <2>3, TokenWrites DEF RowTypes
  <2>5. lease # token[s]
    BY <1>0, <1>2, <2>2, <2>4, Names DEF LeaseLost
  <2>6. rpc[token[s]] \notin {"off", "waiting"}
    BY <1>0, <2>4 DEF TokenShape
  <2>7. ~Gains(token[s])
    BY <2>4, <2>6, Names DEF Gains
  <2> QED BY <2>4, <2>5, <2>7, LeaseStep DEF LeaseMove
<1> QED BY <1>1, <1>2, HolderWrites, Names

LEMMA RunFenceStep ==
  ASSUME ShapeInv, SteadyInv, [Next]_vars
  PROVE  RunFence'
<1>0. /\ RunTypes /\ RunTypes' /\ RunShape /\ RunShape' /\ RowTypes /\ RowTypes'
      /\ RowShape /\ RowShape' /\ RunFence
  BY RowStep, RunInvStep DEF ShapeInv, Types, TypeOK, RunTypes, RowTypes,
     SteadyInv
<1> SUFFICES ASSUME NEW r \in Runs, sess'[r] # None,
                    codex'[r] = "live" \/ rpc'[r] = "registered"
             PROVE  child'[sess'[r]] = r
  <2>1. ASSUME NEW s \in Sessions, child'[s] \in Runs
        PROVE  state'[s] \in Automated
    BY <1>0, <2>1, Names DEF RowTypes, RowShape, Shape, RowStates, Automated
  <2> QED BY <1>0, <2>1 DEF RunFence, RunTypes
<1>1. PICK s \in Sessions : s = sess'[r]
  BY <1>0 DEF RunTypes
<1>2. CASE Starts(r, s)
  BY <1>0, <1>1, <1>2 DEF Starts, SetRow, RowTypes
<1>3. CASE sess[r] = s /\ (codex[r] = "live" \/ rpc[r] = "registered")
  <2>1. child[s] = r /\ codex[r] \in {"live", "gated"}
    BY <1>0, <1>3, Names DEF RunFence, RunShape
  <2>2. ~Over(r, s) /\ r \notin Guardians \cup {None}
    BY <2>1, Names DEF Over
  <2>3. ~\E u \in Users : Finishes(u, s)
    BY <1>0, <2>1, RunRow, Names DEF Finishes, RowShape, Shape
  <2> QED BY <1>1, <2>1, <2>2, <2>3, ChildLoss DEF ChildLeaves
<1>4. rpc'[r] \notin {"acquired", "waiting"}
  BY <1>0 DEF RunShape
<1>5. CASE sess'[r] = sess[r]
  <2>1. CASE RegisterKnown(r)
    BY <1>0, <1>1, <1>5, <2>1 DEF RegisterKnown, SetRow, RowTypes
  <2> QED BY <1>1, <1>3, <1>5, <2>1, Advances
<1>6. CASE Announce(r, sess'[r]) /\ sess'[r] # sess[r]
  BY <1>0, <1>1, <1>6 DEF Announce, SetRow, RowTypes
<1> QED BY <1>4, <1>5, <1>6, Advances

LEMMA SteadyStep ==
  ASSUME ShapeInv, SteadyInv, [Next]_vars
  PROVE  SteadyInv'
BY SteadyLeaseStep, SteadyRowStep, SteadySnapStep, LeaseLostStep, RunFenceStep
   DEF SteadyInv

LEMMA SteadyInit == Init => SteadyInv
<1> SUFFICES ASSUME Init PROVE SteadyInv
  OBVIOUS
<1>1. SteadyLease /\ SteadyRow /\ SteadySnap
  BY Names DEF Init, SteadyLease, SteadyRow, SteadySnap, Holding, Launched
<1>2. LeaseLost /\ RunFence
  BY Names DEF Init, LeaseLost, RunFence
<1> QED BY <1>1, <1>2 DEF SteadyInv

\* A run that renews its lease keeps the project and its row until it has
\* settled it; a guardian that took the lease took it for good.
THEOREM SteadyInvariant == Spec => [](ShapeInv /\ SteadyInv)
<1>1. Init => ShapeInv /\ SteadyInv
  BY ShapeInit, SteadyInit
<1>2. ShapeInv /\ SteadyInv /\ [Next]_vars => (ShapeInv /\ SteadyInv)'
  BY ShapeStep, SteadyStep
<1> QED BY <1>1, <1>2, PTL DEF Spec

\* The row of a live automated Codex names it until it is reaped: no crash, no
\* stall, no recovery and no user ever frees the row before.  It needs no
\* assumption about who renews a lease.
THEOREM RunsFenced == Spec => []RunIsFenced
<1>1. SteadyInv => RunIsFenced
  BY Names DEF SteadyInv, RunFence, RunIsFenced, AutomatedOn
<1> QED BY <1>1, SteadyInvariant, PTL

\* Only a run that lost its lease unnoticed could complete the stop of the
\* guardian that has taken its session over.
LEMMA NoLateStop ==
  ASSUME Punctual, ShapeInv, SteadyInv, NEW s \in Sessions,
         child[s] \in Guardians, NEW r \in Runs
  PROVE  ~LateStop(r, s)
<1>0. /\ RowTypes /\ RowShape /\ Guarded /\ UserShape /\ SteadyRow /\ LeaseLost
      /\ env \in Scenarios
  BY DEF ShapeInv, Types, TypeOK, RowTypes, SteadyInv
<1>1. SUFFICES ASSUME LateStop(r, s) PROVE FALSE
  OBVIOUS
<1>2. rpc[r] = "settling" /\ token[s] = r /\ child[s] # r /\ MayFinalize(r)
  BY <1>1, Names DEF LateStop
<1>3. r \in MayStall
  BY <1>0, <1>2 DEF SteadyRow, Launched
<1>4. r \notin Inline /\ "shared" \notin Modes
  BY <1>0, <1>3 DEF Punctual, Inline, MayStall, Modes
<1>5. PICK u \in Users : child[s] = Guardian[u]
  BY DEF Guardians
<1>6. iholder[s] = Guardian[u]
  BY <1>0, <1>5, GuardianRow
<1>7. disp[u] # "shared"
  BY <1>0, <1>4 DEF UserShape
<1>8. lease # r
  BY <1>0, <1>2, <1>6, <1>7, Names DEF LeaseLost
<1> QED BY <1>2, <1>4, <1>8 DEF MayFinalize

\* The places of a guardian that matter to its fence.
LEMMA GuardianAdvances ==
  ASSUME ShapeInv, [Next]_vars, NEW u \in Users,
         gchild'[u] = "live" \/ gpc'[u] = "registered"
  PROVE  \/ /\ usess'[u] = usess[u]
            /\ gchild[u] = "live" \/ gpc[u] = "registered"
         \/ RegistersChild(u, usess[u]) /\ usess'[u] = usess[u]
<1>0. UserTypes /\ GuardianTypes /\ GuardianShape /\ UserShape
  BY DEF ShapeInv, Types, TypeOK, GuardianTypes
<1>1. CASE UNCHANGED users
  BY <1>1 DEF users
<1>2. ASSUME NEW v \in Users, UserStep(v) \/ GuardianStep(v), v # u
      PROVE  usess'[u] = usess[u] /\ gpc'[u] = gpc[u] /\ gchild'[u] = gchild[u]
  BY <1>0, <1>2 DEF UserTypes, GuardianTypes, GAt, users, Opens, UserStep,
     RequestInterrupt, TakeStopped, OpenIdle, OpenShared, Reserve,
     ReserveRefused, HandedOver, GiveUp, Cancel, ReleaseOwn, StartGuardian,
     RevalidationFails, GuardianExited, UserDies, GuardianStep, Adopt,
     SpawnGated, RegisterChild, OpenInteractive, RenewGuardian,
     ReapInteractive, Finish, HandBack, GuardianDies, OrphanInteractiveExits
<1>3. CASE UserStep(u)
  BY <1>0, <1>3 DEF UserTypes, GuardianTypes, GuardianShape, UserShape, GAt,
     Opens, UserStep, RequestInterrupt, TakeStopped, OpenIdle, OpenShared,
     Reserve, ReserveRefused, HandedOver, GiveUp, Cancel, ReleaseOwn,
     StartGuardian, RevalidationFails, GuardianExited, UserDies
<1>4. CASE GuardianStep(u)
  <2>1. CASE RegisterChild(u)
    BY <1>0, <2>1 DEF RegisterChild, RegistersChild, UserTypes, GuardianTypes,
       GuardianShape, GAt
  <2> QED
    BY <1>0, <1>4, <2>1 DEF UserTypes, GuardianTypes, GuardianShape, GAt, users,
     GuardianStep, Adopt, SpawnGated, OpenInteractive, RenewGuardian,
     ReapInteractive, Finish, HandBack, GuardianDies, OrphanInteractiveExits
<1> QED BY <1>1, <1>2, <1>3, <1>4, UserFootprint

LEMMA GuardianFenceStep ==
  ASSUME Punctual, ShapeInv, FenceInv, [Next]_vars
  PROVE  GuardianFence'
<1>0. /\ UserTypes /\ UserTypes' /\ UserShape /\ GuardianShape /\ UserShape'
      /\ GuardianShape' /\ RowTypes /\ RowTypes' /\ RowShape /\ RowShape'
      /\ GuardianFence /\ SteadyInv
  BY RowStep, UserInvStep DEF ShapeInv, Types, TypeOK, RowTypes, FenceInv
<1> SUFFICES ASSUME NEW u \in Users, gchild'[u] = "live" \/ gpc'[u] = "registered"
             PROVE  child'[usess'[u]] = Guardian[u] /\ usess'[u] \in Sessions
  <2>1. ASSUME NEW v \in Users, NEW s \in Sessions, child'[s] = Guardian[v]
        PROVE  state'[s] \in {"interactive", "stop_requested"}
    BY <1>0, <2>1, Names DEF RowTypes, RowShape, Shape, RowStates
  <2> QED BY <1>0, <2>1 DEF GuardianFence
<1>1. usess[u] \in Sessions /\ usess'[u] = usess[u]
  BY <1>0, GuardianAdvances DEF UserShape, GuardianShape, RegistersChild
<1>2. CASE gchild[u] = "live" \/ gpc[u] = "registered"
  <2>1. PICK s \in Sessions : s = usess[u]
    BY <1>1
  <2>2. child[s] = Guardian[u] /\ gchild[u] \in {"live", "gated"}
    BY <1>0, <1>2, <2>1 DEF GuardianFence, GuardianShape
  <2>3. Guardian[u] \in Guardians /\ Guardian[u] \notin Runs \cup {None}
    BY Names
  <2>4. ~GroupAbsent(Guardian[u])
    BY <2>2, <2>3, HolderNames DEF GroupAbsent
  <2>5. ~\E v \in Users : Finishes(v, s)
    BY <2>2, <2>3, <2>4 DEF Finishes
  <2>6. ~\E r \in Runs : LateStop(r, s)
    BY <1>0, <2>2, <2>3, NoLateStop
  <2> QED BY <1>1, <2>1, <2>2, <2>3, <2>5, <2>6, ChildLoss DEF ChildLeaves
<1>3. CASE RegistersChild(u, usess[u])
  BY <1>0, <1>1, <1>3 DEF RegistersChild, RegisterChild, SetRow, RowTypes
<1> QED BY <1>2, <1>3, GuardianAdvances

\* While the runs that must renew their lease do, the row of every live or
\* released Codex names it.
THEOREM FenceInvariant == Punctual => (Spec => [](ShapeInv /\ FenceInv))
<1> SUFFICES ASSUME Punctual PROVE Spec => [](ShapeInv /\ FenceInv)
  OBVIOUS
<1>1. Init => ShapeInv /\ FenceInv
  <2>1. Init => GuardianFence
    BY DEF Init, GuardianFence
  <2> QED BY <2>1, ShapeInit, SteadyInit DEF FenceInv
<1>2. ShapeInv /\ FenceInv /\ [Next]_vars => (ShapeInv /\ FenceInv)'
  BY ShapeStep, SteadyStep, GuardianFenceStep DEF FenceInv
<1> QED BY <1>1, <1>2, PTL DEF Spec

\* A live Codex keeps its session fenced, whoever runs it and whoever died.
THEOREM ChildrenFenced == Punctual => (Spec => []LiveChildIsFenced)
<1> SUFFICES ASSUME Punctual PROVE Spec => []LiveChildIsFenced
  OBVIOUS
<1>1. ShapeInv /\ FenceInv => LiveChildIsFenced
  BY Names DEF FenceInv, SteadyInv, RunFence, GuardianFence, LiveChildIsFenced,
     RunIsFenced, GuardianIsFenced, AutomatedOn, InteractiveOn
<1> QED BY <1>1, FenceInvariant, PTL

-----------------------------------------------------------------------------
(* Layer three is inductive.                                               *)

\* A claim that succeeds: a row of the orphan is the only one under way.
Claims(x) ==
  /\ Claim(x) /\ xpc[x] = "attached" /\ WriteLease(x) /\ XAt(x, "supervising")
  /\ \E s \in RowOf(xrun[x]) : CanClaim(x, s)

\* A replacement supervisor looks after the run that it attached to.
LEMMA RescuerMoves ==
  ASSUME ShapeInv, [Next]_vars, NEW x \in Rescuers
  PROVE  /\ xpc'[x] = "supervising" =>
              Claims(x) \/ (xpc[x] = "supervising" /\ xrun'[x] = xrun[x])
         /\ xpc[x] # "off" /\ xpc[x] # "done" => xrun'[x] = xrun[x]
         /\ xpc[x] \in {"supervising", "dead"} =>
              \/ xpc'[x] \in {"supervising", "dead"}
              \/ RescuerFinalizes(x) \/ RescuerLeaves(x)
<1>0. ReaderTypes
  BY DEF ShapeInv, Types
<1>1. CASE UNCHANGED resc
  BY <1>1 DEF resc
<1>2. ASSUME NEW y \in Rescuers, RescuerStep(y), y # x
      PROVE  xpc'[x] = xpc[x] /\ xrun'[x] = xrun[x]
  BY <1>0, <1>2 DEF ReaderTypes, XAt, resc, RescuerStep, Attach, Claim,
     RescuerRenews, RescuerStops, RescuerFinalizes, RescuerLeaves, RescuerDies
<1>3. CASE Claim(x)
  BY <1>0, <1>3 DEF Claim, Claims, XAt, ReaderTypes
<1>4. CASE RescuerStep(x)
  BY <1>0, <1>3, <1>4 DEF ReaderTypes, XAt, resc, RescuerStep, Attach,
     RescuerRenews, RescuerStops, RescuerFinalizes, RescuerLeaves, RescuerDies
<1> QED BY <1>1, <1>2, <1>4, RescuerFootprint

\* A supervisor that is through has given the project back.
LEMMA RescuerGivesBack ==
  ASSUME ShapeInv, NEW x \in Rescuers, RescuerFinalizes(x) \/ RescuerLeaves(x)
  PROVE  lease' # x
<1>0. RowTypes /\ RowShape
  BY DEF ShapeInv, Types, TypeOK, RowTypes
<1>1. CASE RescuerLeaves(x)
  BY <1>1, Names DEF RescuerLeaves, ReleaseLease, own
<1>2. ASSUME NEW s \in RowOf(xrun[x]), FinalizeAfterExit(s, x)
      PROVE  lease' # x
  <2>1. CASE AfterExit(state[s]) = "ready_interactive"
    <3>1. s \in Sessions /\ state[s] \in Automated
      BY <1>2 DEF RowOf, FinalizeAfterExit
    <3>2. state[s] = "interrupt_requested"
      BY <2>1, <3>1, ExitStates DEF Automated
    <3>3. iholder[s] \in Users
      BY <1>0, <3>1, <3>2 DEF RowShape, Shape
    <3> QED BY <1>2, <2>1, <3>3, Names
           DEF FinalizeAfterExit, WriteLease, own
  <2>2. CASE AfterExit(state[s]) # "ready_interactive"
    BY <1>2, <2>2, Names DEF FinalizeAfterExit, ReleaseLease, own
  <2> QED BY <2>1, <2>2
<1> QED BY <1>1, <1>2 DEF RescuerFinalizes

LEMMA RescuerLeaseStep ==
  ASSUME ShapeInv, RescuerLease, [Next]_vars
  PROVE  RescuerLease'
<1>0. ReaderTypes
  BY DEF ShapeInv, Types
<1> SUFFICES ASSUME NEW x \in Rescuers, lease' = x
             PROVE  xpc'[x] \in {"supervising", "dead"}
  BY DEF RescuerLease
<1>1. CASE lease = x
  BY <1>1, RescuerMoves, RescuerGivesBack DEF RescuerLease
<1>2. CASE lease # x
  <2>1. Gains(x)
    BY <1>2, LeaseStep DEF LeaseMove
  <2>2. Claim(x) /\ lease = None
    BY <2>1, Names DEF Gains
  <2> QED BY <1>0, <2>2, Names DEF Claim, XAt, ReaderTypes, own
<1> QED BY <1>1, <1>2

LEMMA ClaimFacts ==
  ASSUME ShapeInv, NEW x \in Rescuers, Claims(x)
  PROVE  /\ lease = None /\ workers = {} /\ lease' = x /\ ~expired'
         /\ UNCHANGED <<rows, runs, xrun>>
         /\ xrun[x] \in Runs /\ RowOf(xrun[x]) # {}
         /\ \A s \in Sessions : child[s] \in Runs => child[s] = xrun[x]
<1>0. RowTypes /\ RowShape
  BY DEF ShapeInv, Types, TypeOK, RowTypes
<1>1. PICK s \in RowOf(xrun[x]) : CanClaim(x, s)
  BY DEF Claims
<1>2. /\ s \in Sessions /\ child[s] = xrun[x] /\ token[s] = child[s]
      /\ child[s] # None /\ lease = None /\ workers = {} /\ OthersStopped(s)
  BY <1>1 DEF RowOf, CanClaim, Recoverable
<1>3. child[s] \in Runs
  BY <1>0, <1>2, Names DEF RowTypes
<1>4. ASSUME NEW q \in Sessions, child[q] \in Runs, q # s PROVE FALSE
  <2>1. state[q] \in Automated
    BY <1>0, <1>4, RunRow
  <2> QED BY <1>2, <1>4, <2>1 DEF OthersStopped, Automated
<1> QED BY <1>1, <1>2, <1>3, <1>4 DEF Claims, Claim, WriteLease

LEMMA RescuerAloneStep ==
  ASSUME Prompt, ShapeInv, SteadyInv, RescuerLease, RescuerAlone, [Next]_vars
  PROVE  RescuerAlone'
<1>0. /\ ReaderTypes /\ RunTypes /\ SteadyLease /\ RowTypes
      /\ env \in Scenarios
  BY DEF ShapeInv, Types, TypeOK, RunTypes, RowTypes, SteadyInv
<1> SUFFICES ASSUME NEW x \in Rescuers, NEW s \in Sessions, lease' = x,
                    child'[s] \in Runs
             PROVE  child'[s] = xrun'[x]
  BY DEF RescuerAlone
<1>1. CASE lease # x
  <2>1. Gains(x)
    BY <1>1, LeaseStep DEF LeaseMove
  <2>2. Claim(x) /\ lease = None
    BY <2>1, Names DEF Gains
  <2>3. Claims(x)
    BY <2>2, Names DEF Claim, Claims, own
  <2> QED BY <2>3, ClaimFacts DEF rows
<1>2. CASE lease = x
  <2>1. xrun'[x] = xrun[x]
    BY <1>2, RescuerMoves DEF RescuerLease
  <2>2. CASE child'[s] = child[s]
    BY <1>2, <2>1, <2>2 DEF RescuerAlone
  <2>3. ASSUME NEW r \in Runs, Starts(r, s) PROVE FALSE
    <3>1. lease # r
      BY <1>2, Names
    <3>2. ~RegisterKnown(r)
      BY <3>1 DEF RegisterKnown, CanRegister
    <3>3. Announce(r, s) /\ rpc[r] = "running"
      BY <2>3, <3>2 DEF Starts, Announce
    <3>4. r \notin MayStall => lease = r
      BY <1>0, <3>3 DEF SteadyLease, Holding, Launched
    <3>5. r \notin Inline
      BY <1>0, <3>1, <3>4 DEF Prompt, Inline, MayStall
    <3>6. sess'[r] = sess[r] /\ sess[r] = None
      BY <3>1, <3>3, <3>5 DEF Announce
    <3> QED BY <2>3, <3>6, Names DEF Starts
  <2> QED BY <2>2, <2>3, ChildWrites
<1> QED BY <1>1, <1>2

LEMMA RescuerHoldsStep ==
  ASSUME Prompt, ShapeInv, SteadyInv, RescueInv, [Next]_vars
  PROVE  RescuerHolds'
<1>0. /\ ReaderTypes /\ RowTypes /\ RowShape /\ RescuerHolds /\ RescuerAlone
      /\ RescuerSingle /\ MayStall' = MayStall
  BY EnvStep DEF ShapeInv, Types, TypeOK, RowTypes, RescueInv, MayStall
<1> SUFFICES ASSUME NEW x \in Rescuers \ MayStall, xpc'[x] = "supervising",
                    NEW p \in Sessions, child'[p] = xrun'[x],
                    token'[p] = xrun'[x]
             PROVE  lease' = x /\ ~expired'
  BY <1>0 DEF RescuerHolds, RowOf
<1>1. CASE Claims(x)
  BY <1>1, ClaimFacts
<1>2. CASE xpc[x] = "supervising" /\ xrun'[x] = xrun[x]
  <2>1. PICK r \in Runs : r = xrun[x]
    BY <1>0, <1>2 DEF RescuerSingle
  <2>2. rpc[r] \in {"dead", "done"} /\ p \in RowOf(r)'
    BY <1>0, <1>2, <2>1 DEF RescuerSingle, RowOf
  <2>3. RowOf(r) # {}
    BY <2>2, RowOfMoves
  <2>4. lease = x /\ ~expired
    BY <1>0, <1>2, <2>1, <2>3 DEF RescuerHolds
  <2>5. ~Gone(x)
    BY <1>2, Names DEF Gone
  <2>6. ~LeaseExpires
    BY <2>4, <2>5 DEF LeaseExpires
  <2>7. ASSUME NEW c \in Schedulers, Recovers(c, x) PROVE FALSE
    <3>1. PICK s \in Sessions : s = snap[c].s
      BY <2>7 DEF Recovers
    <3>2. child[s] \in Runs /\ Exits(s)
      BY <2>7, <3>1 DEF Recovers
    <3>3. child[s] = r /\ token[s] = r
      BY <1>0, <2>1, <2>4, <3>2, RunRow DEF RescuerAlone
    <3> QED BY <2>2, <3>2, <3>3, RowOfEnds
  <2>8. x \notin Runs \cup Users \cup Guardians \cup {None}
    BY Names, HolderNames
  <2>9. ~Loses(x)
    BY <2>4, <2>5, <2>7, <2>8 DEF Loses
  <2> QED BY <2>4, <2>6, <2>9, LeaseStep DEF LeaseMove
<1> QED BY <1>1, <1>2, RescuerMoves

LEMMA RescuerSingleStep ==
  ASSUME Prompt, ShapeInv, SteadyInv, RescueInv, [Next]_vars
  PROVE  RescuerSingle'
<1>0. /\ ReaderTypes /\ RunTypes /\ RowTypes /\ RowShape /\ RescuerHolds
      /\ TokenShape /\ WorkerShape /\ SteadyLease /\ RescuerSingle
      /\ RescuerCast /\ env \in Scenarios
  BY DEF ShapeInv, Types, TypeOK, RowTypes, RunTypes, RescueInv, SteadyInv
<1>1. ASSUME NEW x \in Rescuers, Claims(x)
      PROVE  /\ xrun[x] \in Runs /\ rpc[xrun[x]] \in {"dead", "done"}
             /\ xrun'[x] = xrun[x]
             /\ \A y \in Rescuers : xpc[y] = "supervising" => xrun[y] # xrun[x]
  <2>0. PICK r \in Runs : r = xrun[x]
    BY <1>1, ClaimFacts
  <2>1. lease = None /\ workers = {} /\ RowOf(r) # {} /\ xrun'[x] = r
    BY <1>1, <2>0, ClaimFacts
  <2>2. PICK s \in Sessions : token[s] = r
    BY <2>1 DEF RowOf
  <2>3. rpc[r] \notin {"off", "waiting", "acquired", "gated"}
    BY <1>0, <2>2 DEF TokenShape
  <2>4. ASSUME rpc[r] \notin {"dead", "done"} PROVE FALSE
    <3>1. rpc[r] \in Active \ {"acquired"}
      BY <1>0, <2>3, <2>4 DEF RunTypes, Active
    <3>2. r \in Inline
      BY <1>0, <2>1, <3>1 DEF WorkerShape
    <3>3. r \notin MayStall
      BY <1>0, <3>2 DEF Prompt, Inline, MayStall
    <3>4. rpc[r] \in Holding \cup {"recording"}
      BY <3>1 DEF Active, Holding, Launched
    <3> QED BY <1>0, <2>1, <3>3, <3>4, Names DEF SteadyLease
  <2>5. ASSUME NEW y \in Rescuers, xpc[y] = "supervising", xrun[y] = r
        PROVE  FALSE
    <3>1. y \in MayStall
      BY <1>0, <2>0, <2>1, <2>5, Names DEF RescuerHolds
    <3>2. x \in Cast /\ y \in Cast /\ x # y
      BY <1>0, <1>1, <2>5 DEF RescuerCast, Claims
    <3> QED BY <1>0, <3>1, <3>2 DEF Prompt, MayStall, Cast
  <2> QED BY <2>0, <2>1, <2>4, <2>5
<1>2. ASSUME NEW x \in Rescuers, NEW y \in Rescuers, Claims(x), Claims(y)
      PROVE  x = y
  BY <1>2, ClaimFacts
<1>3. ASSUME NEW x \in Rescuers, xpc'[x] = "supervising"
      PROVE  /\ xrun'[x] = xrun[x] /\ xrun[x] \in Runs
             /\ rpc[xrun[x]] \in {"dead", "done"}
  BY <1>0, <1>1, <1>3, RescuerMoves DEF RescuerSingle
<1>4. ASSUME NEW x \in Rescuers, xpc'[x] = "supervising"
      PROVE  xrun'[x] \in Runs /\ rpc'[xrun'[x]] \in {"dead", "done"}
  BY <1>3, <1>4, RunMoves
<1>5. ASSUME NEW x \in Rescuers, NEW y \in Rescuers, xpc'[x] = "supervising",
             xpc'[y] = "supervising", xrun'[y] = xrun'[x]
      PROVE  y = x
  <2>1. xrun[y] = xrun[x]
    BY <1>3, <1>5
  <2>2. CASE Claims(x) \/ Claims(y)
    BY <1>1, <1>2, <1>5, <2>1, <2>2, RescuerMoves
  <2>3. CASE ~Claims(x) /\ ~Claims(y)
    BY <1>0, <1>5, <2>1, <2>3, RescuerMoves DEF RescuerSingle
  <2> QED BY <2>2, <2>3
<1> QED BY <1>4, <1>5 DEF RescuerSingle

LEMMA RescuerCastStep ==
  ASSUME ShapeInv, RescuerCast, [Next]_vars
  PROVE  RescuerCast'
<1>0. ReaderTypes /\ Cast' = Cast
  BY EnvStep DEF ShapeInv, Types, Cast
<1>1. ASSUME NEW x \in Rescuers, xpc[x] = "dead" PROVE xpc'[x] = "dead"
  <2>1. CASE UNCHANGED resc
    BY <1>1, <2>1 DEF resc
  <2>2. ASSUME NEW y \in Rescuers, RescuerStep(y) PROVE xpc'[x] = "dead"
    BY <1>0, <1>1, <2>2 DEF ReaderTypes, XAt, resc, RescuerStep, Attach, Claim,
       RescuerRenews, RescuerStops, RescuerFinalizes, RescuerLeaves,
       RescuerDies, Supervises
  <2> QED BY <2>1, <2>2, RescuerFootprint
<1> QED BY <1>0, <1>1 DEF RescuerCast

\* While inline runs renew their leases, and replacement supervisors that race
\* for an orphan do too, at most one looks after it.
THEOREM RescueInvariant ==
  Prompt => (Spec => [](ShapeInv /\ SteadyInv /\ RescueInv))
<1> SUFFICES ASSUME Prompt
             PROVE  Spec => [](ShapeInv /\ SteadyInv /\ RescueInv)
  OBVIOUS
<1>1. Init => ShapeInv /\ SteadyInv /\ RescueInv
  <2>1. Init => RescueInv
    BY Names DEF Init, RescueInv, RescuerLease, RescuerHolds, RescuerAlone,
       RescuerSingle, RescuerCast
  <2> QED BY <2>1, ShapeInit, SteadyInit
<1>2. ShapeInv /\ SteadyInv /\ RescueInv /\ [Next]_vars
        => (ShapeInv /\ SteadyInv /\ RescueInv)'
  <2>1. ASSUME ShapeInv, SteadyInv, RescueInv, [Next]_vars PROVE RescueInv'
    BY <2>1, RescuerLeaseStep, RescuerAloneStep, RescuerHoldsStep,
       RescuerSingleStep, RescuerCastStep DEF RescueInv
  <2> QED BY <2>1, ShapeStep, SteadyStep
<1> QED BY <1>1, <1>2, PTL DEF Spec

\* A set all of whose elements are equal has at most one.
LEMMA AtMostOne ==
  ASSUME NEW S, \A a, b \in S : a = b
  PROVE  /\ Cardinality(S) \in {0, 1}
         /\ S = {} => Cardinality(S) = 0
<1>1. CASE S = {}
  BY <1>1, FS_EmptySet
<1>2. CASE S # {}
  <2>1. PICK a \in S : TRUE
    BY <1>2
  <2>2. S = {a}
    BY <2>1
  <2> QED BY <1>2, <2>2, FS_Singleton
<1> QED BY <1>1, <1>2

LEMMA OneCodex ==
  ASSUME ShapeInv, FenceInv
  PROVE  OneCodexPerSession
<1> SUFFICES ASSUME NEW s \in Sessions
             PROVE  Cardinality(AutomatedOn(s))
                      + Cardinality(InteractiveOn(s)) <= 1
  BY DEF OneCodexPerSession
<1>1. \A r \in AutomatedOn(s) : r \in Runs /\ child[s] = r
  BY Names DEF FenceInv, SteadyInv, RunFence, AutomatedOn
<1>2. \A u \in InteractiveOn(s) : u \in Users /\ child[s] = Guardian[u]
  BY DEF FenceInv, GuardianFence, InteractiveOn
<1>3. \A a, b \in AutomatedOn(s) : a = b
  BY <1>1
<1>4. \A a, b \in InteractiveOn(s) : a = b
  BY <1>2, HolderNames
<1>5. AutomatedOn(s) = {} \/ InteractiveOn(s) = {}
  BY <1>1, <1>2, Names
<1>6. /\ Cardinality(AutomatedOn(s)) \in {0, 1}
      /\ AutomatedOn(s) = {} => Cardinality(AutomatedOn(s)) = 0
  BY <1>3, AtMostOne
<1>7. /\ Cardinality(InteractiveOn(s)) \in {0, 1}
      /\ InteractiveOn(s) = {} => Cardinality(InteractiveOn(s)) = 0
  BY <1>4, AtMostOne
<1> QED BY <1>5, <1>6, <1>7

LEMMA OneRescuer ==
  ASSUME RescueInv
  PROVE  OneRescuerPerRun
<1> SUFFICES ASSUME NEW r \in Runs
             PROVE  LET on == {x \in Rescuers : xpc[x] = "supervising"
                                                /\ xrun[x] = r}
                    IN  /\ Cardinality(on) <= 1
                        /\ on # {} => rpc[r] \in {"dead", "done"}
  BY DEF OneRescuerPerRun
<1> DEFINE on == {x \in Rescuers : xpc[x] = "supervising" /\ xrun[x] = r}
<1>1. \A a, b \in on : a = b
  BY DEF RescueInv, RescuerSingle
<1>2. Cardinality(on) \in {0, 1}
  BY <1>1, AtMostOne
<1>3. on # {} => rpc[r] \in {"dead", "done"}
  BY DEF RescueInv, RescuerSingle
<1> QED BY <1>2, <1>3

\* No two Codex processes work on one session.
THEOREM OneCodexHolds == Punctual => (Spec => []OneCodexPerSession)
<1> SUFFICES ASSUME Punctual PROVE Spec => []OneCodexPerSession
  OBVIOUS
<1>1. ShapeInv /\ FenceInv => OneCodexPerSession
  BY OneCodex
<1> QED BY <1>1, FenceInvariant, PTL

\* One controller: one Codex on a session, and when its runner died one
\* replacement supervisor.
THEOREM OneControllerHolds == Punctual /\ Prompt => (Spec => []OneController)
<1> SUFFICES ASSUME Punctual, Prompt PROVE Spec => []OneController
  OBVIOUS
<1>1. ShapeInv /\ FenceInv /\ RescueInv => OneController
  BY OneCodex, OneRescuer DEF OneController
<1> QED BY <1>1, FenceInvariant, RescueInvariant, PTL

=============================================================================
