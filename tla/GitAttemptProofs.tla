-------------------------- MODULE GitAttemptProofs ---------------------------
(***************************************************************************)
(* At most one pending journal of GitJournal is bound to a task, as long   *)
(* as nobody edits a link away and no other branch's board is checked out. *)
(*                                                                         *)
(* A journal is bound before its task carries its link.  A crash between   *)
(* the two writes leaves a task that looks free to every other agent.  The *)
(* argument is that no other agent looks: while a journal is pending at    *)
(* most one session runs, and a pass that would start another one repairs  *)
(* the link first, under the lease.                                        *)
(***************************************************************************)
EXTENDS GitJournalProofs

\* Neither the user nor a checkout takes the link off a task.
LinksStay == Inputs \cap {"unlink", "switch"} = {}

-----------------------------------------------------------------------------
(* The inductive invariant, on top of JournalInv.                          *)

InRun(s)    == ctl[s].st \in {"running", "stopreq"}
AllIdle     == \A s \in Sessions : Idle(s)
SomePending == \E s \in Sessions : IsPending(s)

\* While a journal is pending at most one session runs.
Solo == SomePending => \A s, x \in Sessions : InRun(s) /\ InRun(x) => s = x

\* A worker without a session, or one that has yet to start it beside a
\* pending journal, is alone.
WorkerAlone ==
  wk # None => /\ wk.s = None => AllIdle
               /\ wk.at = "start" /\ SomePending => AllIdle

\* A pass is over before a worker comes; with a pending journal it gets past
\* its gate only when nobody runs.
PassQuiet ==
  /\ pass # "idle" => wk = None
  /\ pass \in {"fin", "branch", "repair", "decide"} /\ SomePending => AllIdle

\* Journals are reconciled and links repaired under the lease of the pass, and
\* what is left to repair is not retired meanwhile.
Has(q, x) == \E i \in 1..Len(q) : q[i] = x
Frees(o)  == Has(o.todo, "release")
PassLeased ==
  /\ pass \in {"fin", "repair"} => lease = Lease("pass")
  /\ HeldBy("pass") /\ pass # "idle" => ~Frees(op)
  /\ pass = "repair" => \A s \in left : JState(s) = "working"

QuietInv == Solo /\ WorkerAlone /\ PassQuiet /\ PassLeased

\* A pending journal that is bound, and one whose task does not show it.
Bound(s) == IsPending(s) /\ jr[s].task # None
Free(e)  == e.col \in Active /\ e.link = None
Bare(s)  == Bound(s) /\ \E e \in board[jr[s].task] : Free(e)

\* The entries of a task name one session; beside an entry that names one
\* there is no free entry, and there is at most one free entry.
OneLink ==
  \A t \in Tasks : \A e, f \in board[t] :
    /\ e.link # None /\ f.link # None => e.link = f.link
    /\ e.link # None => ~Free(f)
    /\ e.col \in Active /\ Free(f) => e = f

LinkedOn(t) == {e \in board[t] : e.link # None}
Cleans(o)   == Has(o.todo, "clean")

\* An attempt that attaches its link is the only one of the task.
Attaching ==
  At("attach") =>
    /\ op.e \in board[op.t] /\ op.e.col \in Active
    /\ op.s \in Sessions /\ op.e.link \in {None, op.s}
    /\ \A s \in Sessions : Bound(s) /\ jr[s].task = op.t => s = op.s
    /\ op.by = "pass" => pass # "idle"

\* A move has its source, and only a task that names a session goes back.
Moving ==
  At("rename") \/ At("copy") =>
    /\ op.e \in board[op.t]
    /\ op.to \in Active =>
         op.e.link # None /\ (op.e.col \in Active \/ Cleans(op))

\* A recovery that puts a task back has retired the attempt and works on the
\* only entry that names a session.
Cleaning ==
  op # None /\ Cleans(op) =>
    /\ op.s \in Sessions /\ op.e.link = op.s /\ op.to = "todo" /\ ~Bound(op.s)
    /\ Moves(op) \/ At("drop") \/ At("clean") \/ op.e.col = "todo"
    /\ At("mark") \/ At("rename") \/ At("copy") => LinkedOn(op.t) = {op.e}
    /\ At("drop") => LinkedOn(op.t) = {op.e, MovedTo(op)}
    /\ At("clean") => LinkedOn(op.t) = {MovedTo(op)}

\* A task with a bound journal names no other session.
NamesNoOther ==
  \A s \in Sessions : Bound(s) =>
    \A e \in board[jr[s].task] : e.link \in {None, s}

\* As long as the task does not show its attempt, no other session runs and no
\* pass gets to choose one before it has repaired the link.
PassAttaching(s) ==
  At("attach") /\ op.by = "pass" /\ op.s = s /\ op.t = jr[s].task
BareFence ==
  \A s \in Sessions : Bare(s) =>
    /\ JState(s) = "working"
    /\ \A x \in Sessions : InRun(x) => x = s
    /\ wk # None => wk.s = s /\ wk.at = "live"
    /\ PassAttaching(s) \/ /\ pass # "decide"
                           /\ pass = "repair" => s \in left

BoardInv == /\ OneLink /\ Attaching /\ Moving /\ Cleaning /\ NamesNoOther
            /\ BareFence /\ OneAttemptPerTask

AttemptInv == JournalInv /\ QuietInv /\ (LinksStay => BoardInv)

-----------------------------------------------------------------------------
(* What a step does to who runs.                                           *)

LEMMA RunOrRest ==
  ASSUME Types, NEW s \in Sessions
  PROVE  Idle(s) <=> ~InRun(s)
BY DEF Types, RegistryTypes, Rows, Idle, InRun

LEMMA RunsBegin ==
  ASSUME JournalInv, [Next]_vars, NEW s \in Sessions, InRun(s)'
  PROVE  InRun(s) \/ Takes(s)
BY RowMoves DEF RowMove, Rests, Requests, InRun

LEMMA PendingBegins ==
  ASSUME JournalInv, [Next]_vars, NEW s \in Sessions, IsPending(s)'
  PROVE  IsPending(s) \/ Opens(s)
<1>0. jr \in [Sessions -> Journals \cup {None}] /\ None \notin Journals
  BY Scene DEF JournalInv, Types, GitTypes, RegistryTypes
<1>1. CASE jr'[s] = jr[s]
  BY <1>1 DEF IsPending, JState
<1>2. CASE Binds(s) \/ Advances(s)
  BY <1>2 DEF Binds, Advances, IsPending, Pending
<1>3. CASE Rotates(s)
  <2>1. PICK o \in Tokens : jr'[s] = [jr[s] EXCEPT !.own = o]
    BY <1>3 DEF Rotates
  <2>2. jr[s] # None /\ jr[s] \in Journals
    BY <1>0, <1>3 DEF Rotates
  <2>3. jr'[s].st = jr[s].st /\ jr'[s] # None
    BY <1>0, <2>1, <2>2, RotatedFields
  <2> QED BY <2>2, <2>3 DEF IsPending, JState
<1>4. CASE Retires(s)
  <2>1. PICK why \in Whys : jr'[s] = Cancelled(jr[s], why)
    BY <1>4 DEF Retires
  <2>2. jr[s] \in Journals
    BY <1>0, <1>4 DEF Retires, JState
  <2>3. jr'[s].st = "cancelled"
    BY <2>1, <2>2, RetiredFields
  <2> QED BY <2>3 DEF IsPending, JState, Pending
<1> QED BY <1>1, <1>2, <1>3, <1>4, JournalMoves DEF JournalMove

\* A journal is opened by a worker that is alone.
LEMMA OpensAlone ==
  ASSUME JournalInv, QuietInv, NEW s \in Sessions, Opens(s)
  PROVE  /\ wk # None /\ AllIdle
         /\ \/ EnableGit /\ wk.s = s /\ UNCHANGED <<ctl, wk>>
            \/ Register(s) /\ wk.s = None /\ jr'[s].task = None
<1>1. CASE EnableGit /\ wk.s = s
  <2>1. jr'[s] # jr[s]
    BY Scene DEF Opens, JournalInv, Types, GitTypes
  <2> QED BY <1>1, <2>1 DEF EnableGit, WorkerUp, CanEnable, AllIdle
<1>2. CASE Register(s)
  <2>1. wk # None /\ wk.s = None
    BY <1>2 DEF Register, WorkerUp
  <2>2. AllIdle
    BY <2>1 DEF QuietInv, WorkerAlone
  <2>3. jr' # jr
    BY Scene DEF Opens, JournalInv, Types, GitTypes
  <2>4. jr'[s] = Journal(None, wk.run, launch.start, launch.branch)
    BY <1>2, <2>3 DEF Register, JournalInv, Types, RegistryTypes
  <2> QED BY <1>2, <2>1, <2>2, <2>4 DEF Journal
<1> QED BY <1>1, <1>2 DEF Opens

\* A row is taken by a worker that is alone beside every pending journal.
LEMMA TakesAlone ==
  ASSUME JournalInv, QuietInv, NEW s \in Sessions, Takes(s)
  PROVE  /\ wk # None /\ pass = "idle" /\ wk' # None /\ wk'.s = s
         /\ wk'.at = "live" /\ (SomePending => AllIdle)
         /\ wk.at = "start" \/ wk.s = None
BY DEF Takes, WorkerUp, QuietInv, WorkerAlone, PassQuiet

LEMMA IdleStays ==
  ASSUME JournalInv, [Next]_vars, AllIdle, \A s \in Sessions : ~Takes(s)
  PROVE  AllIdle'
<1> SUFFICES ASSUME NEW s \in Sessions, ~Idle(s)' PROVE FALSE
  BY DEF AllIdle
<1>1. Types /\ Types'
  BY TypesStep DEF JournalInv
<1>2. InRun(s)'
  <2>1. ctl' \in [Sessions -> Rows]
    BY RowMoves
  <2>2. ctl'[s].st \in {"none", "running", "stopreq", "stopped", "resume"}
    BY <2>1 DEF Rows
  <2> QED BY <2>2 DEF Idle, InRun
<1>3. InRun(s)
  BY <1>2, RunsBegin
<1> QED BY <1>1, <1>3, RunOrRest DEF AllIdle

LEMMA SoloStep ==
  ASSUME JournalInv, QuietInv, [Next]_vars
  PROVE  Solo'
<1>0. Types /\ Solo
  BY DEF JournalInv, QuietInv
<1> SUFFICES ASSUME NEW y \in Sessions, IsPending(y)',
                    NEW s \in Sessions, NEW x \in Sessions, InRun(s)', InRun(x)'
             PROVE  s = x
  BY DEF Solo, SomePending
<1>1. CASE Takes(s) \/ Takes(x)
  <2>1. AllIdle
    <3>1. CASE IsPending(y)
      BY <1>1, <3>1, TakesAlone DEF SomePending
    <3>2. CASE Opens(y)
      BY <3>2, OpensAlone
    <3> QED BY <3>1, <3>2, PendingBegins
  <2>2. Takes(s) /\ Takes(x)
    BY <1>0, <2>1, RunOrRest, RunsBegin DEF AllIdle
  <2> QED BY <2>2 DEF Takes
<1>2. CASE InRun(s) /\ InRun(x)
  <2>1. CASE IsPending(y)
    BY <1>0, <1>2, <2>1 DEF Solo, SomePending
  <2>2. CASE Opens(y)
    BY <1>0, <1>2, <2>2, OpensAlone, RunOrRest DEF AllIdle
  <2> QED BY <2>1, <2>2, PendingBegins
<1> QED BY <1>1, <1>2, RunsBegin

\* A worker goes on in its session; a new one comes from a pass.
LEMMA WorkerGoesOn ==
  ASSUME JournalInv, [Next]_vars, wk' # None
  PROVE  \/ wk' = wk
         \/ /\ wk # None /\ wk'.s = wk.s /\ (wk'.at = "start" => wk.at = "start")
            /\ wk.at = "live" => wk'.at = "live"
         \/ wk # None /\ wk.s = None /\ wk'.at = "live"
            /\ \E s \in Sessions : Register(s) /\ wk'.s = s
         \/ PassDecides /\ wk = None /\ wk'.at = "start"
<1>0. Types /\ (wk # None => wk \in Workers(1..MaxRuns))
  BY DEF JournalInv, Types, RunTypes
<1>1. CASE wk # None /\ wk' = [wk EXCEPT !.at = "live"]
  BY <1>0, <1>1 DEF Workers
<1>2. CASE WorkerUp("start") /\ wk' = [wk EXCEPT !.at = "bound",
                               !.start = tip'[branch], !.branch = branch]
  BY <1>0, <1>2 DEF Workers, WorkerUp
<1>3. CASE wk # None /\ wk' = [wk EXCEPT !.up = FALSE]
  BY <1>0, <1>3 DEF Workers
<1>4. ASSUME NEW s \in Sessions, Register(s), wk' = [wk EXCEPT !.s = s]
      PROVE  /\ wk # None /\ wk.s = None /\ wk'.at = "live"
             /\ \E x \in Sessions : Register(x) /\ wk'.s = x
  BY <1>0, <1>4 DEF Workers, Register, WorkerUp
<1>5. CASE PassDecides /\ wk' # wk
  BY <1>0, <1>5, Dispatched
<1> QED BY <1>1, <1>2, <1>3, <1>4, <1>5, WorkerMoves DEF WorkerUp

LEMMA DispatchesAlone ==
  ASSUME JournalInv, QuietInv, PassDecides, wk' # wk
  PROVE  /\ wk = None /\ wk'.at = "start" /\ (SomePending => AllIdle)
         /\ wk'.s = None => AllIdle
<1>0. /\ Types /\ None \notin Sessions /\ pass = "decide"
  BY Scene DEF JournalInv, Types, GitTypes, PassDecides, PassAt
<1>1. wk = None /\ wk'.at = "start" /\ (SomePending => AllIdle)
  BY <1>0, Dispatched DEF QuietInv, PassQuiet
<1>2. ASSUME wk'.s = None PROVE AllIdle
  <2>1. ASSUME NEW s \in Sessions, NEW sel, NEW want, Dispatch(sel, s, want)
        PROVE  FALSE
    BY <1>0, <1>2, <2>1 DEF Dispatch
  <2>2. \A s \in GitFirst \cup Queued : s \in Sessions
    BY DEF GitFirst, Sealed, Queued
  <2> QED BY <2>1, <2>2 DEF PassDecides, AllIdle
<1> QED BY <1>1, <1>2

LEMMA WorkerAloneStep ==
  ASSUME JournalInv, QuietInv, [Next]_vars
  PROVE  WorkerAlone'
<1>0. Types /\ WorkerAlone /\ None \notin Sessions
  BY Scene DEF JournalInv, Types, GitTypes, QuietInv
<1> SUFFICES ASSUME wk' # None, wk'.s = None \/ (wk'.at = "start" /\ SomePending')
             PROVE  AllIdle'
  BY DEF WorkerAlone
<1>1. \A s \in Sessions : ~Takes(s)
  BY <1>0, TakesAlone
<1>2. SomePending' => SomePending \/ AllIdle
  BY PendingBegins, OpensAlone DEF SomePending
<1>3. AllIdle
  <2>1. CASE PassDecides /\ wk' # wk
    BY <1>2, <2>1, DispatchesAlone
  <2>2. CASE wk # None /\ wk'.s = wk.s /\ (wk'.at = "start" => wk.at = "start")
    BY <1>0, <1>2, <2>2 DEF WorkerAlone
  <2>3. CASE wk' = wk
    BY <2>2, <2>3
  <2> QED BY <1>0, <2>1, <2>2, <2>3, WorkerGoesOn
<1> QED BY <1>1, <1>3, IdleStays

\* How a pass goes on.
LEMMA StageMoves ==
  ASSUME [Next]_vars
  PROVE  \/ UNCHANGED <<pass, left>> \/ pass' = "idle"
         \/ pass # "idle" /\ pass' \in {"exec", "gate"}
         \/ PassRetires /\ pass' = "plan"
         \/ PassGates /\ pass' \in {"fin", "decide"}
         \/ \E s \in Sessions : PassReports(s) /\ pass' = "branch"
         \/ PassReconciles /\ pass' = "repair"
         \/ \E s \in Sessions : PassRepairs(s) /\ pass' = pass
         \/ PassReleases /\ pass' = "decide"
<1> USE DEF sched
<1>1. CASE BoardStep \/ OpReleases \/ LeaseExpires \/ UNCHANGED vars
  BY <1>1 DEF vars, BoardStep, OpReleases, LeaseExpires
<1>2. CASE PassNext
  <2>1. CASE \E s \in Sessions : PassReports(s) \/ PassRepairs(s)
    BY <2>1 DEF PassReports, PassRepairs
  <2>2. CASE PassRetires \/ PassGates \/ PassReconciles \/ PassReleases
    BY <2>2 DEF PassRetires, PassGates, PassReconciles, PassReleases
  <2>3. CASE PassPlans \/ PassPlansBranch \/ PassDecides \/ PassRelinks
             \/ Executes("pass")
    BY <2>3 DEF PassPlans, PassPlansBranch, PassDecides, PassRelinks, Executes,
       PassAt
  <2> QED BY <1>2, <2>1, <2>2, <2>3 DEF PassNext
<1>3. CASE WorkerNext
  BY <1>3 DEF WorkerNext, PrepareFresh, RecordLaunch, Register, EnableGit,
     ResumeKnown, ResumeRefused, WorkerSettles, Abandon, RowRecovered
<1>4. CASE AgentNext
  BY <1>4 DEF AgentNext, CodexExits, AgentActivates, AgentSeals
<1>5. CASE UserNext
  <2>1. ASSUME NEW t \in Tasks, NEW e \in board[t], NEW kind, UserEnds(kind, t, e)
        PROVE  UNCHANGED <<pass, left>>
    BY <2>1 DEF UserEnds
  <2>2. CASE Executes("user")
    BY <2>2 DEF Executes
  <2>3. CASE ~Executes("user") /\ ~Ends
    BY <1>5, <2>3 DEF UserNext, Ends, UserCommits, UserSwitches, UserSetsMode,
       UserDeclines, UserStops, UserResumes, UserPlans, CancelOrphan, UserAdds,
       UserUnlinks
  <2> QED BY <2>1, <2>2, <2>3 DEF Ends
<1>6. CASE FaultNext
  BY <1>6 DEF FaultNext, UserDies, PassDies, WorkerDies, Rebuild
<1> QED BY <1>1, <1>2, <1>3, <1>4, <1>5, <1>6 DEF Next

\* Behind its gate a pass is alone with the pending journals.
LEMMA GateOpens ==
  ASSUME JournalInv, PassGates, pass' # "idle"
  PROVE  SomePending' => AllIdle' /\ pass' = "fin" /\ lease' = Lease("pass")
<1>0. ctl \in [Sessions -> Rows] /\ UNCHANGED jr
  BY DEF JournalInv, Types, RegistryTypes, PassGates
<1>1. SomePending' <=> SomePending
  BY <1>0 DEF SomePending, IsPending, JState
<1>2. ASSUME SomePending
      PROVE  /\ pass' = "fin" /\ lease' = Lease("pass")
             /\ ctl' = [s \in Sessions |-> Requeued(s)]
             /\ \A s \in Sessions : Nonblocking(Requeued(s), s)
  BY <1>2 DEF PassGates, SomePending
<1>3. ASSUME SomePending PROVE AllIdle'
  BY <1>2, <1>3 DEF AllIdle, Idle, Nonblocking
<1> QED BY <1>1, <1>2, <1>3

LEMMA PassQuietStep ==
  ASSUME JournalInv, QuietInv, [Next]_vars
  PROVE  PassQuiet'
<1>0. PassQuiet
  BY DEF QuietInv
<1>1. ASSUME pass' # "idle" PROVE wk' = None
  <2>1. wk = None
    <3>1. CASE pass # "idle"
      BY <1>0, <3>1 DEF PassQuiet
    <3>2. CASE pass = "idle"
      <4>1. PassRetires
        BY <1>1, <3>2, StageMoves DEF PassGates, PassReports, PassReconciles,
           PassRepairs, PassReleases, PassAt
      <4> QED BY <4>1 DEF PassRetires
    <3> QED BY <3>1, <3>2
  <2>2. ~PassDecides
    BY <1>1 DEF PassDecides
  <2> QED BY <2>1, <2>2, WorkerGoesOn
<1>2. ASSUME pass' \in {"fin", "branch", "repair", "decide"}, SomePending'
      PROVE  AllIdle'
  <2>1. CASE PassGates
    BY <1>2, <2>1, GateOpens
  <2>2. CASE pass \in {"fin", "branch", "repair", "decide"}
    <3>1. wk = None
      BY <1>0, <2>2 DEF PassQuiet
    <3>2. SomePending
      BY <1>2, <3>1, PendingBegins, OpensAlone DEF SomePending
    <3>3. \A s \in Sessions : ~Takes(s)
      BY <3>1, TakesAlone
    <3> QED BY <1>0, <2>2, <3>2, <3>3, IdleStays DEF PassQuiet
  <2> QED BY <1>2, <2>1, <2>2, StageMoves DEF PassReports, PassReconciles,
             PassRepairs, PassReleases, PassAt
<1> QED BY <1>1, <1>2 DEF PassQuiet

-----------------------------------------------------------------------------
(* Commands under the board lock.                                          *)

LEMMA TodoNames ==
  ASSUME NEW q \in Todos
  PROVE  q \in Seq(StepNames)
<1>0. /\ "attach" \in StepNames /\ "mark" \in StepNames
      /\ "copy" \in StepNames /\ "drop" \in StepNames
      /\ "rename" \in StepNames /\ "remove" \in StepNames
      /\ "clean" \in StepNames /\ "release" \in StepNames
  BY DEF StepNames
<1>1. CASE q \in {<<"attach">>, <<"remove">>, <<"release">>, <<"rename">>,
                  <<"drop">>}
  <2>1. \A x \in StepNames : <<x>> \in Seq(StepNames)
    OBVIOUS
  <2> QED BY <1>0, <1>1, <2>1
<1>2. CASE q \in {<<"attach", "rename">>, <<"copy", "drop">>,
                  <<"rename", "release">>, <<"drop", "release">>,
                  <<"remove", "release">>, <<"clean", "release">>}
  BY <1>0, <1>2
<1>3. CASE q = <<"attach", "copy", "drop">>
  BY <1>0, <1>3
<1>4. CASE q = <<"copy", "drop", "release">>
  BY <1>0, <1>4
<1>5. CASE q = <<"mark", "clean", "release">>
  BY <1>0, <1>5
<1>6. CASE q = <<"rename", "clean", "release">>
  BY <1>0, <1>6
<1>7. CASE q = <<"drop", "clean", "release">>
  BY <1>0, <1>7
<1>8. CASE q = <<"mark", "rename", "clean", "release">>
  BY <1>0, <1>8
<1>9. CASE q = <<"copy", "drop", "clean", "release">>
  BY <1>0, <1>9
<1>10. CASE q = <<"mark", "copy", "drop", "clean", "release">>
  BY <1>0, <1>10
<1> QED BY Zenon, <1>1, <1>2, <1>3, <1>4, <1>5, <1>6, <1>7, <1>8, <1>9, <1>10
        DEF Todos

LEMMA TailHas ==
  ASSUME NEW q \in Todos, NEW x, Len(q) # 1, Has(Tail(q), x)
  PROVE  Has(q, x)
<1>0. q \in Seq(StepNames) /\ q # << >>
  <2>1. Len(q) \in Nat /\ Len(q) >= 1
    BY TodoSteps
  <2> QED BY <2>1, TodoNames
<1>1. PICK i \in 1..Len(Tail(q)) : Tail(q)[i] = x
  BY DEF Has
<1>2. Len(Tail(q)) = Len(q) - 1 /\ Tail(q)[i] = q[i + 1] /\ i + 1 \in 1..Len(q)
  BY <1>0
<1> QED BY <1>1, <1>2 DEF Has

\* What comes next in a command.
LEMMA NextStep ==
  ASSUME NEW q \in Todos, Len(q) # 1
  PROVE  /\ Tail(q)[1] \notin {"attach", "mark", "remove"}
         /\ Tail(q)[1] \in {"rename", "copy"} => q[1] \in {"attach", "mark"}
         /\ q[1] = "mark" => Has(q, "clean")
         /\ q[1] = "attach" => ~Has(q, "clean") /\ ~Has(q, "release")
         /\ q[1] = "mark" /\ ~HasMove(q) => Tail(q)[1] = "clean"
         /\ q[1] = "mark" /\ HasMove(q) => Tail(q)[1] \in {"rename", "copy"}
         /\ q[1] = "copy" => Tail(q)[1] = "drop"
         /\ q[1] \in {"rename", "drop"} /\ Has(Tail(q), "clean") =>
              Tail(q)[1] = "clean"
         /\ q[1] \in {"remove", "release"} => ~Has(q, "clean")
         /\ q[1] = "clean" => ~Has(Tail(q), "clean")
<1>1. CASE q \in {<<"attach", "rename">>, <<"attach", "copy", "drop">>}
  BY <1>1 DEF Has
<1>2. CASE q \in {<<"mark", "rename", "clean", "release">>,
                  <<"mark", "copy", "drop", "clean", "release">>,
                  <<"mark", "clean", "release">>}
  <2>1. Has(q, "clean")
    <3>1. CASE q = <<"mark", "rename", "clean", "release">>
      BY <3>1, 3 \in 1..Len(q), q[3] = "clean" DEF Has
    <3>2. CASE q = <<"mark", "copy", "drop", "clean", "release">>
      BY <3>2, 4 \in 1..Len(q), q[4] = "clean" DEF Has
    <3>3. CASE q = <<"mark", "clean", "release">>
      BY <3>3, 2 \in 1..Len(q), q[2] = "clean" DEF Has
    <3> QED BY <1>2, <3>1, <3>2, <3>3
  <2>2. q = <<"mark", "clean", "release">> => ~HasMove(q)
    BY DEF HasMove
  <2>3. q # <<"mark", "clean", "release">> => HasMove(q)
    <3>1. q # <<"mark", "clean", "release">> =>
            q[2] \in {"rename", "copy"} /\ 2 \in 1..Len(q)
      BY <1>2
    <3> QED BY <3>1 DEF HasMove
  <2>4. /\ q[1] = "mark"
        /\ q = <<"mark", "clean", "release">> => Tail(q)[1] = "clean"
        /\ q # <<"mark", "clean", "release">> => Tail(q)[1] \in {"rename", "copy"}
    BY <1>2
  <2> QED BY <2>1, <2>2, <2>3, <2>4
<1>3. CASE q \in {<<"copy", "drop">>, <<"copy", "drop", "release">>,
                  <<"copy", "drop", "clean", "release">>}
  BY <1>3
<1>4. CASE q \in {<<"rename", "release">>, <<"drop", "release">>}
  BY <1>4 DEF Has
<1>5. CASE q \in {<<"remove", "release">>, <<"clean", "release">>}
  <2>1. CASE q = <<"remove", "release">>
    <3>1. ~Has(q, "clean")
      BY <2>1 DEF Has
    <3> QED BY <2>1, <3>1
  <2>2. CASE q = <<"clean", "release">>
    <3>1. Tail(q) = <<"release">> /\ q[1] = "clean" /\ Tail(q)[1] = "release"
      BY <2>2
    <3>2. ~Has(Tail(q), "clean")
      <4>1. ~Has(<<"release">>, "clean")
        BY DEF Has
      <4> QED BY Zenon, <3>1, <4>1
    <3>3. q[1] = "clean" /\ Tail(q)[1] = "release"
      BY <3>1
    <3> QED BY <3>2, <3>3
  <2> QED BY <1>5, <2>1, <2>2
<1>6. CASE q \in {<<"rename", "clean", "release">>, <<"drop", "clean", "release">>}
  BY <1>6
<1>7. CASE q \in {<<"attach">>, <<"rename">>, <<"drop">>, <<"remove">>, <<"release">>}
  BY <1>7
<1> QED BY Zenon, <1>1, <1>2, <1>3, <1>4, <1>5, <1>6, <1>7 DEF Todos

\* How a command begins, and what it ends with.
LEMMA StepsShape ==
  ASSUME NEW kind \in Kinds, NEW e
  PROVE  LET q == Steps(kind, e) IN
         /\ q \in Todos
         /\ kind \in {"activate", "relink"} => q[1] = "attach"
         /\ q[1] = "attach" => kind \in {"activate", "relink"}
         /\ q[1] \in {"rename", "copy"} => kind \in {"move", "done", "complete"}
         /\ q[1] \notin {"drop", "clean"}
         /\ kind \in {"activate", "move", "done", "relink", "dedup"} =>
              ~Has(q, "release")
         /\ Has(q, "clean") =>
              /\ kind = "recover" /\ q[1] = "mark"
              /\ HasMove(q) \/ e.col = "todo"
<1>1. CASE kind = "activate"
  <2>1. Steps(kind, e) \in {<<"attach", "rename">>, <<"attach", "copy", "drop">>}
    BY <1>1, JoinedSteps DEF Steps
  <2> QED BY <1>1, <2>1, StepsFacts DEF Has
<1>2. CASE kind \in {"move", "done"}
  <2>1. Steps(kind, e) \in {<<"rename">>, <<"copy", "drop">>}
    BY <1>2, MoveSteps DEF Steps
  <2> QED BY <1>2, <2>1, StepsFacts DEF Has
<1>3. CASE kind = "complete"
  <2>1. Steps(kind, e) \in {<<"rename", "release">>,
                            <<"copy", "drop", "release">>}
    BY <1>3, JoinedSteps DEF Steps
  <2> QED BY <1>3, <2>1, StepsFacts DEF Has
<1>4. CASE kind = "delete"
  <2>1. Steps(kind, e) = <<"remove", "release">>
    BY <1>4 DEF Steps
  <2> QED BY <1>4, <2>1, StepsFacts DEF Has
<1>5. CASE kind \in {"relink", "dedup", "retire"}
  <2>1. /\ kind = "relink" => Steps(kind, e) = <<"attach">>
        /\ kind = "dedup" => Steps(kind, e) = <<"remove">>
        /\ kind = "retire" => Steps(kind, e) = <<"release">>
    BY DEF Steps
  <2> QED BY <1>5, <2>1, StepsFacts DEF Has
<1>6. CASE kind = "recover" /\ e.col = "todo"
  <2>1. Steps(kind, e) = (<<"mark">> \o <<>>) \o <<"clean", "release">>
    BY <1>6 DEF Steps
  <2>2. Steps(kind, e)[1] = "mark"
    BY <2>1, JoinedSteps
  <2> QED BY <1>6, <2>2, StepsFacts
<1>7. CASE kind = "recover" /\ e.col # "todo"
  <2>1. Steps(kind, e) = (<<"mark">> \o Move) \o <<"clean", "release">>
    BY <1>7 DEF Steps
  <2>2. Steps(kind, e) \in {<<"mark", "rename", "clean", "release">>,
                            <<"mark", "copy", "drop", "clean", "release">>}
    BY <2>1, JoinedSteps
  <2>3. Steps(kind, e)[1] = "mark" /\ Steps(kind, e)[2] \in {"rename", "copy"}
        /\ 2 \in 1..Len(Steps(kind, e))
    BY <2>2
  <2>4. HasMove(Steps(kind, e))
    BY <2>3 DEF HasMove
  <2> QED BY <1>7, <2>3, <2>4, StepsFacts
<1> QED BY <1>1, <1>2, <1>3, <1>4, <1>5, <1>6, <1>7 DEF Kinds

\* What a pass does about an entry of a journal's task.
LEMMA RepairKinds ==
  ASSUME Types, NEW s \in Sessions, jr[s].task \in Tasks, Repair(s) # {}
  PROVE  \E kind \in {"move", "dedup", "activate", "relink"},
            e \in board[jr[s].task], to \in {"doing", None} :
           /\ The(Repair(s)) = Op(kind, "pass", s, jr[s].task, e, to)
           /\ e.col \in Active
           /\ kind \in {"move", "dedup"} => e.link = s
           /\ kind \in {"activate", "relink"} => Free(e)
<1> DEFINE t == jr[s].task
           act == {e \in board[t] : e.col \in Active}
           mine == {e \in act : e.link = s}
           held == ctl[s].st \in {"stopped", "stopreq"}
           pair == /\ Cardinality(mine) = 2 /\ {e.col : e \in mine} = Active
                   /\ One({e.stop : e \in mine})
           same == {e \in mine : e.col = IF held \/ e.stop THEN "doing" ELSE "todo"}
<1>0. The(Repair(s)) \in Repair(s)
  BY Chosen
<1>1. CASE One(mine) /\ Ready(The(mine)) /\ ~held
  <2>0. ~pair /\ mine # {}
    BY <1>1, Chosen DEF One
  <2>1. Repair(s) = {Op("move", "pass", s, t, The(mine), "doing")}
    BY <1>1, <2>0 DEF Repair
  <2>2. The(mine) \in mine
    BY <1>1, Chosen
  <2> QED BY <1>0, <2>1, <2>2
<1>2. CASE pair /\ ~(One(mine) /\ Ready(The(mine)) /\ ~held)
  <2>0. mine # {}
    BY <1>2 DEF Active
  <2>1. Repair(s) = {Op("dedup", "pass", s, t, e, None) : e \in same}
    BY <1>2, <2>0 DEF Repair
  <2>2. PICK e \in same : The(Repair(s)) = Op("dedup", "pass", s, t, e, None)
    BY <1>0, <2>1
  <2> QED BY <2>2
<1>3. CASE /\ mine = {} /\ One(act) /\ The(act).link = None
           /\ ~pair /\ ~(One(mine) /\ Ready(The(mine)) /\ ~held)
  <2>1. Repair(s) = {Op(IF Ready(The(act)) /\ ~held THEN "activate"
                        ELSE "relink", "pass", s, t, The(act), "doing")}
    BY <1>3 DEF Repair
  <2>2. The(act) \in act
    BY <1>3, Chosen
  <2>3. Free(The(act))
    BY <1>3, <2>2 DEF Free
  <2>4. \/ The(Repair(s)) = Op("activate", "pass", s, t, The(act), "doing")
        \/ The(Repair(s)) = Op("relink", "pass", s, t, The(act), "doing")
    BY <1>0, <2>1
  <2> QED BY <2>2, <2>3, <2>4
<1>4. CASE /\ ~(One(mine) /\ Ready(The(mine)) /\ ~held) /\ ~pair
           /\ ~(mine = {} /\ One(act) /\ The(act).link = None)
  BY <1>4 DEF Repair
<1> QED BY <1>1, <1>2, <1>3, <1>4

\* A task that does not show its attempt gets its link.
LEMMA BareRepaired ==
  ASSUME Types, OneLink, NEW s \in Sessions, Bare(s)
  PROVE  /\ Repair(s) # {}
         /\ \E kind \in {"activate", "relink"}, e \in Entries :
              The(Repair(s)) = Op(kind, "pass", s, jr[s].task, e, "doing")
<1> DEFINE t == jr[s].task
           act == {e \in board[t] : e.col \in Active}
           mine == {e \in act : e.link = s}
<1>0. s # None /\ t \in Tasks
  BY Scene DEF Types, GitTypes, RegistryTypes, Bare, Bound, IsPending, JState,
     Pending, Journals, JournalRows
<1>1. PICK f \in board[t] : Free(f)
  BY DEF Bare
<1>e. f \in Entries
  BY <1>0, <1>1 DEF Types, GitTypes, BoardStates
<1>2. act = {f}
  BY <1>0, <1>1 DEF OneLink, Free
<1>3. mine = {}
  BY <1>0, <1>1, <1>2 DEF Free
<1>4. One(act) /\ The(act) = f
  <2>1. Cardinality({f}) = 1
    BY FS_Singleton
  <2>2. The(act) \in act
    BY <1>2, Chosen
  <2> QED BY <1>2, <2>1, <2>2 DEF One
<1>5. ~One(mine) /\ Cardinality(mine) # 2
  BY <1>3, FS_EmptySet DEF One
<1>6. \E kind \in {"activate", "relink"} :
        Repair(s) = {Op(kind, "pass", s, t, f, "doing")}
  <2>1. Repair(s) = {Op(IF Ready(The(act)) /\ ctl[s].st \notin {"stopped", "stopreq"}
                        THEN "activate" ELSE "relink", "pass", s, t, f, "doing")}
    BY <1>1, <1>3, <1>4, <1>5 DEF Repair, Free
  <2> QED BY <2>1
<1>7. PICK kind \in {"activate", "relink"} :
        Repair(s) = {Op(kind, "pass", s, t, f, "doing")}
  BY <1>6
<1>8. Repair(s) # {} /\ The(Repair(s)) = Op(kind, "pass", s, t, f, "doing")
  BY <1>7, Chosen
<1> QED BY <1>8, <1>e

\* A command is none of the values of None.
LEMMA CommandIsRecord ==
  ASSUME env \in Scenarios, NEW o \in Commands
  PROVE  o # None
<1>1. o \in CommandRows(Tasks)
  BY TodoNames DEF Commands, CommandRows, Columns, Entries
<1> QED BY <1>1, NoneIsNoRow DEF Tasks

\* A command goes on, is over or dies.
LEMMA OpGoes ==
  ASSUME JournalInv, [Next]_vars, op # None
  PROVE  op' = op \/ op' = None \/ BoardStep
<1>1. CASE OpReleases
  <2>1. op \in Commands /\ At("release")
    BY <1>1 DEF OpReleases, At, JournalInv, LockHeld
  <2>2. Len(op.todo) = 1
    BY <2>1, TodoRest DEF Commands, At
  <2> QED BY <1>1, <2>2 DEF OpReleases, OpDone
<1>2. CASE \/ UserDies \/ PassDies \/ WorkerDies \/ \E c \in codex : CodexExits(c)
  BY <1>2 DEF UserDies, PassDies, WorkerDies, CodexExits
<1>3. ASSUME Ends \/ Activates \/ Seals PROVE FALSE
  BY <1>3 DEF Ends, Activates, Seals, UserEnds, AgentActivates, AgentSeals, Starts
<1>4. ASSUME Recovers \/ ResumeKnown \/ PassRelinks
             \/ \E s \in Sessions : PassRepairs(s)
      PROVE  FALSE
  BY <1>4 DEF Recovers, Executes, ResumeKnown, PassRelinks, PassRepairs
<1> QED BY <1>1, <1>2, <1>3, <1>4, Footprints DEF OpWriters

\* Nobody writes the board but the holder of its lock, and a new task.
LEMMA BoardGoes ==
  ASSUME JournalInv, [Next]_vars, LinksStay, ~BoardStep
  PROVE  board' = board \/ (op = None /\ op' = op /\ \E t \in Tasks : UserAdds(t))
<1>1. ~UserSwitches /\ \A t \in Tasks : \A e \in board[t] : ~UserUnlinks(t, e)
  BY DEF LinksStay, UserSwitches, UserUnlinks
<1>2. ASSUME NEW t \in Tasks, UserAdds(t) PROVE op = None /\ op' = op
  BY <1>2 DEF UserAdds
<1> QED BY <1>1, <1>2, Footprints DEF BoardWriters

\* The commands.
Activated == \E c \in codex : \E t \in Tasks : \E e \in board[t] :
  AgentActivates(c, t, e) /\ op' = Op("activate", "agent", c.s, t, e, "doing")
Settled == \E kind \in {"move", "dedup", "complete", "delete", "done"},
              by \in {"user", "agent"}, s \in Sessions \cup {None},
              t \in Tasks : \E e \in board[t] : \E to \in Columns :
  /\ op' = Op(kind, by, s, t, e, to)
  /\ kind \in {"move", "complete", "done"} => to = "done"
Resumed == ResumeKnown /\ \E t \in Tasks : \E e \in board[t] :
  /\ e.col = "todo" /\ e.link = wk.s /\ wk.s # None
  /\ op' = Op("move", "worker", wk.s, t, e, "doing")
Recovered == \E w \in {"user", "pass"} :
  /\ Executes(w) /\ CanExecute(plan[w]) /\ (w = "pass" => pass' = "idle")
  /\ op' = Op(RecoverySteps(plan[w]), w, plan[w].s, plan[w].t, plan[w].e, "todo")
Repaired == \E s \in Sessions :
  /\ pass \in {"repair", "decide"} /\ UNCHANGED <<pass, jr, board>>
  /\ JState(s) = "working" /\ jr[s].task \in Tasks
  /\ Repair(s) # {} /\ op' = The(Repair(s))

LEMMA OpStarts ==
  ASSUME JournalInv, QuietInv, [Next]_vars, op = None, op' # None
  PROVE  /\ Activated \/ Settled \/ Resumed \/ Recovered \/ Repaired
         /\ board' = board
<1>0. /\ Types /\ LeftBound /\ PassLeased /\ None \notin Sessions
      /\ board \in [Tasks -> SUBSET Entries]
      /\ \A s \in Sessions : jr[s] # None => jr[s].task \in Tasks \cup {None}
      /\ "done" \in Columns
  BY Scene DEF JournalInv, Types, GitTypes, RegistryTypes,
     BoardStates, Journals, JournalRows, QuietInv, Columns
<1>1. CASE Ends
  <2>0. PICK t \in Tasks : \E e \in board[t] :
          UserEnds("complete", t, e) \/ UserEnds("delete", t, e)
    BY <1>1 DEF Ends
  <2>1. PICK e \in board[t], kind \in {"complete", "delete"} : UserEnds(kind, t, e)
    BY <2>0
  <2>2. e.link \in Sessions \cup {None} /\ e.col \in Columns /\ board' = board
    BY <1>0, <2>1 DEF Entries, Columns, UserEnds
  <2>3. \E k \in {"move", "dedup", "complete", "delete", "done"}, to \in Columns :
          /\ op' = Op(k, "user", e.link, t, e, to)
          /\ k \in {"move", "complete", "done"} => to = "done"
    <3>1. CASE kind = "complete"
      <4>1. \/ op' = Op("move", "user", e.link, t, e, "done")
            \/ op' = Op("complete", "user", e.link, t, e, "done")
        BY <2>1, <3>1 DEF UserEnds, Starts
      <4> QED BY <1>0, <4>1
    <3>2. CASE kind = "delete"
      <4>1. \/ op' = Op("dedup", "user", e.link, t, e, e.col)
            \/ op' = Op("delete", "user", e.link, t, e, e.col)
        BY <2>1, <3>2 DEF UserEnds, Starts
      <4> QED BY <2>2, <4>1
    <3> QED BY <3>1, <3>2
  <2> QED BY <2>2, <2>3 DEF Settled
<1>2. CASE Activates
  BY <1>2 DEF Activates, Activated, AgentActivates, Starts
<1>3. CASE Seals
  <2>1. PICK c \in codex : AgentSeals(c)
    BY <1>3 DEF Seals
  <2> DEFINE x == The(Linked(c.s))
  <2>2. /\ One(Linked(c.s)) /\ board' = board
        /\ op' = Op("done", "agent", c.s, x[1], x[2], "done")
    BY <2>1 DEF AgentSeals, Starts
  <2>3. x \in Linked(c.s)
    BY <2>2, Chosen
  <2>4. x[1] \in Tasks /\ x[2] \in board[x[1]] /\ c.s \in Sessions \cup {None}
    BY <1>0, <2>3, LinkedFacts DEF Types, RunTypes
  <2> HIDE DEF x
  <2> QED BY <1>0, <2>2, <2>4 DEF Settled
<1>4. CASE Recovers
  <2>1. PICK w \in {"user", "pass"} : Executes(w)
    BY <1>4 DEF Recovers
  <2> QED BY <2>1 DEF Recovered, Executes, Starts
<1>5. CASE ResumeKnown
  <2> DEFINE x == The({y \in Linked(wk.s) : Ready(y[2])})
  <2>1. /\ {y \in Linked(wk.s) : Ready(y[2])} # {} /\ board' = board
        /\ op' = Op("move", "worker", wk.s, x[1], x[2], "doing") /\ wk.s # None
    BY <1>5 DEF ResumeKnown, Starts
  <2>2. x \in Linked(wk.s) /\ Ready(x[2])
    BY <2>1, Chosen
  <2>3. x[1] \in Tasks /\ x[2] \in board[x[1]] /\ x[2].link = wk.s
    BY <1>0, <2>2, LinkedFacts
  <2> HIDE DEF x
  <2> QED BY <1>5, <2>1, <2>2, <2>3 DEF Resumed, Ready
<1>6. CASE PassRelinks
  <2>1. PICK s \in Sessions : /\ JState(s) = "working" /\ ~Unbound(s)
                              /\ Repair(s) # {} /\ op' = The(Repair(s))
    BY <1>6 DEF PassRelinks, Queued, Unlinked
  <2>2. jr[s].task \in Tasks
    BY <1>0, <2>1 DEF JState, Unbound
  <2> QED BY <1>6, <2>1, <2>2 DEF PassRelinks, PassAt, Repaired, sched
<1>7. ASSUME NEW s \in Sessions, PassRepairs(s)
      PROVE  Repaired /\ board' = board
  <2>1. /\ pass = "repair" /\ s \in left /\ Repair(s) # {}
        /\ op' = The(Repair(s)) /\ UNCHANGED <<pass, jr, board>>
    BY <1>7 DEF PassRepairs, PassAt
  <2>2. jr[s].task \in Tasks /\ JState(s) = "working"
    BY <1>0, <2>1 DEF LeftBound, PassLeased
  <2> QED BY <2>1, <2>2 DEF Repaired
<1>8. CASE \/ UserDies \/ PassDies \/ WorkerDies \/ BoardStep \/ OpReleases
           \/ \E c \in codex : CodexExits(c)
  BY <1>8 DEF UserDies, PassDies, WorkerDies, CodexExits, BoardStep, OpReleases,
     At, HeldBy
<1> QED BY <1>1, <1>2, <1>3, <1>4, <1>5, <1>6, <1>7, <1>8, Footprints
        DEF OpWriters

-----------------------------------------------------------------------------
(* The lease of a pass.                                                    *)

\* A row of the lease is none of the values of None.
LEMMA LeaseIsRecord == Lease("pass") # None
<1>1. Lease("pass") \in [h : {"user", "pass", "run"}, dead : BOOLEAN]
  BY DEF Lease
<1> QED BY <1>1, NoneIsNoRow

LEMMA CommandOn ==
  ASSUME JournalInv, BoardStep
  PROVE  /\ op # None /\ op \in Commands /\ op.todo \in Todos
         /\ op.t \in Tasks /\ op.e \in Entries /\ Len(op.todo) \in Nat
         /\ op.s \in Sessions \cup {None}
<1>1. /\ op # None /\ op.t \in Tasks /\ op.e \in Entries
  BY BoardStepTypes DEF JournalInv
<1>2. op \in Commands
  BY <1>1 DEF JournalInv, LockHeld
<1>3. op.todo \in Todos /\ op.s \in Sessions \cup {None}
  BY <1>2 DEF Commands
<1> QED BY <1>1, <1>2, <1>3, TodoSteps

\* The rest of a command after a step on the board.
LEMMA StepGoesOn ==
  ASSUME JournalInv, BoardStep, op' # None
  PROVE  /\ Len(op.todo) # 1 /\ op'.by = op.by /\ op'.s = op.s /\ op'.t = op.t
         /\ op'.to = op.to /\ op'.todo = Tail(op.todo)
         /\ At("attach") => op'.e = [op.e EXCEPT !.link = op.s]
         /\ At("mark") => op'.e = [op.e EXCEPT !.stop = TRUE]
         /\ At("rename") => op'.e = MovedTo(op)
         /\ At("copy") \/ At("drop") \/ At("clean") => op'.e = op.e
<1>0. /\ op # None /\ op \in Commands /\ op.e \in Entries /\ op.todo \in Todos
      /\ op.s \in Sessions \cup {None}
  BY CommandOn
<1>1. \/ At("attach") /\ OpDone([op.e EXCEPT !.link = op.s])
      \/ At("mark") /\ OpDone([op.e EXCEPT !.stop = TRUE])
      \/ At("rename") /\ OpDone(MovedTo(op))
      \/ At("copy") /\ OpDone(op.e)
      \/ At("drop") /\ OpDone(op.e)
      \/ At("remove") /\ OpDone(op.e)
      \/ At("clean") /\ OpDone(op.e)
  BY DEF BoardStep, MovedTo
<1>2. At("rename") => MovedTo(op) \in Entries
  <2>1. At("rename") => Moves(op)
    <3>1. 1 \in 1..Len(op.todo)
      BY <1>0, TodoSteps
    <3> QED BY <3>1 DEF At, Moves
  <2>2. At("rename") => op.to \in Columns
    BY <1>0, <2>1 DEF JournalInv, LockHeld
  <2> QED BY <1>0, <2>2, EntryTypes DEF MovedTo
<1>3. [op.e EXCEPT !.link = op.s] \in Entries /\ [op.e EXCEPT !.stop = TRUE] \in Entries
  BY <1>0, EntryTypes
<1> DEFINE rest(e) == /\ Len(op.todo) # 1 /\ op'.by = op.by /\ op'.s = op.s
                      /\ op'.t = op.t /\ op'.to = op.to
                      /\ op'.todo = Tail(op.todo) /\ op'.e = e
           linked == [op.e EXCEPT !.link = op.s]
           marked == [op.e EXCEPT !.stop = TRUE]
<1>4. ASSUME NEW e \in Entries, OpDone(e) PROVE rest(e)
  BY <1>0, <1>4, OpContinues
<1>5. CASE At("attach") /\ OpDone([op.e EXCEPT !.link = op.s])
  <2>1. ~At("mark") /\ ~At("rename") /\ ~At("copy") /\ ~At("drop") /\ ~At("clean")
    BY <1>5 DEF At
  <2>2. rest(linked)
    BY <1>3, <1>4, <1>5
  <2> QED BY <2>1, <2>2
<1>6. CASE At("mark") /\ OpDone([op.e EXCEPT !.stop = TRUE])
  <2>1. ~At("attach") /\ ~At("rename") /\ ~At("copy") /\ ~At("drop") /\ ~At("clean")
    BY <1>6 DEF At
  <2>2. rest(marked)
    BY <1>3, <1>4, <1>6
  <2> QED BY <2>1, <2>2
<1>7. CASE At("rename") /\ OpDone(MovedTo(op))
  <2>1. ~At("attach") /\ ~At("mark") /\ ~At("copy") /\ ~At("drop") /\ ~At("clean")
    BY <1>7 DEF At
  <2> QED BY <1>2, <1>4, <1>7, <2>1
<1>8. CASE (At("copy") \/ At("drop") \/ At("remove") \/ At("clean")) /\ OpDone(op.e)
  <2>1. ~At("attach") /\ ~At("mark") /\ ~At("rename")
    BY <1>8 DEF At
  <2> QED BY <1>0, <1>4, <1>8, <2>1
<1> QED BY <1>1, <1>5, <1>6, <1>7, <1>8

\* Nobody but the pass itself ends its lease.
LEMMA LeaseKept ==
  ASSUME JournalInv, QuietInv, [Next]_vars, pass \in {"fin", "repair"}
  PROVE  lease' = Lease("pass") \/ pass' \in {"idle", "branch", "decide"}
<1>0. /\ lease = Lease("pass") /\ wk = None
      /\ HeldBy("pass") => ~Frees(op)
      /\ lease # Lease("user") /\ lease # Lease("run") /\ lease # None
      /\ lease.h = "pass" /\ ~lease.dead
  <2>1. lease = Lease("pass") /\ wk = None /\ (HeldBy("pass") => ~Frees(op))
    BY DEF QuietInv, PassLeased, PassQuiet
  <2>2. lease # None
    BY <2>1, LeaseIsRecord
  <2> QED BY <2>1, <2>2 DEF Lease
<1>1. CASE OpReleases
  <2>1. op # None /\ op \in Commands /\ op.todo[1] = "release"
    BY <1>1 DEF OpReleases, At, JournalInv, LockHeld
  <2>2. Frees(op)
    <3>1. 1 \in 1..Len(op.todo)
      BY <2>1, TodoSteps DEF Commands
    <3> QED BY <2>1, <3>1 DEF Frees, Has
  <2>3. op.by # "pass"
    BY <1>0, <2>1, <2>2 DEF HeldBy
  <2> QED BY <1>0, <1>1, <2>3 DEF OpReleases, Lease
<1>2. CASE BoardStep \/ LeaseExpires \/ UNCHANGED vars
  BY <1>0, <1>2 DEF vars, BoardStep, LeaseExpires
<1>3. CASE PassNext
  BY <1>0, <1>3 DEF PassNext, Executes, CanExecute, BeginIdle, PassRetires,
     PassPlans, PassGates, PassReports, PassPlansBranch, PassReconciles,
     PassRepairs, PassReleases, PassRelinks, PassDecides, PassAt
<1>4. CASE WorkerNext
  BY <1>0, <1>4 DEF WorkerNext, PrepareFresh, RecordLaunch, Register,
     EnableGit, ResumeKnown, ResumeRefused, WorkerSettles, Abandon,
     RowRecovered, WorkerUp
<1>5. CASE AgentNext
  BY <1>0, <1>5 DEF AgentNext, CodexExits, AgentActivates, AgentSeals
<1>6. CASE UserNext
  <2>1. ASSUME NEW t \in Tasks, NEW e \in board[t], NEW kind,
               UserEnds(kind, t, e)
        PROVE  lease' = lease
    BY <1>0, <2>1 DEF UserEnds, ProjectIdle
  <2>2. CASE Ends
    BY <1>0, <2>1, <2>2 DEF Ends
  <2>3. CASE \/ UserCommits \/ UserSwitches \/ UserSetsMode \/ UserDeclines
             \/ Executes("user")
    BY <1>0, <2>3 DEF Executes, CanExecute, BeginIdle, UserCommits,
       UserSwitches, UserSetsMode, UserDeclines
  <2>4. CASE ~Ends
    BY <1>0, <1>6, <2>3, <2>4 DEF UserNext, Ends, UserStops, UserResumes,
       UserPlans, CancelOrphan, UserAdds, UserUnlinks
  <2> QED BY <2>2, <2>4
<1>7. CASE FaultNext
  BY <1>0, <1>7 DEF FaultNext, UserDies, PassDies, WorkerDies, Rebuild, Widow
<1> QED BY <1>1, <1>2, <1>3, <1>4, <1>5, <1>6, <1>7 DEF Next

LEMMA PassLeasedStep ==
  ASSUME JournalInv, QuietInv, [Next]_vars
  PROVE  PassLeased'
<1>0. /\ Types /\ PassLeased /\ PassQuiet /\ None \notin Journals
      /\ jr \in [Sessions -> Journals \cup {None}]
  BY Scene DEF JournalInv, Types, GitTypes, RegistryTypes, QuietInv
<1>1. ASSUME pass' \in {"fin", "repair"} PROVE lease' = Lease("pass")
  <2>1. CASE pass \in {"fin", "repair"}
    BY <1>1, <2>1, LeaseKept
  <2>2. CASE PassGates
    BY <1>1, <2>2 DEF PassGates
  <2> QED BY <1>1, <2>1, <2>2, StageMoves DEF PassReconciles, PassAt
<1>2. ASSUME HeldBy("pass")', pass' # "idle" PROVE ~Frees(op)'
  <2>1. CASE op = None
    <3>1. op' # None /\ op'.by = "pass"
      BY <1>2 DEF HeldBy
    <3>2. Repaired
      BY <1>2, <2>1, <3>1, OpStarts DEF Activated, Settled, Resumed, Recovered, Op
    <3>3. PICK s \in Sessions : /\ JState(s) = "working" /\ jr[s].task \in Tasks
                                /\ Repair(s) # {} /\ op' = The(Repair(s))
      BY <3>2 DEF Repaired
    <3>4. PICK kind \in {"move", "dedup", "activate", "relink"},
               e \in board[jr[s].task], to \in {"doing", None} :
            op' = Op(kind, "pass", s, jr[s].task, e, to)
      BY <1>0, <3>3, RepairKinds
    <3>5. op'.todo = Steps(kind, e) /\ kind \in Kinds
      BY <3>4 DEF Op, Kinds
    <3> QED BY <3>4, <3>5, StepsShape DEF Frees
  <2>2. CASE op # None /\ op' = op
    <3>1. pass # "idle"
      <4>1. pass = "idle" => PassRetires
        BY <1>2, StageMoves DEF PassGates, PassReports, PassReconciles,
           PassRepairs, PassReleases, PassAt
      <4> QED BY <2>2, <4>1 DEF PassRetires
    <3> QED BY <1>0, <1>2, <2>2, <3>1 DEF PassLeased, HeldBy, Frees
  <2>3. CASE BoardStep
    <3>1. op' # None
      BY <1>2 DEF HeldBy
    <3>2. /\ Len(op.todo) # 1 /\ op'.by = op.by /\ op'.todo = Tail(op.todo)
          /\ op # None /\ op.todo \in Todos /\ pass' = pass
      BY <2>3, <3>1, StepGoesOn, CommandOn DEF BoardStep, sched
    <3>3. ~Has(op.todo, "release")
      BY <1>0, <1>2, <3>1, <3>2 DEF PassLeased, HeldBy, Frees
    <3> QED BY <3>2, <3>3, TailHas DEF Frees
  <2> QED BY <1>2, <2>1, <2>2, <2>3, OpGoes DEF HeldBy
<1>3. ASSUME pass' = "repair", NEW s \in left' PROVE JState(s)' = "working"
  <2>1. CASE PassReconciles
    <3>1. s \in Sessions /\ JState(s) = "working" /\ jr'[s] \in Reconciled(jr[s])
      BY <2>1 DEF PassReconciles
    <3>2. jr'[s] = jr[s]
      BY <3>1, ReconciledFacts DEF JState
    <3> QED BY <3>1, <3>2 DEF JState
  <2>2. CASE pass = "repair" /\ left' \subseteq left
    <3>1. /\ s \in Sessions /\ JState(s) = "working" /\ jr[s] # None
          /\ jr[s].st = "working" /\ jr[s] \in Journals
      BY <1>0, <2>2 DEF PassLeased, JState, Types, PassTypes
    <3>2. AllIdle /\ wk = None /\ lease # None
      <4>1. SomePending
        BY <3>1 DEF SomePending, IsPending, Pending
      <4>2. lease # None
        BY <1>0, <2>2, LeaseIsRecord DEF PassLeased
      <4> QED BY <1>0, <2>2, <4>1, <4>2 DEF PassQuiet
    <3>3. ASSUME NEW k \in Journals, k.st = "working", jr'[s] = k
          PROVE  JState(s)' = "working"
      BY <1>0, <3>3 DEF JState
    <3>4. CASE jr'[s] = jr[s]
      BY <3>1, <3>3, <3>4
    <3>5. CASE Binds(s)
      <4>1. PICK t \in Tasks : jr'[s] = [jr[s] EXCEPT !.task = t]
        BY <3>5 DEF Binds
      <4> QED BY <3>1, <3>3, <4>1, BoundFields
    <3>6. CASE Rotates(s)
      <4>1. PICK o \in Tokens : jr'[s] = [jr[s] EXCEPT !.own = o]
        BY <3>6 DEF Rotates
      <4> QED BY <3>1, <3>3, <4>1, RotatedFields
    <3>7. CASE Advances(s)
      <4>1. PICK c \in codex : c.s = s /\ AgentSeals(c)
        BY <3>1, <3>7 DEF Advances
      <4>2. InRun(s)
        BY <4>1 DEF AgentSeals, RunsIn, InRun
      <4> QED BY <1>0, <3>1, <3>2, <4>2, RunOrRest DEF AllIdle
    <3>8. ~Opens(s) /\ ~Retires(s)
      BY <3>1, <3>2 DEF Opens, Retires
    <3> QED BY <3>1, <3>4, <3>5, <3>6, <3>7, <3>8, JournalMoves DEF JournalMove
  <2> QED BY <1>3, <2>1, <2>2, RepairStage
<1> QED BY <1>1, <1>2, <1>3 DEF PassLeased

-----------------------------------------------------------------------------
(* The entries of a task.                                                  *)

\* What a step of the holder of the lock does to the entries of its task.
LEMMA BoardChange ==
  ASSUME JournalInv, Attaching, Moving, Cleaning, BoardStep
  PROVE  /\ \A t \in Tasks : t # op.t => board'[t] = board[t]
         /\ \/ /\ At("attach")
               /\ board'[op.t] = (board[op.t] \ {op.e})
                                 \cup {[op.e EXCEPT !.link = op.s]}
            \/ /\ At("mark") /\ Cleans(op)
               /\ board'[op.t] = (board[op.t] \ {op.e})
                                 \cup {[op.e EXCEPT !.stop = TRUE]}
            \/ At("copy") /\ board'[op.t] = board[op.t] \cup {MovedTo(op)}
            \/ /\ At("rename")
               /\ board'[op.t] = (board[op.t] \ {op.e}) \cup {MovedTo(op)}
            \/ /\ At("drop") \/ At("remove")
               /\ board'[op.t] = board[op.t] \ {op.e}
            \/ /\ At("clean") /\ Cleans(op)
               /\ board'[op.t] = (board[op.t] \ {MovedTo(op)})
                                 \cup {Entry("todo", None, FALSE)}
<1>0. /\ op # None /\ op.todo \in Todos /\ op.t \in Tasks /\ op.e \in Entries
      /\ board \in [Tasks -> SUBSET Entries] /\ None \notin Sessions
  BY CommandOn, Scene DEF JournalInv, Types, GitTypes, BoardStates
<1>1. ASSUME NEW old, NEW new, Put(old, new)
      PROVE  /\ \A t \in Tasks : t # op.t => board'[t] = board[t]
             /\ board'[op.t] = (board[op.t] \ old) \cup new
  BY <1>0, <1>1 DEF Put
<1>2. ASSUME At("mark") PROVE Cleans(op)
  <2>1. Len(op.todo) # 1 /\ op.todo[1] = "mark"
    BY <1>0, <1>2 DEF At, Todos
  <2> QED BY <1>0, <2>1, NextStep DEF Cleans
<1>3. ASSUME At("clean")
      PROVE  /\ Cleans(op)
             /\ The({x \in board[op.t] : x.col = "todo" /\ x.link = op.s})
                  = MovedTo(op)
  <2>1. Cleans(op)
    <3>1. 1 \in 1..Len(op.todo) /\ op.todo[1] = "clean"
      BY <1>0, <1>3, TodoSteps DEF At
    <3> QED BY <3>1 DEF Cleans, Has
  <2>2. /\ LinkedOn(op.t) = {MovedTo(op)} /\ op.to = "todo"
        /\ op.e.link = op.s /\ op.s \in Sessions
    BY <1>0, <1>3, <2>1 DEF Cleaning
  <2>3. MovedTo(op).col = "todo" /\ MovedTo(op).link = op.s
    BY <1>0, <2>2 DEF MovedTo, Entries
  <2>4. {x \in board[op.t] : x.col = "todo" /\ x.link = op.s} = {MovedTo(op)}
    BY <1>0, <2>2, <2>3 DEF LinkedOn
  <2> QED BY <2>1, <2>4, Chosen
<1>4. CASE At("attach") /\ Put({op.e}, {[op.e EXCEPT !.link = op.s]})
  BY <1>1, <1>4
<1>5. CASE At("mark") /\ Put({op.e}, {[op.e EXCEPT !.stop = TRUE]})
  BY <1>1, <1>2, <1>5
<1>6. CASE At("copy") /\ Put({}, {MovedTo(op)})
  <2>1. board'[op.t] = (board[op.t] \ {}) \cup {MovedTo(op)}
    BY <1>1, <1>6
  <2>2. board'[op.t] = board[op.t] \cup {MovedTo(op)}
    BY <2>1
  <2> QED BY <1>1, <1>6, <2>2
<1>7. CASE At("rename") /\ Put({op.e}, {MovedTo(op)})
  BY <1>1, <1>7
<1>8. CASE (At("drop") \/ At("remove")) /\ Put({op.e}, {})
  <2>1. board'[op.t] = (board[op.t] \ {op.e}) \cup {}
    BY <1>1, <1>8
  <2>2. board'[op.t] = board[op.t] \ {op.e}
    BY <2>1
  <2> QED BY <1>1, <1>8, <2>2
<1>9. CASE At("clean") /\ Put({MovedTo(op)}, {Entry("todo", None, FALSE)})
  BY <1>1, <1>3, <1>9
<1> QED BY <1>3, <1>4, <1>5, <1>6, <1>7, <1>8, <1>9 DEF BoardStep, MovedTo

\* The fields of the entries a step writes.
LEMMA Written ==
  ASSUME JournalInv, BoardStep
  PROVE  /\ [op.e EXCEPT !.link = op.s].link = op.s
         /\ [op.e EXCEPT !.link = op.s].col = op.e.col
         /\ [op.e EXCEPT !.stop = TRUE].link = op.e.link
         /\ [op.e EXCEPT !.stop = TRUE].col = op.e.col
         /\ MovedTo(op).link = op.e.link /\ MovedTo(op).col = op.to
         /\ op.e.link = op.s => [op.e EXCEPT !.link = op.s] = op.e
         /\ Entry("todo", None, FALSE).link = None
<1>1. op.e \in Entries
  BY CommandOn
<1> QED BY <1>1 DEF Entries, MovedTo, Entry

\* A free entry is the only active one of its task and nothing is linked.
LEMMA FreeAlone ==
  ASSUME OneLink, NEW t \in Tasks, NEW f \in board[t], Free(f),
         NEW e \in board[t]
  PROVE  e.link = None /\ (e.col \in Active => e = f)
BY DEF OneLink

LEMMA OneLinkStep ==
  ASSUME JournalInv, QuietInv, LinksStay, BoardInv, [Next]_vars
  PROVE  OneLink'
<1>0. /\ OneLink /\ Attaching /\ Moving /\ Cleaning /\ Tasks' = Tasks
      /\ None \notin Sessions
  BY SceneKept, Scene DEF BoardInv, JournalInv, Types, GitTypes
<1> SUFFICES ASSUME NEW t \in Tasks, NEW e \in board'[t], NEW f \in board'[t]
             PROVE  /\ e.link # None /\ f.link # None => e.link = f.link
                    /\ e.link # None => ~Free(f)
                    /\ e.col \in Active /\ Free(f) => e = f
  BY <1>0 DEF OneLink, Free
<1>1. CASE board'[t] = board[t]
  BY <1>0, <1>1 DEF OneLink
<1>2. CASE \E x \in Tasks : UserAdds(x)
  <2>1. PICK x \in Tasks : UserAdds(x)
    BY <1>2
  <2>2. board'[x] = {Entry("todo", None, FALSE)} /\ (t # x => board'[t] = board[t])
    BY <2>1 DEF UserAdds, JournalInv, Types, GitTypes, BoardStates
  <2>3. Entry("todo", None, FALSE).link = None
    BY DEF Entry
  <2>4. CASE t = x
    <3>1. e = Entry("todo", None, FALSE) /\ f = e
      BY <2>2, <2>4
    <3> QED BY <2>3, <3>1
  <2> QED BY <1>1, <2>2, <2>4
<1>3. CASE BoardStep /\ t = op.t
  <2>0. op # None /\ op.e \in Entries /\ Cleans(op) => op.e.link # None
    BY <1>0 DEF Cleaning
  <2>1. CASE At("attach") /\ board'[t] = (board[t] \ {op.e})
                                \cup {[op.e EXCEPT !.link = op.s]}
    <3>1. /\ op.e \in board[t] /\ op.e.col \in Active
          /\ op.s \in Sessions /\ op.e.link \in {None, op.s}
      BY <1>0, <1>3, <2>1 DEF Attaching
    <3>2. CASE op.e.link = op.s
      BY <1>1, <1>3, <2>1, <3>1, <3>2, Written
    <3>3. CASE op.e.link = None
      <4>1. \A x \in board[t] : x # op.e => x.link = None /\ x.col \notin Active
        BY <1>0, <3>1, <3>3, FreeAlone DEF Free
      <4>2. [op.e EXCEPT !.link = op.s].link = op.s
        BY <1>3, Written
      <4> QED BY <1>0, <2>1, <3>1, <4>1, <4>2 DEF Free
    <3> QED BY <3>1, <3>2, <3>3
  <2>2. CASE At("mark") /\ Cleans(op)
             /\ board'[t] = (board[t] \ {op.e})
                                 \cup {[op.e EXCEPT !.stop = TRUE]}
    <3>1. LinkedOn(t) = {op.e}
      BY <1>0, <1>3, <2>2 DEF Cleaning, At
    <3>2. [op.e EXCEPT !.stop = TRUE].link = op.e.link
      BY <1>3, Written
    <3>3. \A x \in board[t] : x # op.e => x.link = None /\ ~Free(x)
      BY <1>0, <3>1 DEF LinkedOn, OneLink
    <3>4. op.e.link # None
      BY <3>1 DEF LinkedOn
    <3>5. ASSUME NEW x \in board'[t]
          PROVE  ~Free(x) /\ x.link \in {None, op.e.link}
      BY <2>2, <3>2, <3>3, <3>4 DEF Free
    <3> QED BY <3>5
  <2>3. CASE (At("copy") \/ At("rename"))
             /\ board'[t] \subseteq board[t] \cup {MovedTo(op)}
    <3>1. op.e \in board[t] /\ (op.to \in Active => op.e.link # None)
      BY <1>0, <1>3, <2>3 DEF Moving
    <3>2. MovedTo(op).link = op.e.link /\ MovedTo(op).col = op.to
      BY <1>3, Written
    <3> HIDE DEF MovedTo
    <3> QED BY <1>0, <2>3, <3>1, <3>2 DEF OneLink, Free
  <2>4. CASE board'[t] \subseteq board[t]
    BY <1>0, <2>4 DEF OneLink
  <2>5. CASE At("clean") /\ Cleans(op)
             /\ board'[t] = (board[t] \ {MovedTo(op)})
                               \cup {Entry("todo", None, FALSE)}
    <3>1. LinkedOn(t) = {MovedTo(op)}
      BY <1>0, <1>3, <2>5 DEF Cleaning, At
    <3>2. \A x \in board[t] : x # MovedTo(op) => x.link = None /\ ~Free(x)
      BY <1>0, <3>1 DEF LinkedOn, OneLink
    <3>3. Entry("todo", None, FALSE).link = None
      BY DEF Entry
    <3> HIDE DEF MovedTo
    <3> QED BY <2>5, <3>2, <3>3 DEF Free
  <2> QED BY <1>0, <1>3, <2>1, <2>2, <2>3, <2>4, <2>5, BoardChange
<1>4. CASE BoardStep /\ t # op.t
  BY <1>0, <1>1, <1>4, BoardChange
<1> QED BY <1>1, <1>2, <1>3, <1>4, BoardGoes


\* A pass that works on the board does nothing else.
LEMMA StageFrozen ==
  ASSUME [Next]_vars, HeldBy("pass"), op' = op
  PROVE  pass' = pass
<1> USE DEF sched
<1>0. op # None
  BY DEF HeldBy
<1>1. CASE BoardStep \/ OpReleases \/ LeaseExpires \/ UNCHANGED vars
  BY <1>1 DEF vars, BoardStep, OpReleases, LeaseExpires
<1>2. CASE PassNext
  BY <1>0, <1>2 DEF PassNext, Executes, PassRetires, PassPlans, PassGates,
     PassReports, PassPlansBranch, PassReconciles, PassRepairs, PassReleases,
     PassRelinks, PassDecides, PassAt
<1>3. CASE WorkerNext
  BY <1>3 DEF WorkerNext, PrepareFresh, RecordLaunch, Register, EnableGit,
     ResumeKnown, ResumeRefused, WorkerSettles, Abandon, RowRecovered
<1>4. CASE AgentNext
  BY <1>4 DEF AgentNext, CodexExits, AgentActivates, AgentSeals
<1>5. CASE UserNext
  <2>1. ASSUME NEW t \in Tasks, NEW e \in board[t], NEW kind, UserEnds(kind, t, e)
        PROVE  pass' = pass
    BY <2>1 DEF UserEnds
  <2>2. CASE Executes("user")
    BY <2>2 DEF Executes
  <2>3. CASE ~Executes("user") /\ ~Ends
    BY <1>5, <2>3 DEF UserNext, Ends, UserCommits, UserSwitches, UserSetsMode,
       UserDeclines, UserStops, UserResumes, UserPlans, CancelOrphan, UserAdds,
       UserUnlinks
  <2> QED BY <2>1, <2>2, <2>3 DEF Ends
<1>6. CASE FaultNext
  BY <1>0, <1>6 DEF FaultNext, UserDies, PassDies, WorkerDies, Rebuild
<1> QED BY <1>1, <1>2, <1>3, <1>4, <1>5, <1>6 DEF Next

-----------------------------------------------------------------------------
(* Journals and their tasks.                                               *)

LEMMA BoundFacts ==
  ASSUME Types, NEW s \in Sessions, Bound(s)
  PROVE  jr[s] \in Journals /\ jr[s] # None /\ jr[s].task \in Tasks
BY DEF Types, RegistryTypes, Bound, IsPending, JState, Pending, Journals,
   JournalRows

\* The one task that names a session whose journal is opened when the project
\* turns Git on.
LEMMA EnableFacts ==
  ASSUME JournalInv, EnableGit, jr' # jr
  PROVE  /\ op = None /\ op' = op /\ board' = board
         /\ \E t \in Tasks : \E e \in board[t] :
              /\ e.link = wk.s /\ e.link # None
              /\ jr' = [jr EXCEPT ![wk.s] =
                          Journal(t, wk.run, tip'[branch], branch)]
<1>1. /\ CanEnable(wk.s) /\ op = None /\ op' = op /\ board' = board
      /\ wk.s # None
      /\ jr' = [jr EXCEPT ![wk.s] = Journal(The(Linked(wk.s))[1], wk.run,
                                            tip'[branch], branch)]
  BY DEF EnableGit
<1>2. The(Linked(wk.s)) \in Linked(wk.s)
  BY <1>1, Chosen DEF CanEnable
<1>3. /\ The(Linked(wk.s))[1] \in Tasks
      /\ The(Linked(wk.s))[2] \in board[The(Linked(wk.s))[1]]
      /\ The(Linked(wk.s))[2].link = wk.s
  BY <1>2, LinkedFacts DEF JournalInv
<1> QED BY <1>1, <1>3

\* How a journal comes to be bound.
BindsNow(s) ==
  \E c \in codex : \E t \in Tasks : \E e \in board[t] :
    c.s = s /\ AgentActivates(c, t, e) /\ jr'[s].task = t /\ InRun(s)
EnablesNow(s) ==
  /\ EnableGit /\ wk.s = s /\ AllIdle
  /\ \E e \in board[jr'[s].task] : e.link = s

LEMMA BoundBegins ==
  ASSUME JournalInv, QuietInv, [Next]_vars, NEW s \in Sessions, Bound(s)'
  PROVE  \/ Bound(s) /\ jr'[s].task = jr[s].task
         \/ op = None /\ board' = board /\ (BindsNow(s) \/ EnablesNow(s))
<1>0. /\ Types /\ jr \in [Sessions -> Journals \cup {None}]
      /\ None \notin Journals /\ None \notin Sessions
  BY Scene DEF JournalInv, Types, GitTypes, RegistryTypes
<1>1. jr'[s] # None /\ jr'[s].st \in Pending /\ jr'[s].task # None
  BY DEF Bound, IsPending, JState, Pending
<1>2. ASSUME jr[s] # None, jr[s].st \in Pending, jr'[s].task = jr[s].task
      PROVE  Bound(s) /\ jr'[s].task = jr[s].task
  BY <1>1, <1>2 DEF Bound, IsPending, JState
<1>3. CASE jr'[s] = jr[s]
  BY <1>1, <1>2, <1>3
<1>4. CASE Opens(s)
  <2>1. EnableGit /\ wk.s = s /\ AllIdle
    BY <1>1, <1>4, OpensAlone
  <2>2. jr' # jr
    BY <1>0, <1>4 DEF Opens
  <2>3. PICK t \in Tasks : \E e \in board[t] :
          /\ e.link = s
          /\ jr' = [jr EXCEPT ![s] = Journal(t, wk.run, tip'[branch], branch)]
    BY <2>1, <2>2, EnableFacts
  <2>4. jr'[s].task = t
    BY <1>0, <2>3 DEF Journal
  <2> QED BY <2>1, <2>2, <2>3, <2>4, EnableFacts DEF EnablesNow
<1>5. CASE Binds(s)
  <2>1. PICK t \in Tasks : /\ jr'[s] = [jr[s] EXCEPT !.task = t]
                           /\ \E c \in codex : /\ c.s = s
                                               /\ \E e \in board[t] :
                                                    AgentActivates(c, t, e)
    BY <1>5 DEF Binds
  <2>2. jr[s] # None /\ jr[s] \in Journals
    BY <1>0, <1>5 DEF Binds, JState
  <2>3. jr'[s].task = t
    BY <2>1, <2>2, BoundFields
  <2>4. PICK c \in codex, e \in board[t] : c.s = s /\ AgentActivates(c, t, e)
    BY <2>1
  <2>5. op = None /\ board' = board /\ InRun(s)
    BY <2>4 DEF AgentActivates, Starts, RunsIn, InRun
  <2> QED BY <2>3, <2>4, <2>5 DEF BindsNow
<1>6. CASE Rotates(s)
  <2>1. PICK o \in Tokens : jr'[s] = [jr[s] EXCEPT !.own = o]
    BY <1>6 DEF Rotates
  <2>2. jr[s] # None /\ jr[s] \in Journals
    BY <1>0, <1>6 DEF Rotates
  <2> QED BY <1>1, <1>2, <2>1, <2>2, RotatedFields
<1>7. CASE Advances(s)
  <2>1. PICK st \in {"sealed", "push_pending", "completed"} :
          jr'[s] = [jr[s] EXCEPT !.st = st]
    BY <1>7 DEF Advances
  <2>2. jr[s] # None /\ jr[s] \in Journals /\ jr[s].st \in Pending
    BY <1>0, <1>7 DEF Advances, JState, Pending
  <2> QED BY <1>2, <2>1, <2>2, AdvancedFields
<1>8. CASE Retires(s)
  <2>1. PICK why \in Whys : jr'[s] = Cancelled(jr[s], why)
    BY <1>8 DEF Retires
  <2>2. jr[s] \in Journals
    BY <1>0, <1>8 DEF Retires, JState
  <2>3. jr'[s].st = "cancelled"
    BY <2>1, <2>2, RetiredFields
  <2> QED BY <1>1, <2>3 DEF Pending
<1> QED BY <1>3, <1>4, <1>5, <1>6, <1>7, <1>8, JournalMoves DEF JournalMove

\* Nobody else has a bound journal on the task that an agent starts.
LEMMA StartsFree ==
  ASSUME BoardInv, NEW c \in codex, NEW t \in Tasks, NEW e \in board[t],
         AgentActivates(c, t, e), c.s \in Sessions,
         NEW s \in Sessions, Bound(s), jr[s].task = t
  PROVE  s = c.s
<1>1. e.col \in Active /\ e.link \in {None, c.s} /\ InRun(c.s)
  BY DEF AgentActivates, Ready, Active, RunsIn, InRun
<1>2. CASE e.link = None
  <2>1. Bare(s)
    BY <1>1, <1>2 DEF Bare, Free
  <2> QED BY <1>1, <2>1 DEF BoardInv, BareFence
<1>3. CASE e.link # None
  BY <1>1, <1>3 DEF BoardInv, NamesNoOther
<1> QED BY <1>2, <1>3

LEMMA OneAttemptStep ==
  ASSUME JournalInv, QuietInv, LinksStay, BoardInv, [Next]_vars
  PROVE  OneAttemptPerTask'
<1>0. Types /\ OneAttemptPerTask /\ NamesNoOther
  BY DEF JournalInv, BoardInv
<1> SUFFICES ASSUME NEW s \in Sessions, NEW x \in Sessions, Bound(s)', Bound(x)',
                    jr'[s].task = jr'[x].task
             PROVE  s = x
  BY DEF OneAttemptPerTask, Bound, IsPending, JState
<1> DEFINE Old(y) == Bound(y) /\ jr'[y].task = jr[y].task
<1>1. CASE Old(s) /\ Old(x)
  BY <1>0, <1>1 DEF OneAttemptPerTask, Bound
<1>2. ASSUME NEW y \in Sessions, NEW z \in Sessions, BindsNow(y),
             jr'[y].task = jr'[z].task, Old(z) \/ BindsNow(z)
      PROVE  y = z
  <2>1. PICK c \in codex, t \in Tasks : \E e \in board[t] :
          c.s = y /\ AgentActivates(c, t, e) /\ jr'[y].task = t
    BY <1>2 DEF BindsNow
  <2>2. PICK e \in board[t] : AgentActivates(c, t, e)
    BY <2>1
  <2>3. CASE Old(z)
    BY <1>2, <2>1, <2>2, <2>3, StartsFree
  <2>4. CASE BindsNow(z)
    <3>1. PICK d \in codex : d.s = z /\ \E u \in Tasks : \E f \in board[u] :
                                          AgentActivates(d, u, f)
      BY <2>4 DEF BindsNow
    <3>2. op'.s = y /\ op'.s = z
      BY <2>1, <2>2, <3>1 DEF AgentActivates, Starts, Op
    <3> QED BY <3>2
  <2> QED BY <1>2, <2>3, <2>4
<1>3. ASSUME NEW y \in Sessions, NEW z \in Sessions, EnablesNow(y),
             jr'[y].task = jr'[z].task, Old(z) \/ EnablesNow(z)
      PROVE  y = z
  BY <1>0, <1>3, Scene DEF EnablesNow, NamesNoOther, JournalInv, Types, GitTypes
<1>4. ASSUME NEW y \in Sessions, NEW z \in Sessions, BindsNow(y), EnablesNow(z)
      PROVE  FALSE
  BY <1>0, <1>4, RunOrRest DEF BindsNow, EnablesNow, AllIdle
<1> HIDE DEF Old
<1>5. \A y \in {s, x} : Old(y) \/ BindsNow(y) \/ EnablesNow(y)
  BY BoundBegins DEF Old
<1> QED BY <1>1, <1>2, <1>3, <1>4, <1>5


LEMMA NamesNoOtherStep ==
  ASSUME JournalInv, QuietInv, LinksStay, BoardInv, [Next]_vars
  PROVE  NamesNoOther'
<1>0. /\ Types /\ NamesNoOther /\ OneLink /\ Attaching /\ Moving /\ Cleaning
      /\ None \notin Sessions
  BY Scene DEF JournalInv, BoardInv, Types, GitTypes
<1> SUFFICES ASSUME NEW s \in Sessions, Bound(s)', NEW e \in board'[jr'[s].task]
             PROVE  e.link \in {None, s}
  BY DEF NamesNoOther
<1>1. CASE Bound(s) /\ jr'[s].task = jr[s].task
  <2> DEFINE t == jr[s].task
  <2>0. t \in Tasks
    BY <1>0, <1>1, BoundFacts
  <2>1. CASE board'[t] = board[t]
    BY <1>0, <1>1, <2>1 DEF NamesNoOther
  <2>2. ASSUME NEW x \in Tasks, UserAdds(x), x = t PROVE e.link = None
    <3>1. board'[x] = {Entry("todo", None, FALSE)}
      BY <2>2 DEF UserAdds, JournalInv, Types, GitTypes, BoardStates
    <3> QED BY <1>1, <2>2, <3>1 DEF Entry
  <2>3. ASSUME NEW x \in Tasks, UserAdds(x), x # t PROVE board'[t] = board[t]
    BY <2>3 DEF UserAdds
  <2>4. CASE BoardStep /\ t = op.t
    <3>1. At("copy") \/ At("rename") \/ At("mark") => op.e \in board[t]
      <4>1. At("mark") => Cleans(op)
        BY <1>0, <2>4, BoardChange DEF At
      <4>2. At("mark") => op.e \in LinkedOn(t)
        BY <1>0, <2>4, <4>1 DEF Cleaning, At
      <4> QED BY <1>0, <2>4, <4>2 DEF Moving, LinkedOn
    <3>2. At("attach") => s = op.s
      BY <1>0, <1>1, <2>4 DEF Attaching
    <3>3. \/ e \in board[t]
          \/ At("attach") /\ e = [op.e EXCEPT !.link = op.s]
          \/ At("mark") /\ e = [op.e EXCEPT !.stop = TRUE]
          \/ (At("copy") \/ At("rename")) /\ e = MovedTo(op)
          \/ e = Entry("todo", None, FALSE)
      BY <1>0, <1>1, <2>4, BoardChange
    <3>4. op.e \in board[t] => op.e.link \in {None, s}
      BY <1>0, <1>1 DEF NamesNoOther
    <3>5. e \in board[t] => e.link \in {None, s}
      BY <1>0, <1>1 DEF NamesNoOther
    <3> HIDE DEF t
    <3> QED BY <2>4, <3>1, <3>2, <3>3, <3>4, <3>5, Written
  <2>5. CASE BoardStep /\ t # op.t
    BY <1>0, <2>0, <2>1, <2>5, BoardChange
  <2> QED BY <2>1, <2>2, <2>3, <2>4, <2>5, BoardGoes
<1>2. CASE board' = board /\ EnablesNow(s)
  <2>1. PICK f \in board[jr'[s].task] : f.link = s
    BY <1>2 DEF EnablesNow
  <2>2. jr'[s].task \in Tasks
    BY <1>0, TypesStep, SceneKept, BoundFacts DEF JournalInv, Types, RegistryTypes,
       Bound, IsPending, JState, Pending, Journals, JournalRows
  <2> QED BY <1>0, <1>2, <2>1, <2>2 DEF OneLink
<1>3. CASE board' = board /\ BindsNow(s)
  <2>1. PICK c \in codex, t \in Tasks : \E f \in board[t] :
          c.s = s /\ AgentActivates(c, t, f) /\ jr'[s].task = t
    BY <1>3 DEF BindsNow
  <2>2. PICK f \in board[t] : AgentActivates(c, t, f)
    BY <2>1
  <2>3. f.col \in Active /\ f.link \in {None, s}
    BY <2>1, <2>2 DEF AgentActivates, Ready, Active
  <2>4. e \in board[t]
    BY <1>3, <2>1
  <2>5. CASE f.link = None
    BY <1>0, <2>3, <2>4, <2>5, FreeAlone DEF Free
  <2>6. CASE f.link = s
    BY <1>0, <2>4, <2>6 DEF OneLink
  <2> QED BY <2>3, <2>5, <2>6
<1> QED BY <1>1, <1>2, <1>3, BoundBegins


-----------------------------------------------------------------------------
(* What a command works on.                                                *)

LEMMA HasTail ==
  ASSUME NEW q \in Todos, NEW x, Has(q, x), q[1] # x, Len(q) # 1
  PROVE  Has(Tail(q), x)
<1>0. Len(q) \in Nat /\ Len(q) >= 1 /\ Tail(q) \in Todos
  BY TodoSteps
<1>1. PICK i \in 1..Len(q) : q[i] = x
  BY DEF Has
<1>2. i # 1 /\ i \in 2..Len(q)
  BY <1>0, <1>1
<1>3. Len(Tail(q)) = Len(q) - 1 /\ \A j \in 2..Len(q) : Tail(q)[j - 1] = q[j]
  <2>1. CASE q \in {<<"attach">>, <<"remove">>, <<"release">>, <<"rename">>,
                    <<"drop">>}
    BY <2>1
  <2>2. CASE q \in {<<"attach", "rename">>, <<"copy", "drop">>,
                    <<"rename", "release">>, <<"drop", "release">>,
                    <<"remove", "release">>, <<"clean", "release">>}
    BY <2>2
  <2>3. CASE q \in {<<"attach", "copy", "drop">>, <<"copy", "drop", "release">>,
                    <<"mark", "clean", "release">>,
                    <<"rename", "clean", "release">>,
                    <<"drop", "clean", "release">>}
    BY <2>3
  <2>4. CASE q \in {<<"mark", "rename", "clean", "release">>,
                    <<"copy", "drop", "clean", "release">>}
    BY <2>4
  <2>5. CASE q = <<"mark", "copy", "drop", "clean", "release">>
    BY <2>5
  <2> QED BY Zenon, <2>1, <2>2, <2>3, <2>4, <2>5 DEF Todos
<1>4. i - 1 \in 1..Len(Tail(q)) /\ Tail(q)[i - 1] = x
  BY <1>0, <1>1, <1>2, <1>3
<1> QED BY <1>4 DEF Has

\* A command begins, goes on or waits.
LEMMA OpCases ==
  ASSUME JournalInv, QuietInv, LinksStay, [Next]_vars, op' # None
  PROVE  \/ op = None /\ board' = board
            /\ (Activated \/ Settled \/ Resumed \/ Recovered \/ Repaired)
         \/ BoardStep
         \/ op # None /\ op' = op /\ board' = board
BY OpStarts, OpGoes, BoardGoes

LEMMA AttachingStep ==
  ASSUME JournalInv, QuietInv, LinksStay, BoardInv, [Next]_vars
  PROVE  Attaching'
<1>0. Types /\ Attaching /\ None \notin Sessions
  BY Scene DEF JournalInv, BoardInv, Types, GitTypes
<1> SUFFICES ASSUME At("attach")'
             PROVE  /\ op'.e \in board'[op'.t] /\ op'.e.col \in Active
                    /\ op'.s \in Sessions /\ op'.e.link \in {None, op'.s}
                    /\ \A s \in Sessions :
                         Bound(s)' /\ jr'[s].task = op'.t => s = op'.s
                    /\ op'.by = "pass" => pass' # "idle"
  BY DEF Attaching
<1>1. op' # None /\ op'.todo[1] = "attach"
  BY DEF At
<1>2. CASE op = None /\ board' = board /\ Activated
  <2>0. PICK c \in codex, t \in Tasks : \E e \in board[t] :
          /\ AgentActivates(c, t, e)
          /\ op' = Op("activate", "agent", c.s, t, e, "doing")
    BY <1>2 DEF Activated
  <2>1. PICK e \in board[t] :
          /\ AgentActivates(c, t, e)
          /\ op' = Op("activate", "agent", c.s, t, e, "doing")
    BY <2>0
  <2>2. /\ op'.e = e /\ op'.t = t /\ op'.s = c.s /\ op'.by = "agent"
        /\ e.col \in Active /\ e.link \in {None, c.s} /\ c.s # None
    BY <2>1 DEF Op, AgentActivates, Ready, Active, RunsIn
  <2>3. c.s \in Sessions
    BY <1>0, <2>2 DEF Types, RunTypes
  <2>4. ASSUME NEW s \in Sessions, Bound(s)', jr'[s].task = t PROVE s = c.s
    <3>1. CASE Bound(s) /\ jr'[s].task = jr[s].task
      BY <2>1, <2>3, <2>4, <3>1, StartsFree
    <3>2. CASE BindsNow(s)
      <4>1. PICK d \in codex : d.s = s /\ \E u \in Tasks : \E f \in board[u] :
                                          AgentActivates(d, u, f)
        BY <3>2 DEF BindsNow
      <4> QED BY <2>2, <4>1 DEF AgentActivates, Starts, Op
    <3>3. CASE EnablesNow(s)
      BY <1>1, <1>2, <3>3 DEF EnablesNow, EnableGit
    <3> QED BY <2>4, <3>1, <3>2, <3>3, BoundBegins
  <2> QED BY <1>2, <2>2, <2>3, <2>4
<1>3. CASE Settled
  <2>0. PICK kind \in {"move", "dedup", "complete", "delete", "done"} :
          \E by, s, t, e, to : op' = Op(kind, by, s, t, e, to)
    BY <1>3 DEF Settled
  <2>1. PICK by, s, t, e, to : op' = Op(kind, by, s, t, e, to)
    BY <2>0
  <2>2. kind \in Kinds /\ op'.todo = Steps(kind, e)
    BY <2>1 DEF Op, Kinds
  <2> QED BY <1>1, <2>1, <2>2, StepsShape
<1>4. CASE Resumed
  <2>1. PICK s, t, e : op' = Op("move", "worker", s, t, e, "doing")
    BY <1>4 DEF Resumed
  <2>2. "move" \in Kinds /\ op'.todo = Steps("move", e)
    BY <2>1 DEF Op, Kinds
  <2> QED BY <1>1, <2>2, StepsShape
<1>5. CASE Recovered
  <2>1. PICK w, p : op' = Op(RecoverySteps(p), w, p.s, p.t, p.e, "todo")
    BY <1>5 DEF Recovered
  <2>2. /\ RecoverySteps(p) \in {"retire", "recover"}
        /\ op'.todo = Steps(RecoverySteps(p), p.e)
    BY <2>1 DEF Op, RecoverySteps
  <2>3. RecoverySteps(p) \in Kinds
    BY <2>2 DEF Kinds
  <2> QED BY <1>1, <2>2, <2>3, StepsShape
<1>6. CASE board' = board /\ Repaired
  <2>1. PICK s \in Sessions : /\ pass \in {"repair", "decide"} /\ jr' = jr
                              /\ pass' = pass
                              /\ JState(s) = "working" /\ jr[s].task \in Tasks
                              /\ Repair(s) # {} /\ op' = The(Repair(s))
    BY <1>6 DEF Repaired
  <2>2. PICK kind \in {"move", "dedup", "activate", "relink"},
             e \in board[jr[s].task], to \in {"doing", None} :
           /\ op' = Op(kind, "pass", s, jr[s].task, e, to)
           /\ e.col \in Active
           /\ kind \in {"activate", "relink"} => Free(e)
    BY <1>0, <2>1, RepairKinds
  <2>3. /\ op'.e = e /\ op'.t = jr[s].task /\ op'.s = s
        /\ op'.todo = Steps(kind, e) /\ kind \in Kinds
    BY <2>2 DEF Op, Kinds
  <2>4. Free(e)
    BY <1>1, <2>2, <2>3, StepsShape
  <2>5. jr[s].task # None /\ IsPending(s)
    BY <1>0, <2>1, Scene DEF Types, GitTypes, IsPending, Pending
  <2>6. ASSUME NEW x \in Sessions, Bound(x)', jr'[x].task = jr[s].task
        PROVE  x = s
    BY <2>1, <2>5, <2>6 DEF BoardInv, OneAttemptPerTask, Bound, IsPending, JState
  <2> QED BY <1>6, <2>1, <2>2, <2>3, <2>4, <2>6 DEF Free
<1>7. CASE BoardStep
  <2>1. Len(op.todo) # 1 /\ op'.todo = Tail(op.todo) /\ op.todo \in Todos
    BY <1>1, <1>7, StepGoesOn, CommandOn
  <2>2. Tail(op.todo)[1] # "attach"
    BY <2>1, NextStep
  <2> QED BY <1>1, <2>1, <2>2
<1>8. CASE op # None /\ op' = op /\ board' = board
  <2>1. At("attach")
    BY <1>1, <1>8 DEF At
  <2>2. \A s \in Sessions : Bound(s)' => Bound(s) /\ jr'[s].task = jr[s].task
    BY <1>8, BoundBegins
  <2>3. op.by = "pass" => pass' = pass
    BY <1>8, StageFrozen DEF HeldBy
  <2> QED BY <1>0, <1>8, <2>1, <2>2, <2>3 DEF Attaching
<1> QED BY <1>1, <1>2, <1>3, <1>4, <1>5, <1>6, <1>7, <1>8, OpCases

LEMMA MovingStep ==
  ASSUME JournalInv, QuietInv, LinksStay, BoardInv, [Next]_vars
  PROVE  Moving'
<1>0. /\ Types /\ Attaching /\ Moving /\ Cleaning /\ None \notin Sessions
      /\ "done" \notin Active /\ "todo" \in Active
  BY Scene DEF JournalInv, BoardInv, Types, GitTypes, Active
<1> SUFFICES ASSUME op' # None, op'.todo[1] \in {"rename", "copy"}
             PROVE  /\ op'.e \in board'[op'.t]
                    /\ op'.to \in Active => /\ op'.e.link # None
                                            /\ op'.e.col \in Active \/ Cleans(op')
  BY DEF Moving, At, Cleans, Has
<1>1. CASE Activated
  <2>1. PICK s, t, e : op' = Op("activate", "agent", s, t, e, "doing")
    BY <1>1 DEF Activated
  <2>2. "activate" \in Kinds /\ op'.todo = Steps("activate", e)
    BY <2>1 DEF Op, Kinds
  <2> QED BY <2>2, StepsShape
<1>2. CASE board' = board /\ Settled
  <2>0. PICK kind \in {"move", "dedup", "complete", "delete", "done"},
             by \in {"user", "agent"}, s \in Sessions \cup {None}, t \in Tasks :
          \E e \in board[t] : \E to \in Columns :
             /\ op' = Op(kind, by, s, t, e, to)
             /\ kind \in {"move", "complete", "done"} => to = "done"
    BY <1>2 DEF Settled
  <2>1. PICK e \in board[t], to \in Columns :
          /\ op' = Op(kind, by, s, t, e, to)
          /\ kind \in {"move", "complete", "done"} => to = "done"
    BY <2>0
  <2>2. /\ kind \in Kinds /\ op'.todo = Steps(kind, e) /\ op'.e = e /\ op'.t = t
        /\ op'.to = to
    BY <2>1 DEF Op, Kinds
  <2>3. to = "done"
    BY <2>1, <2>2, StepsShape
  <2> QED BY <1>0, <1>2, <2>2, <2>3
<1>3. CASE board' = board /\ Resumed
  BY <1>0, <1>3 DEF Resumed, Op
<1>4. CASE Recovered
  <2>1. PICK w, p : op' = Op(RecoverySteps(p), w, p.s, p.t, p.e, "todo")
    BY <1>4 DEF Recovered
  <2>2. /\ RecoverySteps(p) \in {"retire", "recover"}
        /\ op'.todo = Steps(RecoverySteps(p), p.e)
    BY <2>1 DEF Op, RecoverySteps
  <2>3. RecoverySteps(p) \in Kinds
    BY <2>2 DEF Kinds
  <2> QED BY <2>2, <2>3, StepsShape
<1>5. CASE board' = board /\ Repaired
  <2>1. PICK s \in Sessions : /\ jr[s].task \in Tasks
                              /\ Repair(s) # {} /\ op' = The(Repair(s))
    BY <1>5 DEF Repaired
  <2>2. PICK kind \in {"move", "dedup", "activate", "relink"},
             e \in board[jr[s].task], to \in {"doing", None} :
           /\ op' = Op(kind, "pass", s, jr[s].task, e, to)
           /\ e.col \in Active
           /\ kind \in {"move", "dedup"} => e.link = s
    BY <1>0, <2>1, RepairKinds
  <2>3. /\ op'.e = e /\ op'.t = jr[s].task
        /\ op'.todo = Steps(kind, e) /\ kind \in Kinds
    BY <2>2 DEF Op, Kinds
  <2>4. e.link = s
    BY <2>2, <2>3, StepsShape
  <2> QED BY <1>0, <1>5, <2>2, <2>3, <2>4
<1>6. CASE BoardStep
  <2>0. /\ Len(op.todo) # 1 /\ op'.todo = Tail(op.todo) /\ op.todo \in Todos
        /\ op # None /\ op'.t = op.t /\ op'.to = op.to /\ op.e \in Entries
    BY <1>6, StepGoesOn, CommandOn
  <2>1. At("attach") \/ At("mark")
    BY <2>0, NextStep DEF At
  <2>2. CASE At("attach")
    <3>1. /\ op'.e = [op.e EXCEPT !.link = op.s] /\ op'.e \in board'[op.t]
          /\ op'.e.link = op.s /\ op'.e.col = op.e.col
      BY <1>0, <1>6, <2>2, StepGoesOn, BoardChange, Written DEF At
    <3> QED BY <1>0, <2>0, <2>2, <3>1 DEF Attaching
  <2>3. CASE At("mark")
    <3>1. /\ op'.e = [op.e EXCEPT !.stop = TRUE] /\ op'.e \in board'[op.t]
          /\ op'.e.link = op.e.link /\ Cleans(op)
      BY <1>0, <1>6, <2>3, StepGoesOn, BoardChange, Written DEF At
    <3>2. Cleans(op')
      BY <2>0, <2>3, <3>1, HasTail DEF Cleans, At
    <3>3. op.e.link # None
      BY <1>0, <2>0, <3>1 DEF Cleaning
    <3> QED BY <2>0, <3>1, <3>2, <3>3
  <2> QED BY <2>1, <2>2, <2>3
<1>7. CASE op # None /\ op' = op /\ board' = board
  BY <1>0, <1>7 DEF Moving, At
<1> QED BY <1>1, <1>2, <1>3, <1>4, <1>5, <1>6, <1>7, OpCases


\* A recovery starts on the only entry that names its session.
LEMMA RecoveryStarts ==
  ASSUME JournalInv, OneLink, NEW w \in {"user", "pass"}, Executes(w),
         CanExecute(plan[w]), RecoverySteps(plan[w]) = "recover"
  PROVE  LET p == plan[w] IN
         /\ p.s \in Sessions /\ p.t \in Tasks /\ p.e.link = p.s
         /\ LinkedOn(p.t) = {p.e}
         /\ \A s \in Sessions : s = p.s => ~Bound(s)'
<1> DEFINE p == plan[w]
<1>0. /\ p # None /\ PlanTyped(p) /\ Types /\ None \notin Sessions
      /\ jr \in [Sessions -> Journals \cup {None}]
  BY Scene DEF JournalInv, Types, GitTypes, RegistryTypes, PassTypes, Executes
<1>1. p.s \in Sessions /\ p.j \in Journals \cup {None} /\ p.t \in Tasks
  BY <1>0 DEF PlanTyped, RecoverySteps
<1>2. Linked(p.s) = {<<p.t, p.e>>}
  BY <1>0, <1>1, Scene DEF CanExecute, Types, GitTypes
<1>3. p.e \in board[p.t] /\ p.e.link = p.s
  <2>1. <<p.t, p.e>> \in Linked(p.s)
    BY <1>2
  <2> QED BY <1>0, <2>1, LinkedFacts
<1>4. ASSUME NEW f \in LinkedOn(p.t) PROVE f = p.e
  <2>1. f \in board[p.t] /\ f.link = p.s
    BY <1>0, <1>1, <1>3, <1>4 DEF LinkedOn, OneLink
  <2>2. <<p.t, f>> \in Linked(p.s)
    BY <1>1, <2>1 DEF Linked
  <2> QED BY <1>2, <2>2
<1>5. LinkedOn(p.t) = {p.e}
  <2>1. p.e \in LinkedOn(p.t)
    BY <1>0, <1>1, <1>3 DEF LinkedOn
  <2> QED BY <1>4, <2>1
<1>6. ASSUME NEW s \in Sessions, s = p.s PROVE ~Bound(s)'
  <2>0. /\ jr[p.s] = p.j
        /\ jr' = IF p.j = None \/ (p.restart /\ p.j.st = "cancelled") THEN jr
                 ELSE [jr EXCEPT ![p.s] = Cancelled(@, IF p.restart THEN "restart"
                                                     ELSE "branch")]
    BY DEF CanExecute, BeginJournal, Executes
  <2> HIDE DEF p
  <2>1. CASE p.j = None \/ (p.restart /\ p.j.st = "cancelled")
    BY <1>6, <2>0, <2>1 DEF Bound, IsPending, JState, Pending
  <2>2. CASE ~(p.j = None \/ (p.restart /\ p.j.st = "cancelled"))
    <3>1. PICK why \in Whys : jr'[p.s] = Cancelled(jr[p.s], why)
      BY <1>0, <1>1, <2>0, <2>2 DEF Whys
    <3>2. jr'[p.s].st = "cancelled"
      BY <1>0, <1>1, <2>0, <2>2, <3>1, RetiredFields
    <3> QED BY <1>6, <3>2 DEF Bound, IsPending, JState, Pending
  <2> QED BY <2>1, <2>2
<1> QED BY <1>1, <1>3, <1>5, <1>6

LEMMA CleaningStep ==
  ASSUME JournalInv, QuietInv, LinksStay, BoardInv, [Next]_vars
  PROVE  Cleaning'
<1>0. /\ Types /\ Attaching /\ Moving /\ Cleaning /\ OneLink
      /\ None \notin Sessions /\ "done" \notin Active /\ "todo" \in Active
  BY Scene DEF JournalInv, BoardInv, Types, GitTypes, Active
<1> DEFINE On(t) == {e \in board'[t] : e.link # None}
           To(o) == [o.e EXCEPT !.col = o.to]
           Next1(x) == op'.todo[1] = x
           Open(s) == jr'[s] # None /\ jr'[s].st \in Pending /\ jr'[s].task # None
<1> SUFFICES ASSUME op' # None, Has(op'.todo, "clean")
             PROVE  /\ op'.s \in Sessions /\ op'.e.link = op'.s /\ op'.to = "todo"
                    /\ ~Open(op'.s)
                    /\ \/ HasMove(op'.todo) \/ Next1("drop") \/ Next1("clean")
                       \/ op'.e.col = "todo"
                    /\ Next1("mark") \/ Next1("rename") \/ Next1("copy") =>
                         On(op'.t) = {op'.e}
                    /\ Next1("drop") => On(op'.t) = {op'.e, To(op')}
                    /\ Next1("clean") => On(op'.t) = {To(op')}
  BY DEF Cleaning, Cleans, At, LinkedOn, MovedTo, Moves, HasMove, Bound,
     IsPending, JState, Pending
<1>b. \A s \in Sessions : Open(s) => Bound(s)'
  BY DEF Bound, IsPending, JState, Pending
<1>1. CASE op = None /\ board' = board /\ Recovered
  <2>1. PICK w \in {"user", "pass"} :
          /\ Executes(w) /\ CanExecute(plan[w])
          /\ op' = Op(RecoverySteps(plan[w]), w, plan[w].s, plan[w].t,
                      plan[w].e, "todo")
    BY <1>1 DEF Recovered
  <2> DEFINE p == plan[w]
  <2>2. /\ RecoverySteps(p) \in {"retire", "recover"} /\ op'.to = "todo"
        /\ op'.todo = Steps(RecoverySteps(p), p.e) /\ op'.s = p.s
        /\ op'.t = p.t /\ op'.e = p.e
    BY <2>1 DEF Op, RecoverySteps
  <2>3. RecoverySteps(p) \in Kinds
    BY <2>2 DEF Kinds
  <2>4. /\ RecoverySteps(p) = "recover" /\ op'.todo[1] = "mark"
        /\ HasMove(op'.todo) \/ p.e.col = "todo"
    BY <2>2, <2>3, StepsShape
  <2>5. /\ p.s \in Sessions /\ p.t \in Tasks /\ p.e.link = p.s
        /\ LinkedOn(p.t) = {p.e}
        /\ \A s \in Sessions : s = p.s => ~Bound(s)'
    BY <1>0, <2>1, <2>4, RecoveryStarts
  <2> HIDE DEF p
  <2> QED BY <1>1, <1>b, <2>2, <2>4, <2>5 DEF LinkedOn
<1>2. CASE Activated
  <2>1. PICK s, t, e : op' = Op("activate", "agent", s, t, e, "doing")
    BY <1>2 DEF Activated
  <2>2. "activate" \in Kinds /\ op'.todo = Steps("activate", e)
    BY <2>1 DEF Op, Kinds
  <2> QED BY <2>2, StepsShape
<1>3. CASE Settled
  <2>0. PICK kind \in {"move", "dedup", "complete", "delete", "done"} :
          \E by, s, t, e, to : op' = Op(kind, by, s, t, e, to)
    BY <1>3 DEF Settled
  <2>1. PICK by, s, t, e, to : op' = Op(kind, by, s, t, e, to)
    BY <2>0
  <2>2. kind \in Kinds /\ op'.todo = Steps(kind, e)
    BY <2>1 DEF Op, Kinds
  <2> QED BY <2>0, <2>2, StepsShape
<1>4. CASE Resumed
  <2>1. PICK s, t, e : op' = Op("move", "worker", s, t, e, "doing")
    BY <1>4 DEF Resumed
  <2>2. "move" \in Kinds /\ op'.todo = Steps("move", e)
    BY <2>1 DEF Op, Kinds
  <2> QED BY <2>2, StepsShape
<1>5. CASE Repaired
  <2>1. PICK s \in Sessions : /\ jr[s].task \in Tasks
                              /\ Repair(s) # {} /\ op' = The(Repair(s))
    BY <1>5 DEF Repaired
  <2>2. PICK kind \in {"move", "dedup", "activate", "relink"},
             e \in board[jr[s].task], to \in {"doing", None} :
           op' = Op(kind, "pass", s, jr[s].task, e, to)
    BY <1>0, <2>1, RepairKinds
  <2>3. op'.todo = Steps(kind, e) /\ kind \in Kinds
    BY <2>2 DEF Op, Kinds
  <2> QED BY <2>2, <2>3, StepsShape
<1>6. CASE BoardStep
  <2>0. /\ Len(op.todo) # 1 /\ op'.todo = Tail(op.todo) /\ op.todo \in Todos
        /\ op # None /\ op'.t = op.t /\ op'.to = op.to /\ op'.s = op.s
        /\ op.e \in Entries /\ jr' = jr
        /\ At("mark") => op'.e = [op.e EXCEPT !.stop = TRUE]
        /\ At("rename") => op'.e = MovedTo(op)
        /\ At("copy") \/ At("drop") => op'.e = op.e
    BY <1>6, StepGoesOn, CommandOn DEF BoardStep
  <2>1. Cleans(op)
    BY <2>0, TailHas DEF Cleans
  <2>2. /\ op.s \in Sessions /\ op.e.link = op.s /\ op.to = "todo" /\ ~Bound(op.s)
        /\ HasMove(op.todo) \/ At("drop") \/ At("clean") \/ op.e.col = "todo"
    BY <1>0, <2>0, <2>1, MovesAreMoves DEF Cleaning
  <2>3. ~Open(op.s)
    BY <2>0, <2>2 DEF Bound, IsPending, JState
  <2>4. /\ MovedTo(op).link = op.s /\ MovedTo(op).col = "todo"
        /\ [op.e EXCEPT !.stop = TRUE].link = op.s
        /\ [op.e EXCEPT !.stop = TRUE].col = op.e.col
    BY <1>6, <2>2, Written
  <2>5. At("mark") \/ At("copy") \/ At("rename") \/ At("drop")
    <3>1. op.todo[1] \notin {"attach", "remove", "release", "clean"}
      BY <2>0, <2>1, NextStep DEF Cleans
    <3> QED BY <1>6, <3>1 DEF BoardStep, At
  <2>6. CASE At("mark")
    <3>1. /\ LinkedOn(op.t) = {op.e}
          /\ board'[op.t] = (board[op.t] \ {op.e})
                                 \cup {[op.e EXCEPT !.stop = TRUE]}
      BY <1>0, <1>6, <2>0, <2>1, <2>6, BoardChange DEF Cleaning, At
    <3>2. On(op.t) = {op'.e}
      <4> DEFINE marked == [op.e EXCEPT !.stop = TRUE]
      <4>1. /\ op'.e = marked /\ marked.link # None
            /\ board'[op.t] = (board[op.t] \ {op.e}) \cup {marked}
        BY <1>0, <2>0, <2>2, <2>4, <2>6, <3>1
      <4> HIDE DEF marked
      <4> QED BY <3>1, <4>1 DEF LinkedOn
    <3>3. CASE HasMove(op.todo)
      <4>1. op'.todo[1] \in {"rename", "copy"}
        BY <2>0, <2>6, <3>3, NextStep DEF At
      <4>2. 1 \in 1..Len(op'.todo)
        <5>1. op'.todo \in Todos
          BY <2>0, TodoSteps
        <5> QED BY <5>1, TodoSteps
      <4> QED BY <2>0, <2>2, <2>3, <2>4, <2>6, <3>2, <4>1, <4>2 DEF HasMove
    <3>4. CASE ~HasMove(op.todo)
      <4>1. op'.todo[1] = "clean" /\ op.e.col = "todo"
        <5>1. op.todo[1] = "mark" /\ ~At("drop") /\ ~At("clean")
          BY <2>0, <2>6 DEF At
        <5>2. Tail(op.todo)[1] = "clean"
          BY <2>0, <3>4, <5>1, NextStep
        <5> QED BY <2>0, <2>2, <3>4, <5>1, <5>2
      <4>2. To(op') = op'.e
        BY <2>0, <2>2, <2>4, <2>6, <4>1 DEF Entries
      <4> QED BY <2>0, <2>2, <2>3, <2>4, <2>6, <3>2, <4>1, <4>2
    <3> QED BY <3>3, <3>4
  <2>7. CASE At("copy")
    <3>1. /\ LinkedOn(op.t) = {op.e}
          /\ board'[op.t] = board[op.t] \cup {MovedTo(op)}
      BY <1>0, <1>6, <2>0, <2>1, <2>7, BoardChange DEF Cleaning, At
    <3>2. On(op.t) = {op.e, MovedTo(op)}
      BY <1>0, <2>2, <2>4, <3>1 DEF LinkedOn
    <3>3. op'.todo[1] = "drop"
      BY <2>0, <2>7, NextStep DEF At
    <3>4. To(op') = MovedTo(op)
      BY <2>0, <2>7 DEF MovedTo
    <3> QED BY <2>0, <2>2, <2>3, <2>7, <3>2, <3>3, <3>4
  <2>8. CASE At("rename")
    <3>1. /\ LinkedOn(op.t) = {op.e}
          /\ board'[op.t] = (board[op.t] \ {op.e}) \cup {MovedTo(op)}
      BY <1>0, <1>6, <2>0, <2>1, <2>8, BoardChange DEF Cleaning, At
    <3>2. On(op.t) = {MovedTo(op)}
      BY <1>0, <2>2, <2>4, <3>1 DEF LinkedOn
    <3>3. op'.todo[1] = "clean"
      BY <2>0, <2>8, NextStep DEF At
    <3>4. To(op') = MovedTo(op)
      BY <2>0, <2>8 DEF MovedTo, Entries
    <3> QED BY <2>0, <2>2, <2>3, <2>4, <2>8, <3>2, <3>3, <3>4
  <2>9. CASE At("drop")
    <3>1. /\ LinkedOn(op.t) = {op.e, MovedTo(op)}
          /\ board'[op.t] = board[op.t] \ {op.e}
      BY <1>0, <1>6, <2>0, <2>1, <2>9, BoardChange DEF Cleaning, At
    <3>2. MovedTo(op) # op.e
      BY <1>6, <2>0, <2>2, <2>4, <2>9 DEF JournalInv, LockHeld
    <3>3. On(op.t) = {MovedTo(op)}
      BY <3>1, <3>2 DEF LinkedOn
    <3>4. op'.todo[1] = "clean"
      BY <2>0, <2>9, NextStep DEF At
    <3>5. To(op') = MovedTo(op)
      BY <2>0, <2>9 DEF MovedTo
    <3> QED BY <2>0, <2>2, <2>3, <2>9, <3>3, <3>4, <3>5
  <2> QED BY <2>5, <2>6, <2>7, <2>8, <2>9
<1>7. CASE op # None /\ op' = op /\ board' = board
  <2>1. /\ Cleans(op) /\ (Moves(op) <=> HasMove(op.todo))
    BY <1>7, MovesAreMoves DEF Cleans
  <2>2. op.s \in Sessions => (Bound(op.s)' => Bound(op.s))
    BY <1>7, BoundBegins
  <2> QED BY <1>0, <1>7, <1>b, <2>1, <2>2 DEF Cleaning, At, LinkedOn, MovedTo
<1> QED BY <1>1, <1>2, <1>3, <1>4, <1>5, <1>6, <1>7, OpCases


-----------------------------------------------------------------------------
(* The fence around a task that does not show its attempt.                 *)

\* No step puts a free entry beside those of a task with a bound journal.
LEMMA NoNewFree ==
  ASSUME JournalInv, LinksStay, BoardInv, [Next]_vars,
         NEW s \in Sessions, Bound(s), NEW f \in board'[jr[s].task], Free(f)
  PROVE  f \in board[jr[s].task]
<1> DEFINE t == jr[s].task
<1>0. /\ Types /\ NamesNoOther /\ OneLink /\ Attaching /\ Moving /\ Cleaning
      /\ None \notin Sessions /\ t \in Tasks
  BY Scene, BoundFacts DEF JournalInv, BoardInv, Types, GitTypes
<1>1. ASSUME NEW x \in Tasks, UserAdds(x) PROVE board'[t] = board[t]
  <2>1. jr[s].start \in 1..Len(tree)
    BY <1>0, BoundFacts DEF Types, RegistryTypes
  <2>2. {e \in tree[jr[s].start][t] : e.col \in Active} # {}
    BY Chosen DEF JournalInv, JournalCoversTask, Bound
  <2>3. x # t
    BY <1>1, <2>1, <2>2 DEF UserAdds
  <2> QED BY <1>1, <2>3 DEF UserAdds
<1>2. CASE BoardStep /\ t = op.t
  <2>1. CASE At("clean")
    <3>1. Cleans(op)
      BY <1>0, <1>2, <2>1, BoardChange DEF At
    <3>2. /\ op.s \in Sessions /\ op.e.link = op.s /\ ~Bound(op.s)
          /\ LinkedOn(t) = {MovedTo(op)}
      BY <1>0, <1>2, <2>1, <3>1 DEF Cleaning, At
    <3>3. MovedTo(op) \in board[t] /\ MovedTo(op).link = op.s
      BY <1>2, <3>2, Written DEF LinkedOn
    <3>4. op.s = s
      BY <1>0, <3>2, <3>3 DEF NamesNoOther
    <3> QED BY <3>2, <3>4
  <2>2. At("attach") => op.s \in Sessions
    BY <1>0 DEF Attaching
  <2>3. At("mark") => op.e.link # None
    <3>1. At("mark") => Cleans(op) /\ op # None
      BY <1>0, <1>2, BoardChange DEF At
    <3> QED BY <1>0, <3>1 DEF Cleaning
  <2>4. (At("copy") \/ At("rename")) /\ op.to \in Active => op.e.link # None
    BY <1>0 DEF Moving
  <2>5. \/ f \in board[t]
        \/ At("attach") /\ f = [op.e EXCEPT !.link = op.s]
        \/ At("mark") /\ f = [op.e EXCEPT !.stop = TRUE]
        \/ (At("copy") \/ At("rename")) /\ f = MovedTo(op)
        \/ At("clean")
    BY <1>0, <1>2, BoardChange
  <2> HIDE DEF t
  <2>6. f \in board[t]
    <3>0. f.col \in Active /\ f.link = None
      BY DEF Free
    <3>1. CASE At("attach") /\ f = [op.e EXCEPT !.link = op.s]
      BY <1>0, <1>2, <2>2, <3>0, <3>1, Written
    <3>2. CASE At("mark") /\ f = [op.e EXCEPT !.stop = TRUE]
      BY <1>2, <2>3, <3>0, <3>2, Written
    <3>3. CASE (At("copy") \/ At("rename")) /\ f = MovedTo(op)
      <4>1. f.link = op.e.link /\ f.col = op.to
        BY <1>2, <3>3, Written
      <4> QED BY <2>4, <3>0, <3>3, <4>1
    <3> QED BY <2>1, <2>5, <3>1, <3>2, <3>3 DEF t
  <2> QED BY <2>6 DEF t
<1>3. CASE BoardStep /\ t # op.t
  BY <1>0, <1>3, BoardChange
<1> QED BY <1>1, <1>2, <1>3, BoardGoes

\* A pass that attaches the link shows the attempt on its task.
LEMMA AttachShows ==
  ASSUME JournalInv, BoardInv, BoardStep, NEW s \in Sessions, Bound(s),
         PassAttaching(s), NEW f \in board'[jr[s].task]
  PROVE  ~Free(f)
<1> DEFINE t == jr[s].task
           linked == [op.e EXCEPT !.link = op.s]
<1>0. /\ OneLink /\ At("attach") /\ op.t = t /\ op.s = s /\ t \in Tasks
      /\ None \notin Sessions
  BY Scene, BoundFacts DEF JournalInv, BoardInv, PassAttaching, Types, GitTypes
<1>1. op.e \in board[t] /\ op.e.col \in Active /\ op.e.link \in {None, s}
  BY <1>0 DEF BoardInv, Attaching
<1>2. board'[t] = (board[t] \ {op.e}) \cup {linked}
  BY <1>0, BoardChange DEF BoardInv, At
<1>3. linked.link = s
  BY <1>0, Written
<1> HIDE DEF linked, t
<1>4. \A x \in board[t] : x # op.e => ~Free(x)
  BY <1>0, <1>1 DEF OneLink, Free
<1> QED BY <1>0, <1>2, <1>3, <1>4 DEF Free, t

\* The pass repairs the link before it chooses a session.
LEMMA StageFenced ==
  ASSUME JournalInv, QuietInv, BoardInv, [Next]_vars, NEW s \in Sessions,
         Bare(s), ~PassAttaching(s), jr'[s].task = jr[s].task
  PROVE  PassAttaching(s)' \/ (pass' # "decide" /\ (pass' = "repair" => s \in left'))
<1>0. /\ Types /\ OneLink /\ IsPending(s) /\ Bound(s) /\ jr[s].task # None
      /\ JState(s) = "working" /\ pass # "decide" /\ (pass = "repair" => s \in left)
  BY DEF JournalInv, BoardInv, BareFence, Bare, Bound
<1>1. ASSUME PassGates PROVE pass' # "decide" /\ pass' # "repair"
  BY <1>0, <1>1 DEF PassGates
<1>2. ASSUME PassReconciles PROVE s \in left' /\ pass' # "decide"
  BY <1>0, <1>2 DEF PassReconciles, Unbound
<1>3. ASSUME NEW x \in Sessions, PassRepairs(x), pass' = pass
      PROVE  PassAttaching(s)' \/ (pass' # "decide" /\ s \in left')
  <2>1. CASE x # s
    BY <1>0, <1>3, <2>1 DEF PassRepairs, PassAt
  <2>2. CASE x = s
    <3>1. Repair(s) # {} /\ op' = The(Repair(s))
      BY <1>0, <1>3, <2>2, BareRepaired DEF PassRepairs
    <3>2. PICK kind \in {"activate", "relink"}, e \in Entries :
            op' = Op(kind, "pass", s, jr[s].task, e, "doing")
      BY <1>0, <3>1, BareRepaired
    <3>3. /\ op'.by = "pass" /\ op'.s = s /\ op'.t = jr[s].task
          /\ op'.todo = Steps(kind, e) /\ kind \in Kinds
      BY <3>2 DEF Op, Kinds
    <3>4. op'.todo[1] = "attach"
      BY <3>2, <3>3, StepsShape
    <3>5. op' # None
      <4>1. op' \in Commands
        <5>1. Steps(kind, e) \in Todos /\ jr[s].task \in Tasks /\ "doing" \in Columns
          BY <1>0, <3>3, StepsFacts, BoundFacts DEF Columns, Active
        <5> QED BY <3>2, <5>1 DEF Op, Commands
      <4> QED BY <1>0, <4>1, CommandIsRecord DEF Types, GitTypes
    <3> QED BY <3>3, <3>4, <3>5 DEF PassAttaching, At
  <2> QED BY <2>1, <2>2
<1>4. ASSUME PassReleases PROVE FALSE
  BY <1>0, <1>4 DEF PassReleases, PassAt
<1> QED BY <1>0, <1>1, <1>2, <1>3, <1>4, StageMoves DEF PassReports


\* What holds of the fence goes on to hold until the link is there.
LEMMA FenceHolds ==
  ASSUME JournalInv, QuietInv, LinksStay, BoardInv, [Next]_vars,
         NEW s \in Sessions, Bare(s), Bare(s)', jr'[s].task = jr[s].task
  PROVE  /\ JState(s)' = "working"
         /\ \A x \in Sessions : InRun(x)' => x = s
         /\ wk' # None => wk'.s = s /\ wk'.at = "live"
         /\ PassAttaching(s)' \/ (pass' # "decide" /\ (pass' = "repair" => s \in left'))
<1> DEFINE t == jr[s].task
<1>0. /\ Types /\ OneLink /\ Bound(s) /\ IsPending(s) /\ JState(s) = "working"
      /\ \A x \in Sessions : InRun(x) => x = s
      /\ wk # None => wk.s = s /\ wk.at = "live"
      /\ PassAttaching(s) \/ (pass # "decide" /\ (pass = "repair" => s \in left))
      /\ None \notin Sessions /\ jr \in [Sessions -> Journals \cup {None}]
      /\ jr[s] # None /\ jr[s] \in Journals /\ jr[s].st = "working"
      /\ None \notin Journals
  BY Scene, BoundFacts DEF JournalInv, BoardInv, BareFence, Bare, Bound, Types,
     GitTypes, RegistryTypes, JState
<1>1. JState(s)' = "working"
  <2>0. jr'[s] # None /\ jr'[s].st \in Pending
    BY DEF Bare, Bound, IsPending, JState, Pending
  <2>1. CASE jr'[s] = jr[s]
    BY <1>0, <2>1 DEF JState
  <2>2. CASE Binds(s)
    <3>1. PICK u \in Tasks : jr'[s] = [jr[s] EXCEPT !.task = u]
      BY <2>2 DEF Binds
    <3>2. jr'[s].st = "working"
      BY <1>0, <3>1, BoundFields
    <3> QED BY <2>0, <3>2 DEF JState
  <2>3. CASE Rotates(s)
    <3>1. PICK o \in Tokens : jr'[s] = [jr[s] EXCEPT !.own = o]
      BY <2>3 DEF Rotates
    <3>2. jr'[s].st = "working"
      BY <1>0, <3>1, RotatedFields
    <3> QED BY <2>0, <3>2 DEF JState
  <2>4. CASE Advances(s)
    <3>1. PICK c \in codex : c.s = s /\ AgentSeals(c)
      BY <1>0, <2>4 DEF Advances
    <3> DEFINE x == The(Linked(s))
    <3>2. One(Linked(s)) /\ x[1] = t
      BY <1>0, <3>1 DEF AgentSeals, Managed
    <3>3. x \in Linked(s)
      BY <3>2, Chosen
    <3>4. x[2] \in board[t] /\ x[2].link = s /\ t \in Tasks
      BY <1>0, <3>2, <3>3, LinkedFacts
    <3>5. PICK f \in board[t] : Free(f)
      BY DEF Bare
    <3> HIDE DEF x
    <3>6. FALSE
      BY <1>0, <3>4, <3>5, FreeAlone
    <3> QED BY <3>6
  <2>5. CASE Retires(s)
    <3>1. PICK why \in Whys : jr'[s] = Cancelled(jr[s], why)
      BY <2>5 DEF Retires
    <3>2. jr'[s].st = "cancelled"
      BY <1>0, <3>1, RetiredFields
    <3> QED BY <2>0, <3>2 DEF Pending
  <2>6. ~Opens(s)
    BY <1>0 DEF Opens
  <2> QED BY <2>1, <2>2, <2>3, <2>4, <2>5, <2>6, JournalMoves DEF JournalMove
<1>2. ASSUME NEW x \in Sessions, InRun(x)' PROVE x = s
  <2>1. ~Takes(x)
    BY <1>0, TakesAlone
  <2> QED BY <1>0, <1>2, <2>1, RunsBegin
<1>3. ASSUME wk' # None PROVE wk'.s = s /\ wk'.at = "live"
  <2>1. ~(PassDecides /\ wk = None)
    <3>1. PassDecides => pass = "decide" /\ ~PassAttaching(s)
      BY DEF PassDecides, PassAt, PassAttaching, HeldBy, At
    <3> QED BY <1>0, <3>1
  <2> QED BY <1>0, <1>3, <2>1, WorkerGoesOn
<1>4. ASSUME PassAttaching(s)
      PROVE  PassAttaching(s)' \/ (pass' # "decide" /\ (pass' = "repair" => s \in left'))
  <2>1. op # None
    BY <1>4 DEF PassAttaching, At
  <2>2. CASE op' = op
    BY <1>4, <2>2 DEF PassAttaching, At
  <2>3. CASE BoardStep
    <3>1. PICK f \in board'[jr'[s].task] : Free(f)
      BY DEF Bare, Free
    <3> QED BY <1>0, <1>4, <2>3, <3>1, AttachShows
  <2>4. CASE op' = None /\ ~BoardStep
    <3>1. PassDies
      <4>1. ~OpReleases /\ op.by = "pass"
        BY <1>4 DEF OpReleases, PassAttaching, At
      <4>2. ~UserDies /\ ~WorkerDies /\ \A c \in codex : ~CodexExits(c)
        BY <2>1, <2>4, <4>1 DEF UserDies, WorkerDies, CodexExits, HeldBy
      <4>3. ~Ends /\ ~Activates /\ ~Seals
        BY <2>1 DEF Ends, Activates, Seals, UserEnds, AgentActivates,
           AgentSeals, Starts
      <4>4. ~Recovers /\ ~ResumeKnown /\ ~PassRelinks
            /\ \A x \in Sessions : ~PassRepairs(x)
        BY <2>1 DEF Recovers, Executes, ResumeKnown, PassRelinks, PassRepairs
      <4> QED BY <2>1, <2>4, <4>1, <4>2, <4>3, <4>4, Footprints DEF OpWriters
    <3> QED BY <3>1 DEF PassDies
  <2> QED BY <2>1, <2>2, <2>3, <2>4, OpGoes
<1>5. ASSUME ~PassAttaching(s)
      PROVE  PassAttaching(s)' \/ (pass' # "decide" /\ (pass' = "repair" => s \in left'))
  BY <1>5, StageFenced
<1> QED BY <1>1, <1>2, <1>3, <1>4, <1>5

LEMMA BareFenceStep ==
  ASSUME JournalInv, QuietInv, LinksStay, BoardInv, [Next]_vars
  PROVE  BareFence'
<1>0. /\ Types /\ Types' /\ OneLink /\ OneLink' /\ None \notin Sessions
      /\ Tasks' = Tasks /\ jr \in [Sessions -> Journals \cup {None}]
      /\ WorkerHasRow /\ Solo /\ WorkerAlone /\ PassQuiet
  BY Scene, SceneKept, TypesStep, OneLinkStep DEF JournalInv, BoardInv, Types,
     GitTypes, RegistryTypes, QuietInv
<1> SUFFICES ASSUME NEW s \in Sessions, Bare(s)'
             PROVE  /\ JState(s)' = "working"
                    /\ \A x \in Sessions : InRun(x)' => x = s
                    /\ wk' # None => wk'.s = s /\ wk'.at = "live"
                    /\ PassAttaching(s)' \/ /\ pass' # "decide"
                                            /\ pass' = "repair" => s \in left'
  BY DEF BareFence
<1>1. Bound(s)'
  BY DEF Bare
<1>2. PICK f \in board'[jr'[s].task] : Free(f)
  BY DEF Bare, Free
<1>3. CASE Bound(s) /\ jr'[s].task = jr[s].task
  <2>1. f \in board[jr[s].task]
    BY <1>2, <1>3, NoNewFree
  <2>2. Bare(s)
    BY <1>2, <1>3, <2>1 DEF Bare
  <2> QED BY <1>3, <2>2, FenceHolds
<1>4. CASE BindsNow(s)
  <2>1. PICK c \in codex, t \in Tasks : \E e \in board[t] :
          c.s = s /\ AgentActivates(c, t, e) /\ jr'[s].task = t
    BY <1>4 DEF BindsNow
  <2>2. PICK e \in board[t] : AgentActivates(c, t, e)
    BY <2>1
  <2>3. /\ UNCHANGED <<ctl, wk, pass, left>> /\ InRun(s)
    BY <2>1, <2>2 DEF AgentActivates, run, sched, RunsIn, InRun
  <2>4. /\ JState(s) = "working" /\ JState(s)' = "working"
    <3>1. CASE jr' = jr
      <4>1. IsPending(s)
        BY <1>1, <3>1 DEF Bound, IsPending, JState
      <4>2. Managed(s)
        <5>1. jr[s] # None
          BY <4>1 DEF IsPending, JState, Pending
        <5> QED BY <4>1, <5>1 DEF Managed
      <4>3. JState(s) = "working"
        BY <2>1, <2>2, <4>2 DEF AgentActivates
      <4> QED BY <3>1, <4>3 DEF JState
    <3>2. CASE jr' # jr
      <4>1. JState(s) = "working" /\ jr' = [jr EXCEPT ![s].task = t]
        BY <2>1, <2>2, <3>2 DEF AgentActivates
      <4>2. jr[s] # None /\ jr[s] \in Journals /\ jr[s].st = "working"
        BY <1>0, <4>1 DEF JState
      <4>3. jr'[s] = [jr[s] EXCEPT !.task = t]
        BY <1>0, <4>1
      <4>4. jr'[s].st = "working"
        BY <4>2, <4>3, BoundFields
      <4>5. jr'[s] # None
        BY <1>1 DEF Bound, IsPending, JState, Pending
      <4> QED BY <4>1, <4>4, <4>5 DEF JState
    <3> QED BY <3>1, <3>2
  <2>5. SomePending /\ ~AllIdle
    BY <1>0, <2>3, <2>4, RunOrRest DEF SomePending, IsPending, Pending, AllIdle
  <2>6. ASSUME NEW x \in Sessions, InRun(x)' PROVE x = s
    BY <1>0, <2>3, <2>5, <2>6 DEF Solo, InRun
  <2>7. ASSUME wk # None PROVE wk.s = s /\ wk.at = "live"
    <3>1. wk.s # None /\ wk.at # "start"
      BY <1>0, <2>5, <2>7 DEF WorkerAlone
    <3>2. wk.at = "live" /\ wk.s \in Sessions
      BY <1>0, <2>7, <3>1 DEF Types, RunTypes, Workers
    <3>3. InRun(wk.s)
      BY <1>0, <2>7, <3>1, <3>2 DEF WorkerHasRow, InRun
    <3> QED BY <1>0, <2>3, <2>5, <3>2, <3>3 DEF Solo
  <2>8. pass \notin {"repair", "decide"}
    BY <1>0, <2>5 DEF PassQuiet
  <2> QED BY <2>3, <2>4, <2>6, <2>7, <2>8
<1>5. CASE board' = board /\ EnablesNow(s)
  <2>1. PICK e \in board'[jr'[s].task] : e.link = s
    BY <1>5 DEF EnablesNow
  <2>2. jr'[s].task \in Tasks
    BY <1>0, <1>1, BoundFacts DEF Types, RegistryTypes, Bound, IsPending,
       JState, Pending, Journals, JournalRows
  <2>3. e.link # None => ~Free(f)
    BY <1>0, <1>2, <2>1, <2>2 DEF OneLink, Free
  <2> QED BY <1>0, <1>2, <2>1, <2>3
<1> QED BY <1>1, <1>3, <1>4, <1>5, BoundBegins

-----------------------------------------------------------------------------
(* The theorems.                                                           *)

LEMMA QuietInit ==
  ASSUME Init
  PROVE  QuietInv
<1>1. \A s \in Sessions : ~IsPending(s) /\ Idle(s)
  BY DEF Init, IsPending, JState, Pending, Idle, NoRow
<1> QED BY <1>1 DEF Init, QuietInv, Solo, WorkerAlone, PassQuiet, PassLeased,
          SomePending, HeldBy

LEMMA BoardInit ==
  ASSUME Init
  PROVE  BoardInv
<1>0. First \subseteq Tasks
  BY Scene DEF Init
<1>1. \A t \in Tasks : \A e \in board[t] : e = Entry("todo", None, FALSE)
  BY <1>0 DEF Init
<1>2. OneLink
  <2>1. Entry("todo", None, FALSE).link = None
    BY DEF Entry
  <2> HIDE DEF Entry
  <2> QED BY <1>1, <2>1 DEF OneLink
<1>3. \A s \in Sessions : ~IsPending(s)
  BY DEF Init, IsPending, JState, Pending
<1>4. op = None /\ \A x : ~At(x)
  BY DEF Init, At
<1> QED BY <1>2, <1>3, <1>4 DEF BoardInv, Attaching, Moving, Cleaning,
          NamesNoOther, BareFence, Bare, Bound, OneAttemptPerTask

LEMMA QuietStep ==
  ASSUME JournalInv, QuietInv, [Next]_vars
  PROVE  QuietInv'
BY SoloStep, WorkerAloneStep, PassQuietStep, PassLeasedStep DEF QuietInv

LEMMA AttemptStep ==
  ASSUME AttemptInv, [Next]_vars
  PROVE  AttemptInv'
<1>1. JournalInv /\ QuietInv /\ (LinksStay => BoardInv)
  BY DEF AttemptInv
<1>2. JournalInv' /\ QuietInv'
  BY <1>1, StepInv, QuietStep
<1>3. LinksStay' <=> LinksStay
  BY SceneKept DEF LinksStay, Inputs
<1>4. LinksStay => BoardInv'
  BY <1>1, OneLinkStep, AttachingStep, MovingStep, CleaningStep,
     NamesNoOtherStep, BareFenceStep, OneAttemptStep DEF BoardInv
<1> QED BY <1>2, <1>3, <1>4 DEF AttemptInv

\* While a journal is pending at most one session runs, a worker that starts
\* beside it is alone, and a pass that repairs links or chooses a session has
\* nobody beside it (scheduler.rs, git_journals.rs); and where neither the
\* user nor a checkout takes a link off a task, the entries of a task name one
\* session, and a bound journal that its task does not show yet is fenced off
\* from every other session until a pass has attached its link.
THEOREM AttemptInvariant == Spec => []AttemptInv
<1>1. Init => AttemptInv
  BY InitInv, QuietInit, BoardInit DEF AttemptInv
<1>2. AttemptInv /\ [Next]_vars => AttemptInv'
  BY AttemptStep
<1> QED BY <1>1, <1>2, PTL DEF Spec

\* A session that runs beside a pending journal is the only one that runs.
THEOREM OneRunBesideJournal == Spec => []Solo
<1>1. AttemptInv => Solo
  BY DEF AttemptInv, QuietInv
<1> QED BY <1>1, AttemptInvariant, PTL

\* Where links stay, an attempt is sound whoever dies between the binding of
\* its journal and the link on its task: it is the only one of its task, its
\* commit can prove the task, and its Codex keeps its boundary.
THEOREM AttemptsSound == Spec => [](LinksStay => AttemptIsSound)
<1>1. AttemptInv => (LinksStay => AttemptIsSound)
  BY DEF AttemptInv, BoardInv, JournalInv, BoundaryKept, BoundaryOfLive,
     AttemptIsSound
<1> QED BY <1>1, AttemptInvariant, PTL
=============================================================================
