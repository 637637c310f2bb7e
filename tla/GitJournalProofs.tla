-------------------------- MODULE GitJournalProofs ---------------------------
(***************************************************************************)
(* Proofs about GitJournal.  The invariant ties a live Codex to its row, a *)
(* boundary to the worker that made it, a command under the board lock to  *)
(* the entries it works on, and an ended attempt to a row that nobody runs *)
(* again.                                                                  *)
(***************************************************************************)
EXTENDS GitJournal, FiniteSetTheorems, TLAPS

Columns == Active \cup {"done"}
Tokens  == {None} \cup 1..MaxRuns
BoardStates  == [Tasks -> SUBSET Entries]

Results  == Failed \cup {"idle", "success", "stopped"}
Reports  == [s : Sessions \cup {None}, res : Results, tok : Tokens,
             was : Sessions \cup {None}]
PlanTyped(p) ==
  /\ p.s \in Sessions /\ p.j \in Journals \cup {None}
  /\ \/ p.t = None /\ p.e = None
     \/ p.t \in Tasks /\ p.e \in Entries

-----------------------------------------------------------------------------
(* The inductive invariant.                                                *)

GitTypes ==
  /\ env \in Scenarios
  /\ tree \in Seq(BoardStates) /\ Len(tree) <= MaxCommits
  /\ tip \in [Branches -> 1..Len(tree)] /\ branch \in Branches
  /\ board \in BoardStates

RegistryTypes ==
  /\ mode \in BOOLEAN /\ smode \in [Sessions -> {"new", "off", "commit"}]
  /\ jr \in [Sessions -> Journals \cup {None}] /\ ctl \in [Sessions -> Rows]
  /\ \A s \in Sessions : jr[s] # None => jr[s].start \in 1..Len(tree)
  /\ launch \in Launches(1..MaxRuns) \cup {None}
  /\ launch # None => launch.start \in 1..Len(tree)
  /\ lease \in {None} \cup [h : {"user", "pass", "run"}, dead : BOOLEAN]
  /\ hist \in Seq(Reports) /\ Len(hist) <= MaxHist
  /\ closed \subseteq Sessions

RunTypes ==
  /\ next \in 1..(MaxRuns + 1) /\ wk \in Workers(1..MaxRuns) \cup {None}
  /\ wk # None /\ wk.at = "bound" =>
       /\ wk.start \in 1..Len(tree) /\ wk.branch \in Branches
       /\ wk.s = None /\ wk.git
  /\ codex \subseteq [s : Sessions \cup {None}, run : 1..MaxRuns, git : BOOLEAN]

PassTypes ==
  /\ pass \in {"idle", "plan", "exec", "gate", "fin", "branch", "repair",
               "decide"}
  /\ left \subseteq Sessions
  /\ plan = [w \in {"user", "pass"} |-> plan[w]]
  /\ \A w \in {"user", "pass"} : plan[w] # None => PlanTyped(plan[w])

Types == GitTypes /\ RegistryTypes /\ RunTypes /\ PassTypes

\* What is left to do of a command under the board lock.
Todos == {<<"attach", "rename">>, <<"attach", "copy", "drop">>, <<"rename">>,
          <<"copy", "drop">>, <<"drop">>, <<"rename", "release">>,
          <<"copy", "drop", "release">>, <<"drop", "release">>,
          <<"remove", "release">>, <<"attach">>, <<"remove">>, <<"release">>,
          <<"mark", "clean", "release">>, <<"clean", "release">>,
          <<"mark", "rename", "clean", "release">>,
          <<"rename", "clean", "release">>,
          <<"mark", "copy", "drop", "clean", "release">>,
          <<"copy", "drop", "clean", "release">>,
          <<"drop", "clean", "release">>}

Moves(o)   == \E i \in 1..Len(o.todo) : o.todo[i] \in {"rename", "copy"}
MovedTo(o) == [o.e EXCEPT !.col = o.to]

Commands == [by : {"user", "pass", "worker", "agent"},
             s : Sessions \cup {None}, t : Tasks \cup {None},
             e : Entries \cup {None}, to : Columns \cup {None}, todo : Todos]

\* A command has its entry; a move goes to another column and has written the
\* destination before it drops the source; a pass that removes an entry leaves
\* the other one of a pair.
LockHeld ==
  op # None =>
    /\ op \in Commands
    /\ op.todo # <<"release">> => op.t \in Tasks /\ op.e \in Entries
    /\ Moves(op) \/ At("drop") => op.to \in Columns /\ op.to # op.e.col
    /\ At("drop") => MovedTo(op) \in board[op.t]
    /\ At("remove") /\ op.by # "user" => board[op.t] \ {op.e} # {}

\* A Codex that has announced its session is the one its row names.
CodexHasRow ==
  \A c \in codex : c.s # None =>
    ctl[c.s].st \in {"running", "stopreq"} /\ ctl[c.s].tok = c.run

\* So is a worker until it has settled.
WorkerHasRow ==
  wk # None /\ wk.at = "live" /\ wk.s # None =>
    ctl[wk.s].st \in {"running", "stopreq"} /\ ctl[wk.s].tok = wk.run

\* A Codex that has not announced its session keeps its worker, and the worker
\* the boundary.
BoundaryKept ==
  \A c \in codex : c.s = None /\ c.git =>
    /\ wk # None /\ wk.run = c.run /\ wk.at = "live" /\ wk.s = None /\ wk.git
    /\ launch # None /\ launch.run = c.run

\* The journals a pass has yet to repair are bound.
LeftBound ==
  pass = "repair" => \A s \in left : jr[s] # None /\ jr[s].task # None

\* A reviewed recovery of a journal that is not retired is for another branch.
PlansSound ==
  \A w \in {"user", "pass"} :
    LET p == plan[w] IN
    p # None /\ ~p.restart /\ p.j # None /\ p.j.st # "cancelled" =>
      p.j.branch # p.branch

\* An attempt that was ended has no open journal, and its row either says so
\* or is gone together with the reason to look for it.
Ended(s) ==
  \/ ctl[s].st = "stopped" /\ (jr[s] = None \/ jr[s].st = "cancelled")
  \/ /\ ctl[s] = NoRow /\ jr[s] # None /\ jr[s].st = "cancelled"
     /\ jr[s].why \in {"complete", "delete"}
ClosedEnded == \A s \in closed : Ended(s)

\* What is being resumed was not ended; a Todo's session may have been.
ResumedOpen ==
  wk # None /\ wk.at = "start" /\ wk.s # None /\ wk.sel # "todo" =>
    wk.want = wk.s /\ wk.s \notin closed

JournalInv ==
  /\ Types /\ LockHeld /\ CodexHasRow /\ WorkerHasRow /\ BoundaryKept
  /\ JournalCoversTask /\ LeftBound /\ PlansSound /\ ClosedEnded /\ ResumedOpen

-----------------------------------------------------------------------------
(* Constants and frames.                                                   *)

LEMMA Scene ==
  ASSUME env \in Scenarios
  PROVE  /\ First \subseteq Tasks /\ GitOn \in BOOLEAN /\ Folder \in BOOLEAN
         /\ MaxRuns \in Nat /\ MaxHist \in Nat /\ MaxCommits \in Nat
         /\ MaxCommits > 0
         /\ None \notin Sessions /\ None \notin Tasks /\ None \notin Nat
         /\ None \notin Journals /\ None \notin Launches(1..MaxRuns)
         /\ None \notin Workers(1..MaxRuns)
<1>1. /\ First \subseteq Tasks /\ GitOn \in BOOLEAN /\ Folder \in BOOLEAN
      /\ MaxRuns \in Nat /\ MaxHist \in Nat /\ MaxCommits \in Nat
      /\ MaxCommits > 0
      /\ None \notin Sessions /\ None \notin Tasks /\ None \notin Nat
  BY JournalScenarios DEF First, Tasks, GitOn, Folder, MaxRuns, MaxHist,
     MaxCommits
<1>2. Journals \subseteq JournalRows(env.tasks, Nat, Nat)
  BY <1>1 DEF Journals, JournalRows, Tasks
<1>3. /\ Launches(1..MaxRuns) \subseteq Launches(Nat)
      /\ Workers(1..MaxRuns) \subseteq Workers(Nat)
  BY <1>1 DEF Launches, Workers
<1> QED BY <1>1, <1>2, <1>3, NoneIsNoRow

\* The scene stays, and with it everything that is defined from it.
LEMMA SceneKept ==
  ASSUME [Next]_vars
  PROVE  /\ env' = env /\ Inputs' = Inputs /\ Tasks' = Tasks
         /\ MaxRuns' = MaxRuns /\ MaxHist' = MaxHist
         /\ MaxCommits' = MaxCommits /\ BoardStates' = BoardStates
         /\ Journals' = Journals /\ Rows' = Rows
         /\ Reports' = Reports /\ Commands' = Commands
<1>1. env' = env
  BY DEF Next, vars, PassNext, WorkerNext, AgentNext, UserNext, FaultNext,
     UserAdds, UserCommits, UserSwitches, UserUnlinks, UserStops, UserResumes,
     UserSetsMode, Rebuild, BoardStep, OpReleases, UserDies, PassDies,
     LeaseExpires, UserEnds, PrepareFresh, RecordLaunch, Register, EnableGit,
     ResumeKnown, ResumeRefused, CodexExits, WorkerSettles, WorkerDies,
     Abandon, RowRecovered, AgentActivates, AgentSeals, Executes, UserPlans,
     UserDeclines, PassRetires, PassPlans, PassGates, PassReports,
     PassPlansBranch, PassReconciles, PassRepairs, PassReleases, PassRelinks,
     PassDecides, CancelOrphan
<1> QED
  BY <1>1 DEF Inputs, Tasks, MaxRuns, MaxHist, MaxCommits, BoardStates,
     Journals, Rows, Reports, Commands, Tokens

\* Commits are only added, with the board of the worktree.
Commits ==
  /\ Len(tree) < MaxCommits /\ tree' = Append(tree, board)
  /\ tip' = [tip EXCEPT ![branch] = Len(tree) + 1]

LEMMA TreeMoves ==
  ASSUME [Next]_vars
  PROVE  UNCHANGED <<tree, tip>> \/ Commits
<1>1. CASE PrepareFresh
  BY <1>1 DEF PrepareFresh, Checkpoint, Commits
<1>2. CASE EnableGit
  BY <1>2 DEF EnableGit, Checkpoint, Commits
<1>3. CASE UserCommits
  BY <1>3 DEF UserCommits, Commits
<1>4. CASE ~(PrepareFresh \/ EnableGit \/ UserCommits)
  <2>1. CASE BoardStep \/ OpReleases \/ LeaseExpires \/ UNCHANGED vars
    BY <2>1 DEF git, vars, BoardStep, OpReleases, LeaseExpires
  <2>2. CASE PassNext
    BY <2>2 DEF git, PassNext, Executes, PassRetires, PassPlans, PassGates,
       PassReports, PassPlansBranch, PassReconciles, PassRepairs,
       PassReleases, PassRelinks, PassDecides
  <2>3. CASE WorkerNext
    BY <1>4, <2>3 DEF git, WorkerNext, RecordLaunch, Register, ResumeKnown,
       ResumeRefused, WorkerSettles, Abandon, RowRecovered
  <2>4. CASE AgentNext
    BY <2>4 DEF git, AgentNext, CodexExits, AgentActivates, AgentSeals
  <2>5. CASE UserNext
    BY <1>4, <2>5 DEF git, UserNext, Executes, UserSwitches, UserSetsMode,
       UserDeclines, UserStops, UserResumes, UserPlans, CancelOrphan,
       UserAdds, UserUnlinks, UserEnds
  <2>6. CASE FaultNext
    BY <2>6 DEF git, FaultNext, UserDies, PassDies, WorkerDies, Rebuild
  <2> QED BY <2>1, <2>2, <2>3, <2>4, <2>5, <2>6 DEF Next
<1> QED BY <1>1, <1>2, <1>3, <1>4

\* Who writes what.
BoardWriters ==
  \/ BoardStep \/ UserSwitches
  \/ \E t \in Tasks : UserAdds(t) \/ \E e \in board[t] : UserUnlinks(t, e)
Ends == \E t \in Tasks : \E e \in board[t] :
          UserEnds("complete", t, e) \/ UserEnds("delete", t, e)
Activates == \E c \in codex : \E t \in Tasks : \E e \in board[t] :
               AgentActivates(c, t, e)
Seals == \E c \in codex : AgentSeals(c)
Recovers == Executes("user") \/ Executes("pass")
JournalWriters ==
  \/ EnableGit \/ ResumeKnown \/ PassRetires \/ PassReconciles
  \/ Ends \/ Activates \/ Seals \/ Recovers
  \/ \E ok \in BOOLEAN : WorkerSettles(ok) \/ Rebuild(ok)
  \/ \E s \in Sessions : Register(s) \/ CancelOrphan(s)
RowWriters ==
  \/ ResumeKnown \/ PassRetires \/ PassReconciles \/ PassGates \/ PassDecides
  \/ Ends \/ Recovers
  \/ \E ok \in BOOLEAN : WorkerSettles(ok) \/ Rebuild(ok)
  \/ \E s \in Sessions : \/ UserStops(s) \/ UserResumes(s) \/ Register(s)
                         \/ CancelOrphan(s) \/ RowRecovered(s)
CodexWriters ==
  \/ PrepareFresh \/ RecordLaunch \/ ResumeKnown
  \/ \E s \in Sessions : Register(s)
  \/ \E c \in codex : CodexExits(c)
WorkerWriters ==
  \/ PrepareFresh \/ RecordLaunch \/ EnableGit \/ ResumeKnown \/ ResumeRefused
  \/ WorkerDies \/ Abandon \/ PassDecides
  \/ \E ok \in BOOLEAN : WorkerSettles(ok)
  \/ \E s \in Sessions : Register(s)
LaunchWriters == PrepareFresh \/ RecordLaunch \/ \E s \in Sessions : Register(s)
HistWriters ==
  \/ PrepareFresh \/ RecordLaunch \/ EnableGit \/ ResumeRefused \/ Abandon
  \/ \E ok \in BOOLEAN : WorkerSettles(ok) \/ Rebuild(ok)
  \/ \E s \in Sessions : PassReports(s)
ClosedWriters == Ends \/ Recovers \/ \E s \in Sessions : UserResumes(s)
PlanWriters ==
  \/ PassDies \/ Recovers \/ UserDeclines \/ PassPlans \/ PassPlansBranch
  \/ \E s \in Sessions : UserPlans(s)
OpWriters ==
  \/ BoardStep \/ OpReleases \/ UserDies \/ PassDies \/ WorkerDies
  \/ Ends \/ Activates \/ Seals \/ Recovers \/ ResumeKnown \/ PassRelinks
  \/ \E c \in codex : CodexExits(c)
  \/ \E s \in Sessions : PassRepairs(s)

LEMMA Footprints ==
  ASSUME [Next]_vars
  PROVE  /\ board' = board \/ BoardWriters
         /\ branch' = branch \/ UserSwitches
         /\ jr' = jr \/ JournalWriters
         /\ ctl' = ctl \/ RowWriters
         /\ codex' = codex \/ CodexWriters
         /\ wk' = wk \/ WorkerWriters
         /\ launch' = launch \/ LaunchWriters
         /\ hist' = hist \/ HistWriters
         /\ closed' = closed \/ ClosedWriters
         /\ plan' = plan \/ PlanWriters
         /\ op' = op \/ OpWriters
<1> USE DEF git, modes, run, sched, BoardWriters, Ends, Activates, Seals,
       Recovers, JournalWriters, RowWriters, CodexWriters, WorkerWriters,
       LaunchWriters, HistWriters, ClosedWriters, PlanWriters, OpWriters
<1>1. CASE BoardStep \/ OpReleases \/ LeaseExpires \/ UNCHANGED vars
  BY <1>1 DEF vars, BoardStep, OpReleases, LeaseExpires
<1>2. CASE PassNext
  BY <1>2 DEF PassNext, Executes, PassRetires, PassPlans, PassGates,
     PassReports, PassPlansBranch, PassReconciles, PassRepairs,
     PassReleases, PassRelinks, PassDecides
<1>3. CASE WorkerNext
  BY <1>3 DEF WorkerNext, PrepareFresh, RecordLaunch, Register, EnableGit,
     ResumeKnown, ResumeRefused, WorkerSettles, Abandon, RowRecovered
<1>4. CASE AgentNext
  BY <1>4 DEF AgentNext, CodexExits, AgentActivates, AgentSeals
<1>5. CASE UserNext
  <2>1. CASE Ends
    BY <2>1 DEF UserEnds
  <2>2. ASSUME NEW t \in Tasks,
               UserAdds(t) \/ \E e \in board[t] : UserUnlinks(t, e)
        PROVE  /\ BoardWriters
               /\ UNCHANGED <<branch, jr, ctl, codex, wk, launch, hist, closed,
                              plan, op>>
    BY <2>2 DEF UserAdds, UserUnlinks
  <2>3. CASE \E s \in Sessions : \/ UserStops(s) \/ UserResumes(s)
                                \/ UserPlans(s) \/ CancelOrphan(s)
    BY <2>3 DEF UserStops, UserResumes, UserPlans, CancelOrphan
  <2>4. CASE \/ UserCommits \/ UserSwitches \/ UserSetsMode \/ UserDeclines
             \/ Executes("user")
    BY <2>4 DEF Executes, UserCommits, UserSwitches, UserSetsMode, UserDeclines
  <2> QED BY <1>5, <2>1, <2>2, <2>3, <2>4 DEF UserNext
<1>6. CASE FaultNext
  BY <1>6 DEF FaultNext, UserDies, PassDies, WorkerDies, Rebuild
<1> QED BY <1>1, <1>2, <1>3, <1>4, <1>5, <1>6 DEF Next

-----------------------------------------------------------------------------
(* Commits and the board.                                                  *)

LEMMA TodoSteps ==
  ASSUME NEW q \in Todos
  PROVE  Len(q) \in Nat /\ Len(q) >= 1 /\ (Len(q) # 1 => Tail(q) \in Todos)
<1>1. /\ Tail(<<"attach", "rename">>) = <<"rename">>
      /\ Tail(<<"attach", "copy", "drop">>) = <<"copy", "drop">>
      /\ Tail(<<"copy", "drop">>) = <<"drop">>
      /\ Tail(<<"rename", "release">>) = <<"release">>
      /\ Tail(<<"copy", "drop", "release">>) = <<"drop", "release">>
      /\ Tail(<<"drop", "release">>) = <<"release">>
      /\ Tail(<<"remove", "release">>) = <<"release">>
      /\ Tail(<<"clean", "release">>) = <<"release">>
  OBVIOUS
<1>2. /\ Tail(<<"mark", "clean", "release">>) = <<"clean", "release">>
      /\ Tail(<<"mark", "rename", "clean", "release">>)
           = <<"rename", "clean", "release">>
      /\ Tail(<<"rename", "clean", "release">>) = <<"clean", "release">>
      /\ Tail(<<"mark", "copy", "drop", "clean", "release">>)
           = <<"copy", "drop", "clean", "release">>
      /\ Tail(<<"copy", "drop", "clean", "release">>)
           = <<"drop", "clean", "release">>
      /\ Tail(<<"drop", "clean", "release">>) = <<"clean", "release">>
  OBVIOUS
<1>3. Len(q) \in Nat /\ Len(q) >= 1
  BY DEF Todos
<1>4. ASSUME Len(q) # 1 PROVE Tail(q) \in Todos
  <2>1. {<<"rename">>, <<"copy", "drop">>, <<"drop">>, <<"release">>,
         <<"drop", "release">>, <<"clean", "release">>,
         <<"rename", "clean", "release">>, <<"drop", "clean", "release">>,
         <<"copy", "drop", "clean", "release">>} \subseteq Todos
    BY Zenon DEF Todos
  <2>2. \/ q \in {<<"attach", "rename">>, <<"attach", "copy", "drop">>,
                  <<"copy", "drop">>, <<"rename", "release">>,
                  <<"copy", "drop", "release">>, <<"drop", "release">>,
                  <<"remove", "release">>, <<"clean", "release">>}
        \/ q \in {<<"mark", "clean", "release">>,
                  <<"mark", "rename", "clean", "release">>,
                  <<"rename", "clean", "release">>,
                  <<"mark", "copy", "drop", "clean", "release">>,
                  <<"copy", "drop", "clean", "release">>,
                  <<"drop", "clean", "release">>}
        \/ q \in {<<"attach">>, <<"rename">>, <<"drop">>, <<"remove">>,
                  <<"release">>}
    BY Zenon DEF Todos
  <2>3. q \notin {<<"attach">>, <<"rename">>, <<"drop">>, <<"remove">>,
                  <<"release">>}
    BY <1>4
  <2> QED BY Zenon, <1>1, <1>2, <2>1, <2>2, <2>3
<1> QED BY <1>3, <1>4

LEMMA Joined ==
  ASSUME NEW p \in Seq(StepNames), NEW q \in Seq(StepNames),
         NEW r \in Seq(StepNames), Len(r) = Len(p) + Len(q),
         \A i \in 1..Len(p) : r[i] = p[i],
         \A i \in 1..Len(q) : r[Len(p) + i] = q[i]
  PROVE  p \o q = r
<1>1. p \o q \in Seq(StepNames) /\ Len(p \o q) = Len(r)
  OBVIOUS
<1>2. \A i \in 1..Len(r) : (p \o q)[i] = r[i]
  <2> SUFFICES ASSUME NEW i \in 1..Len(r) PROVE (p \o q)[i] = r[i]
    OBVIOUS
  <2>1. CASE i <= Len(p)
    BY <2>1
  <2>2. CASE i > Len(p)
    <3>1. PICK k \in 1..Len(q) : i = Len(p) + k
      <4>1. i - Len(p) \in 1..Len(q) /\ i = Len(p) + (i - Len(p))
        BY <2>2
      <4> QED BY <4>1
    <3> QED BY <2>2, <3>1
  <2> QED BY <2>1, <2>2
<1> QED BY <1>1, <1>2

LEMMA EntryTypes ==
  ASSUME NEW e \in Entries
  PROVE  /\ \A c \in Columns : [e EXCEPT !.col = c] \in Entries
         /\ \A s \in Sessions \cup {None} : [e EXCEPT !.link = s] \in Entries
         /\ [e EXCEPT !.stop = TRUE] \in Entries
         /\ \A b \in BOOLEAN : Entry("todo", None, b) \in Entries
BY DEF Entries, Columns, Entry, Active

\* Only the holder of the lock changes the entries of its task.
LEMMA BoardStepTypes ==
  ASSUME Types, LockHeld, BoardStep
  PROVE  /\ op # None /\ op.t \in Tasks /\ op.e \in Entries
         /\ board' \in BoardStates
<1>1. op # None /\ op \in Commands /\ op.t \in Tasks /\ op.e \in Entries
  BY DEF BoardStep, At, LockHeld
<1>2. /\ board \in [Tasks -> SUBSET Entries]
      /\ op.s \in Sessions \cup {None} /\ op.todo \in Todos
  BY <1>1 DEF Types, GitTypes, BoardStates, Commands
<1>3. Len(op.todo) \in Nat /\ Len(op.todo) >= 1
  BY <1>2, TodoSteps
<1>4. At("copy") \/ At("rename") => op.to \in Columns
  BY <1>1, <1>3 DEF At, LockHeld, Moves
<1>5. ASSUME NEW old, NEW new \in SUBSET Entries, Put(old, new)
      PROVE  board' \in BoardStates
  BY <1>1, <1>2, <1>5 DEF Put, BoardStates
<1>6. /\ At("copy") \/ At("rename") => [op.e EXCEPT !.col = op.to] \in Entries
      /\ [op.e EXCEPT !.link = op.s] \in Entries
      /\ [op.e EXCEPT !.stop = TRUE] \in Entries
      /\ Entry("todo", None, FALSE) \in Entries
  BY <1>1, <1>2, <1>4, EntryTypes
<1>7. CASE Put({op.e}, {[op.e EXCEPT !.link = op.s]})
  BY <1>1, <1>5, <1>6, <1>7
<1>8. CASE Put({op.e}, {[op.e EXCEPT !.stop = TRUE]})
  BY <1>1, <1>5, <1>6, <1>8
<1>9. CASE At("copy") /\ Put({}, {[op.e EXCEPT !.col = op.to]})
  BY <1>1, <1>5, <1>6, <1>9
<1>10. CASE At("rename") /\ Put({op.e}, {[op.e EXCEPT !.col = op.to]})
  BY <1>1, <1>5, <1>6, <1>10
<1>11. CASE Put({op.e}, {})
  BY <1>1, <1>5, <1>11
<1>12. CASE \E old : Put(old, {Entry("todo", None, FALSE)})
  BY <1>1, <1>5, <1>6, <1>12
<1> QED BY <1>7, <1>8, <1>9, <1>10, <1>11, <1>12 DEF BoardStep

LEMMA BoardTypes ==
  ASSUME Types, LockHeld, [Next]_vars
  PROVE  board' \in BoardStates /\ branch' \in Branches
<1>0. /\ board \in BoardStates /\ branch \in Branches /\ tree \in Seq(BoardStates)
      /\ tip \in [Branches -> 1..Len(tree)]
  BY DEF Types, GitTypes
<1>1. CASE UserSwitches
  <2>1. PICK to \in Branches :
          branch' = to /\ (board' = board \/ board' = tree[tip[to]])
    BY <1>1 DEF UserSwitches, Branches
  <2>2. tree[tip[to]] \in BoardStates
    BY <1>0, <2>1
  <2> QED BY <1>0, <2>1, <2>2
<1>2. ASSUME NEW t \in Tasks, UserAdds(t)
      PROVE  board' \in BoardStates
  <2>1. Entry("todo", None, FALSE) \in Entries
    BY DEF Entry, Entries, Active
  <2> QED BY <1>0, <1>2, <2>1 DEF UserAdds, BoardStates
<1>3. ASSUME NEW t \in Tasks, NEW e \in board[t], UserUnlinks(t, e)
      PROVE  board' \in BoardStates
  <2>1. e \in Entries
    BY <1>0 DEF BoardStates
  <2>2. [e EXCEPT !.link = None] \in Entries
    BY <2>1, EntryTypes
  <2> QED BY <1>0, <1>3, <2>2 DEF UserUnlinks, BoardStates
<1>4. ASSUME BoardStep PROVE board' \in BoardStates /\ branch' = branch
  BY <1>4, BoardStepTypes DEF BoardStep, git
<1> QED BY <1>0, <1>1, <1>2, <1>3, <1>4, Footprints DEF BoardWriters

LEMMA GitTypesStep ==
  ASSUME Types, LockHeld, [Next]_vars
  PROVE  /\ GitTypes' /\ Len(tree) <= Len(tree') /\ Len(tree) \in Nat
         /\ Len(tree') \in Nat
         /\ \A i \in 1..Len(tree) : tree'[i] = tree[i]
<1>0. /\ env \in Scenarios /\ board \in BoardStates /\ branch \in Branches
      /\ tree \in Seq(BoardStates) /\ Len(tree) <= MaxCommits
      /\ tip \in [Branches -> 1..Len(tree)] /\ MaxCommits \in Nat
  BY Scene DEF Types, GitTypes
<1>1. env' = env /\ BoardStates' = BoardStates /\ MaxCommits' = MaxCommits
  BY SceneKept
<1>2. board' \in BoardStates /\ branch' \in Branches
  BY BoardTypes
<1>3. CASE UNCHANGED <<tree, tip>>
  BY <1>0, <1>1, <1>2, <1>3 DEF GitTypes
<1>4. CASE Commits
  <2>1. /\ tree' \in Seq(BoardStates) /\ Len(tree') = Len(tree) + 1
        /\ \A i \in 1..Len(tree) : tree'[i] = tree[i]
    BY <1>0, <1>4 DEF Commits
  <2>2. tip' \in [Branches -> 1..Len(tree')] /\ Len(tree') <= MaxCommits
    BY <1>0, <1>4, <2>1 DEF Commits
  <2> QED BY <1>0, <1>1, <1>2, <2>1, <2>2 DEF GitTypes
<1> QED BY <1>3, <1>4, TreeMoves

-----------------------------------------------------------------------------
(* What a step can do to a journal.                                        *)

Whys == {"unused", "obsolete", "orphan", "complete", "delete", "branch",
         "restart"}

\* A session without a journal gets one, at a commit that has its task.
Opens(s) ==
  /\ (EnableGit /\ wk.s = s) \/ Register(s)
  /\ jr[s] = None /\ s \notin closed
  /\ jr'[s] \in Journals /\ jr'[s].st = "working"
  /\ jr'[s].start \in 1..Len(tree')
  /\ jr'[s].task # None =>
       One({e \in tree'[jr'[s].start][jr'[s].task] : e.col \in Active})

Binds(s) ==
  /\ JState(s) = "working"
  /\ \E t \in Tasks : /\ ActiveIn(jr[s].start, t) = 1
                      /\ jr'[s] = [jr[s] EXCEPT !.task = t]
                      /\ \E c \in codex : /\ c.s = s
                                          /\ \E e \in board[t] :
                                               AgentActivates(c, t, e)

Rotates(s) ==
  jr[s] # None /\ \E o \in Tokens : jr'[s] = [jr[s] EXCEPT !.own = o]

Advances(s) ==
  /\ JState(s) \in {"working", "sealed", "push_pending"}
  /\ JState(s) = "working" => \E c \in codex : c.s = s /\ AgentSeals(c)
  /\ \E st \in {"sealed", "push_pending", "completed"} :
       jr'[s] = [jr[s] EXCEPT !.st = st]

\* Whoever retires a journal: no Codex is in its session, nobody holds the
\* board lock, nobody but a worker the lease, and a sealed one is of another
\* branch.
Retires(s) ==
  /\ \/ JState(s) = "working"
     \/ JState(s) = "sealed" /\ jr[s].branch # branch
     \/ JState(s) = "cancelled" /\ ctl'[s].st = "stopped"
  /\ NoCodex(s) /\ op = None /\ (wk = None => lease = None)
  /\ \E why \in Whys : jr'[s] = Cancelled(jr[s], why)

JournalMove(s) ==
  \/ jr'[s] = jr[s]
  \/ Opens(s) \/ Binds(s) \/ Rotates(s) \/ Advances(s) \/ Retires(s)

LEMMA Chosen ==
  /\ \A S : S # {} => The(S) \in S
  /\ \A S : One(S) => S # {}
<1>1. ASSUME NEW S, S # {} PROVE The(S) \in S
  BY <1>1 DEF The
<1>2. ASSUME NEW S, One(S) PROVE S # {}
  BY <1>2, FS_EmptySet DEF One
<1> QED BY <1>1, <1>2

LEMMA LinkedFacts ==
  ASSUME Types, NEW s, NEW x \in Linked(s)
  PROVE  /\ x = <<x[1], x[2]>> /\ x[1] \in Tasks /\ x[2] \in board[x[1]]
         /\ x[2] \in Entries /\ x[2].link = s
<1>1. PICK t \in Tasks : x \in {t} \X board[t]
  BY DEF Linked
<1>2. x = <<t, x[2]>> /\ x[1] = t /\ x[2] \in board[t]
  BY <1>1
<1>3. board[t] \subseteq Entries
  BY DEF Types, GitTypes, BoardStates
<1> QED BY <1>2, <1>3 DEF Linked

LEMMA RetiredFields ==
  ASSUME NEW j \in Journals, NEW why \in Whys
  PROVE  /\ Cancelled(j, why) \in Journals
         /\ Cancelled(j, why).st = "cancelled" /\ Cancelled(j, why).why = why
         /\ Cancelled(j, why).start = j.start /\ Cancelled(j, why).task = j.task
BY DEF Journals, JournalRows, Cancelled, Whys, Pending

LEMMA RotatedFields ==
  ASSUME NEW j \in Journals, NEW o \in Tokens, NEW k, k = [j EXCEPT !.own = o]
  PROVE  /\ k \in Journals /\ k.start = j.start /\ k.task = j.task
         /\ k.st = j.st /\ k.why = j.why
BY DEF Journals, JournalRows, Tokens

LEMMA BoundFields ==
  ASSUME NEW j \in Journals, NEW t \in Tasks, NEW k, k = [j EXCEPT !.task = t]
  PROVE  k \in Journals /\ k.start = j.start /\ k.task = t /\ k.st = j.st
BY DEF Journals, JournalRows

LEMMA AdvancedFields ==
  ASSUME NEW j \in Journals, NEW st \in {"sealed", "push_pending", "completed"},
         NEW k, k = [j EXCEPT !.st = st]
  PROVE  k \in Journals /\ k.start = j.start /\ k.task = j.task /\ k.st = st
BY DEF Journals, JournalRows, Pending

\* A Codex is in no session whose row is at rest.
LEMMA IdleHasNoCodex ==
  ASSUME CodexHasRow, NEW s \in Sessions, Idle(s), None \notin Sessions
  PROVE  NoCodex(s)
BY DEF CodexHasRow, Idle, NoCodex

LEMMA CheckpointFacts ==
  ASSUME Types, Checkpoint
  PROVE  tip'[branch] \in 1..Len(tree') /\ tree'[tip'[branch]] = board
<1>0. /\ branch \in Branches /\ tree \in Seq(BoardStates)
      /\ tip \in [Branches -> 1..Len(tree)] /\ board \in BoardStates
  BY DEF Types, GitTypes
<1>1. CASE board = tree[HeadOid]
  BY <1>0, <1>1 DEF Checkpoint, HeadOid
<1>2. CASE board # tree[HeadOid]
  <2>1. /\ tree' = Append(tree, board)
        /\ tip' = [tip EXCEPT ![branch] = Len(tree) + 1]
    BY <1>2 DEF Checkpoint
  <2> QED BY <1>0, <2>1
<1> QED BY <1>1, <1>2

LEMMA ReconciledFacts ==
  ASSUME NEW j, NEW k \in Reconciled(j)
  PROVE  \/ k = j
         \/ /\ j # None /\ j.st \in {"sealed", "push_pending"}
            /\ \E st \in {"push_pending", "completed"} :
                 k = [j EXCEPT !.st = st]
BY DEF Reconciled

\* A worker keeps the journal it reconciled, or retires an unused one.
LEMMA SettlementFacts ==
  ASSUME NEW s, NEW j, NEW ok \in BOOLEAN
  PROVE  /\ \/ Settlement(s, j, ok).j = j
            \/ /\ j # None /\ j.st = "working"
               /\ Settlement(s, j, ok).j = Cancelled(j, "unused")
         /\ Settlement(s, j, ok).res \in {"idle", "failure", "success"}
<1> DEFINE st == IF j = None THEN "none" ELSE j.st
           res == IF ok THEN "idle" ELSE "failure"
           retry == wk.sel = "resume" /\ ~ok
           unused == st = "working" /\ Linked(s) = {} /\ (ok \/ j.task = None)
           out(x, r, keep) == [j |-> x, res |-> r, keep |-> keep]
<1>1. CASE unused /\ j.own = wk.run
  <2>1. Settlement(s, j, ok) = out(Cancelled(j, "unused"), res, retry)
    BY <1>1 DEF Settlement
  <2> QED BY <1>1, <2>1
<1>2. CASE unused /\ j.own # wk.run
  <2>1. Settlement(s, j, ok) = out(j, "failure", TRUE)
    BY <1>2 DEF Settlement
  <2> QED BY <2>1
<1>3. CASE ~unused /\ st \in {"working", "sealed"}
  <2>1. Settlement(s, j, ok) = out(j, "failure", TRUE)
    BY <1>3 DEF Settlement
  <2> QED BY <2>1
<1>4. CASE st = "push_pending"
  <2>1. Settlement(s, j, ok) = out(j, "failure", FALSE)
    BY <1>4 DEF Settlement
  <2> QED BY <2>1
<1>5. CASE st = "completed"
  <2>1. Settlement(s, j, ok) = out(j, "success", FALSE)
    BY <1>5 DEF Settlement
  <2> QED BY <2>1
<1>6. CASE st \notin {"working", "sealed", "push_pending", "completed"}
  <2>1. Settlement(s, j, ok) = out(j, res, retry)
    BY <1>6 DEF Settlement
  <2> QED BY <2>1
<1> QED BY <1>1, <1>2, <1>3, <1>4, <1>5, <1>6

LEMMA RefusalFacts ==
  ASSUME NEW s
  PROVE  /\ Refusal(s) \in {"failure", "branch", "missing", None}
         /\ Refusal(s) = None =>
              /\ TodoStart(s)
              /\ ctl[s].st = (IF wk.sel = "resume" THEN "resume" ELSE "none")
BY NoneIsNoRow DEF Refusal

\* A session whose attempt was ended is not started.
LEMMA StartsOpen ==
  ASSUME Types, ClosedEnded, ResumedOpen, WorkerUp("start"),
         NEW s \in closed, wk.s = s
  PROVE  ~TodoStart(s)
<1>1. s # None /\ wk.sel = "todo"
  BY Scene DEF ResumedOpen, WorkerUp, Types, GitTypes, RegistryTypes
<1>2. Ended(s)
  BY DEF ClosedEnded
<1>3. CASE ctl[s].st = "stopped"
  BY <1>1, <1>3 DEF TodoStart, NoRow
<1>4. CASE jr[s] # None /\ jr[s].st = "cancelled"
  BY <1>1, <1>4 DEF TodoStart, JState
<1> QED BY <1>2, <1>3, <1>4 DEF Ended

LEMMA EnableOpens ==
  ASSUME JournalInv, EnableGit, jr' # jr
  PROVE  /\ \A x \in Sessions \ {wk.s} : jr'[x] = jr[x]
         /\ wk.s \in Sessions /\ Opens(wk.s)
<1>0. Types /\ ClosedEnded /\ ResumedOpen
  BY DEF JournalInv
<1>1. /\ WorkerUp("start") /\ wk.s # None /\ jr[wk.s] = None
      /\ TodoStart(wk.s) /\ CanEnable(wk.s) /\ Checkpoint
      /\ jr' = [jr EXCEPT ![wk.s] = Journal(The(Linked(wk.s))[1], wk.run,
                                            tip'[branch], branch)]
  BY DEF EnableGit
<1>2. wk \in Workers(1..MaxRuns) /\ wk.s \in Sessions /\ wk.run \in 1..MaxRuns
  BY <1>0, <1>1 DEF Types, RunTypes, WorkerUp, Workers
<1>3. wk.s \notin closed
  BY <1>0, <1>1, StartsOpen
<1> DEFINE x == The(Linked(wk.s))
<1>4. x \in Linked(wk.s)
  BY <1>1, Chosen DEF CanEnable
<1>5. x[1] \in Tasks
  BY <1>0, <1>4, LinkedFacts
<1>6. One({e \in board[x[1]] : e.col \in Active})
  BY <1>1, <1>4 DEF CanEnable, One
<1>7. tip'[branch] \in 1..Len(tree') /\ tree'[tip'[branch]] = board
  BY <1>0, <1>1, CheckpointFacts
<1>8. branch \in Branches /\ jr \in [Sessions -> Journals \cup {None}]
  BY <1>0 DEF Types, GitTypes, RegistryTypes
<1>9. tip'[branch] \in 1..MaxCommits
  <2>1. Len(tree') <= MaxCommits /\ MaxCommits \in Nat /\ Len(tree') \in Nat
    BY <1>0, <1>1, Scene DEF Types, GitTypes, Checkpoint
  <2> QED BY <1>7, <2>1
<1>10. Journal(x[1], wk.run, tip'[branch], branch) \in Journals
  BY <1>2, <1>5, <1>8, <1>9 DEF Journal, Journals, JournalRows, Pending
<1>11. jr'[wk.s] = Journal(x[1], wk.run, tip'[branch], branch)
  BY <1>1, <1>2, <1>8
<1>12. Opens(wk.s)
  <2>1. /\ jr'[wk.s].st = "working" /\ jr'[wk.s].start = tip'[branch]
        /\ jr'[wk.s].task = x[1]
    BY <1>11 DEF Journal
  <2>2. tree'[jr'[wk.s].start][jr'[wk.s].task] = board[x[1]]
    BY <1>7, <2>1
  <2> HIDE DEF x
  <2>3. One({e \in tree'[jr'[wk.s].start][jr'[wk.s].task] : e.col \in Active})
    BY <1>6, <2>2
  <2> QED BY <1>1, <1>3, <1>7, <1>10, <1>11, <2>1, <2>3 DEF Opens
<1> QED BY <1>1, <1>2, <1>8, <1>12

LEMMA RegisterOpens ==
  ASSUME JournalInv, NEW s \in Sessions, Register(s), jr' # jr
  PROVE  (\A x \in Sessions \ {s} : jr'[x] = jr[x]) /\ Opens(s)
<1>0. Types /\ ClosedEnded /\ BoundaryKept
  BY DEF JournalInv
<1>1. /\ WorkerUp("live") /\ wk.git /\ jr[s] = None /\ ctl[s] = NoRow
      /\ [s |-> None, run |-> wk.run, git |-> wk.git] \in codex
      /\ jr' = [jr EXCEPT ![s] = Journal(None, wk.run, launch.start,
                                         launch.branch)]
      /\ UNCHANGED tree
  BY DEF Register, git
<1>2. launch # None
  BY <1>0, <1>1 DEF BoundaryKept
<1>3. /\ wk.run \in 1..MaxRuns /\ launch.start \in 1..Len(tree)
      /\ launch.branch \in Branches /\ jr \in [Sessions -> Journals \cup {None}]
      /\ Len(tree) <= MaxCommits /\ MaxCommits \in Nat /\ Len(tree) \in Nat
  BY <1>0, <1>1, <1>2, Scene DEF Types, GitTypes, RegistryTypes, RunTypes,
     Workers, Launches, WorkerUp
<1>4. s \notin closed
  BY <1>0, <1>1 DEF ClosedEnded, Ended, NoRow
<1>5. Journal(None, wk.run, launch.start, launch.branch) \in Journals
  BY <1>3 DEF Journal, Journals, JournalRows, Pending
<1>6. jr'[s] = Journal(None, wk.run, launch.start, launch.branch)
  BY <1>1, <1>3
<1> QED BY <1>1, <1>3, <1>4, <1>5, <1>6 DEF Opens, Journal

LEMMA JournalMoves ==
  ASSUME JournalInv, [Next]_vars, NEW s \in Sessions
  PROVE  JournalMove(s)
<1>0. /\ Types /\ CodexHasRow /\ WorkerHasRow /\ PlansSound
      /\ jr \in [Sessions -> Journals \cup {None}] /\ None \notin Sessions
      /\ wk # None => wk \in Workers(1..MaxRuns)
  BY Scene DEF JournalInv, Types, GitTypes, RegistryTypes, RunTypes
<1>1. CASE EnableGit
  BY <1>1, EnableOpens DEF JournalMove
<1>2. ASSUME NEW x \in Sessions, Register(x) PROVE JournalMove(s)
  BY <1>2, RegisterOpens DEF JournalMove
<1>3. CASE ResumeKnown
  <2>1. wk.run \in Tokens
    BY <1>0, <1>3 DEF ResumeKnown, WorkerUp, Workers, Tokens
  <2>2. CASE jr' = jr
    BY <2>2 DEF JournalMove
  <2>3. CASE jr' # jr
    <3>1. /\ JState(wk.s) = "working" /\ wk.s \in Sessions
          /\ \/ jr' = [jr EXCEPT ![wk.s].own = wk.run]
             \/ jr' = [jr EXCEPT ![wk.s].own = @]
      BY <1>0, <1>3, <2>3 DEF ResumeKnown, WorkerUp, Workers
    <3>2. jr[wk.s] # None /\ jr[wk.s] \in Journals
      BY <1>0, <3>1 DEF JState
    <3>3. jr[wk.s].own \in Tokens
      BY <3>2 DEF Journals, JournalRows, Tokens
    <3> QED BY <1>0, <2>1, <3>1, <3>2, <3>3 DEF JournalMove, Rotates
  <2> QED BY <2>2, <2>3
<1>4. CASE PassRetires
  <2>1. CASE jr'[s] = jr[s]
    BY <2>1 DEF JournalMove
  <2>2. CASE jr'[s] # jr[s]
    <3>1. /\ Abandoned(s) \/ Superseded(s)
          /\ jr'[s] = Cancelled(jr[s], "obsolete")
      BY <1>4, <2>2 DEF PassRetires
    <3>2. JState(s) = "working" /\ Idle(s) /\ op = None /\ lease = None
      BY <1>4, <3>1 DEF Abandoned, Superseded, Replaced, Unbound, ProjectIdle,
         PassRetires
    <3> QED BY <1>0, <3>1, <3>2, IdleHasNoCodex DEF JournalMove, Retires, Whys
  <2> QED BY <2>1, <2>2
<1>5. CASE PassReconciles
  <2>1. jr'[s] \in Reconciled(jr[s])
    BY <1>5 DEF PassReconciles
  <2> QED BY <2>1, ReconciledFacts DEF JournalMove, Advances, JState
<1>6. CASE Ends
  <2>1. CASE jr' = jr
    BY <2>1 DEF JournalMove
  <2>2. CASE jr' # jr
    <3>0. PICK t \in Tasks : \E e \in board[t] :
            UserEnds("complete", t, e) \/ UserEnds("delete", t, e)
      BY <1>6 DEF Ends
    <3>1. PICK e \in board[t], kind \in {"complete", "delete"} :
            UserEnds(kind, t, e)
      BY <3>0
    <3>2. /\ e.link # None /\ JState(e.link) = "working"
          /\ SessionIdle(e.link) \/ ProjectIdle
          /\ jr' = [jr EXCEPT ![e.link] = Cancelled(@, kind)]
      BY <2>2, <3>1 DEF UserEnds
    <3>3. e.link \in Sessions
      BY <1>0, <3>2 DEF Types, GitTypes, BoardStates, Entries
    <3>4. Idle(e.link) /\ op = None /\ (wk = None => lease = None)
      BY <3>1, <3>2, <3>3 DEF SessionIdle, ProjectIdle, UserEnds, Starts
    <3> QED BY <1>0, <3>2, <3>3, <3>4, IdleHasNoCodex
            DEF JournalMove, Retires, Whys
  <2> QED BY <2>1, <2>2
<1>7. CASE Activates
  <2>1. CASE jr' = jr
    BY <2>1 DEF JournalMove
  <2>2. CASE jr' # jr
    <3>0. PICK c \in codex, t \in Tasks : \E e \in board[t] :
            AgentActivates(c, t, e)
      BY <1>7 DEF Activates
    <3>1. PICK e \in board[t] : AgentActivates(c, t, e)
      BY <3>0
    <3>2. /\ JState(c.s) = "working" /\ ActiveIn(jr[c.s].start, t) = 1
          /\ jr' = [jr EXCEPT ![c.s].task = t] /\ c.s # None
      BY <2>2, <3>1 DEF AgentActivates, RunsIn
    <3>3. c.s \in Sessions
      BY <1>0, <3>2 DEF Types, RunTypes
    <3> QED BY <1>0, <3>1, <3>2, <3>3 DEF JournalMove, Binds
  <2> QED BY <2>1, <2>2
<1>8. CASE Seals
  <2>1. CASE jr' = jr
    BY <2>1 DEF JournalMove
  <2>2. CASE jr' # jr
    <3>1. PICK c \in codex : AgentSeals(c)
      BY <1>8 DEF Seals
    <3>2. /\ JState(c.s) = "working" /\ c.s # None
          /\ jr' = [jr EXCEPT ![c.s].st = "sealed"]
      BY <2>2, <3>1 DEF AgentSeals, RunsIn
    <3>3. c.s \in Sessions
      BY <1>0, <3>2 DEF Types, RunTypes
    <3> QED BY <1>0, <3>1, <3>2, <3>3 DEF JournalMove, Advances
  <2> QED BY <2>1, <2>2
<1>9. CASE Recovers
  <2>1. CASE jr' = jr
    BY <2>1 DEF JournalMove
  <2>2. CASE jr' # jr
    <3>1. PICK w \in {"user", "pass"} : Executes(w)
      BY <1>9 DEF Recovers
    <3> DEFINE p == plan[w]
    <3>2. /\ p # None /\ CanExecute(p) /\ p.j # None
          /\ \E why \in Whys : jr' = [jr EXCEPT ![p.s] = Cancelled(@, why)]
          /\ Row(p.s, "stopped", RecTok(p.run))
      BY <2>2, <3>1 DEF Executes, Whys
    <3>3. p.s \in Sessions /\ ctl'[p.s].st = "stopped"
      BY <1>0, <3>2 DEF Types, PassTypes, PlanTyped, RegistryTypes, Row
    <3>4. jr[p.s] = p.j /\ Idle(p.s) /\ op = None /\ lease = None
      BY <3>1, <3>2, <3>3 DEF CanExecute, BeginJournal, BeginIdle, Idle, Executes
    <3>5. \/ JState(p.s) \in {"working", "cancelled"}
          \/ JState(p.s) = "sealed" /\ jr[p.s].branch # branch
      BY <1>0, <3>2, <3>4 DEF CanExecute, BeginJournal, JState, PlansSound
    <3> HIDE DEF p
    <3> QED BY <1>0, <3>2, <3>3, <3>4, <3>5, IdleHasNoCodex
            DEF JournalMove, Retires
  <2> QED BY <2>1, <2>2
<1>10. ASSUME NEW ok \in BOOLEAN, WorkerSettles(ok) PROVE JournalMove(s)
  <2>1. CASE jr' = jr
    BY <2>1 DEF JournalMove
  <2>2. CASE jr' # jr
    <3>1. /\ WorkerUp("live") /\ wk.s # None
          /\ \A c \in codex : c.run # wk.run
          /\ op = None /\ wk # None
          /\ \E j \in Reconciled(jr[wk.s]) :
               jr' = [jr EXCEPT ![wk.s] = Settlement(wk.s, j, ok).j]
      BY <1>10, <2>2 DEF WorkerSettles, WorkerUp
    <3>2. PICK j \in Reconciled(jr[wk.s]) :
            jr' = [jr EXCEPT ![wk.s] = Settlement(wk.s, j, ok).j]
      BY <3>1
    <3>3. wk.s \in Sessions
      BY <1>0, <3>1 DEF WorkerUp, Workers
    <3>4. NoCodex(wk.s)
      BY <1>0, <3>1 DEF WorkerUp, WorkerHasRow, CodexHasRow, NoCodex
    <3>5. jr'[wk.s] = Settlement(wk.s, j, ok).j
      BY <1>0, <3>2, <3>3
    <3>6. CASE jr'[wk.s] = j
      BY <1>0, <3>2, <3>3, <3>6, ReconciledFacts
         DEF JournalMove, Advances, JState
    <3>7. CASE /\ j # None /\ j.st = "working"
               /\ jr'[wk.s] = Cancelled(j, "unused")
      <4>1. j = jr[wk.s]
        <5>1. CASE j # jr[wk.s]
          <6>1. PICK st \in {"push_pending", "completed"} :
                  j = [jr[wk.s] EXCEPT !.st = st] /\ jr[wk.s] # None
            BY <5>1, ReconciledFacts
          <6>2. jr[wk.s] \in Journals
            BY <1>0, <3>3, <6>1
          <6>3. j.st = st
            BY <6>1, <6>2 DEF Journals, JournalRows
          <6> QED BY <3>7, <6>1, <6>3
        <5> QED BY <5>1
      <4> QED BY <1>0, <3>1, <3>2, <3>3, <3>4, <3>7, <4>1
              DEF JournalMove, Retires, JState, Whys
    <3> QED BY <3>5, <3>6, <3>7, SettlementFacts
  <2> QED BY <2>1, <2>2
<1>11. ASSUME NEW old \in BOOLEAN, Rebuild(old) PROVE JournalMove(s)
  BY <1>11 DEF Rebuild, JournalMove, Rotates, Tokens
<1>12. ASSUME NEW x \in Sessions, CancelOrphan(x) PROVE JournalMove(s)
  <2>1. JState(x) = "working" /\ Idle(x) /\ op = None /\ lease = None
    BY <1>12 DEF CancelOrphan, Unbound, Nonblocking, Idle
  <2>2. jr' = [jr EXCEPT ![x] = Cancelled(@, "orphan")]
    BY <1>12 DEF CancelOrphan
  <2> QED BY <1>0, <2>1, <2>2, IdleHasNoCodex DEF JournalMove, Retires, Whys
<1>13. CASE jr' = jr
  BY <1>13 DEF JournalMove
<1> QED BY <1>1, <1>2, <1>3, <1>4, <1>5, <1>6, <1>7, <1>8, <1>9, <1>10, <1>11,
        <1>12, <1>13, Footprints DEF JournalWriters

-----------------------------------------------------------------------------
(* What a step can do to the row of a session.                             *)

\* A row that nobody runs is put down, dropped or queued.
Rests(s) ==
  /\ ctl'[s].st \in {"none", "stopped", "resume"} /\ NoCodex(s)
  /\ wk' # None /\ wk'.at = "live" => wk'.s # s
  /\ codex' = codex

Requests(s) ==
  /\ ctl[s].st = "running" /\ ctl'[s] = [st |-> "stopreq", tok |-> ctl[s].tok]
  /\ UNCHANGED <<wk, codex>>

\* A worker takes a row at rest for the Codex it releases.
Takes(s) ==
  /\ WorkerUp("start") \/ (WorkerUp("live") /\ wk.s = None)
  /\ Idle(s) /\ s \notin closed
  /\ ctl'[s] = [st |-> "running", tok |-> wk.run]
  /\ wk' # None /\ wk'.run = wk.run /\ wk'.s = s /\ wk'.at = "live"
  /\ \A c \in codex' \ codex : c.s = s /\ c.run = wk.run

RowMove(s) == ctl'[s] = ctl[s] \/ Rests(s) \/ Requests(s) \/ Takes(s)

LEMMA TokenTypes ==
  ASSUME Types
  PROVE  /\ MaxRuns \in Nat /\ MaxHist \in Nat /\ None \notin Nat
         /\ NoRow \in Rows
         /\ \A st \in {"none", "running", "stopreq", "stopped", "resume"} :
              /\ [st |-> st, tok |-> None] \in Rows
              /\ [st |-> st, tok |-> Queue] \in Rows
              /\ \A s \in Sessions : [st |-> st, tok |-> ctl[s].tok] \in Rows
              /\ \A i \in 1..MaxRuns : [st |-> st, tok |-> i] \in Rows
              /\ \A i \in 1..Len(hist) : [st |-> st, tok |-> RecTok(i)] \in Rows
<1>1. /\ MaxRuns \in Nat /\ MaxHist \in Nat /\ None \notin Nat
      /\ ctl \in [Sessions -> Rows] /\ Len(hist) \in Nat /\ Len(hist) <= MaxHist
  BY Scene DEF Types, GitTypes, RegistryTypes
<1>2. \A i \in 1..Len(hist) : RecTok(i) \in 0..(MaxRuns + MaxHist)
  BY <1>1 DEF RecTok
<1> QED BY <1>1, <1>2 DEF Rows, NoRow, Queue

\* A Codex and a worker that runs are in a session of theirs.
LEMMA HeldRows ==
  ASSUME Types, CodexHasRow, WorkerHasRow, NEW s \in Sessions,
         Idle(s) \/ ctl[s].tok = Queue
  PROVE  NoCodex(s) /\ (wk # None /\ wk.at = "live" => wk.s # s)
<1>1. /\ MaxRuns \in Nat /\ None \notin Sessions
      /\ wk # None => wk.run \in 1..MaxRuns
      /\ \A c \in codex : c.run \in 1..MaxRuns
  BY Scene DEF Types, GitTypes, RunTypes, Workers
<1>2. NoCodex(s)
  BY <1>1 DEF CodexHasRow, Idle, NoCodex, Queue
<1>3. wk # None /\ wk.at = "live" => wk.s # s
  BY <1>1 DEF WorkerHasRow, Idle, Queue
<1> QED BY <1>2, <1>3

LEMMA OneRow ==
  ASSUME Types, NEW s \in Sessions, NEW row \in Rows,
         ctl' = [ctl EXCEPT ![s] = row],
         Rests(s) \/ Requests(s) \/ Takes(s) \/ row = ctl[s]
  PROVE  ctl' \in [Sessions -> Rows] /\ \A x \in Sessions : RowMove(x)
BY DEF Types, RegistryTypes, RowMove

LEMMA RowMoves ==
  ASSUME JournalInv, [Next]_vars
  PROVE  ctl' \in [Sessions -> Rows] /\ \A s \in Sessions : RowMove(s)
<1> DEFINE Goal == /\ ctl' \in [Sessions -> Rows]
                   /\ \A s \in Sessions : RowMove(s)
<1>0. /\ Types /\ CodexHasRow /\ WorkerHasRow /\ ClosedEnded /\ ResumedOpen
      /\ ctl \in [Sessions -> Rows] /\ None \notin Sessions
      /\ wk # None => wk \in Workers(1..MaxRuns)
  BY Scene DEF JournalInv, Types, GitTypes, RegistryTypes, RunTypes
<1>t. /\ NoRow \in Rows /\ NoRow.st = "none"
      /\ \A st \in {"none", "running", "stopreq", "stopped", "resume"} :
           /\ [st |-> st, tok |-> None] \in Rows
           /\ [st |-> st, tok |-> Queue] \in Rows
           /\ \A s \in Sessions : [st |-> st, tok |-> ctl[s].tok] \in Rows
           /\ \A i \in 1..MaxRuns : [st |-> st, tok |-> i] \in Rows
           /\ \A i \in 1..Len(hist) : [st |-> st, tok |-> RecTok(i)] \in Rows
  BY <1>0, TokenTypes DEF NoRow
<1>1. ASSUME NEW s \in Sessions, UserStops(s) PROVE Goal
  <2>1. CASE ctl[s].st = "running" /\ Row(s, "stopreq", ctl[s].tok)
    <3>1. Requests(s)
      BY <1>0, <1>1, <2>1 DEF Requests, Row, UserStops, run
    <3> QED BY <1>0, <1>t, <2>1, <3>1, OneRow DEF Row
  <2>2. CASE ctl[s].st = "resume" /\ Row(s, "stopped", ctl[s].tok)
    <3>1. Rests(s)
      BY <1>0, <1>1, <2>2, HeldRows DEF Rests, Row, Idle, UserStops, run
    <3> QED BY <1>0, <1>t, <2>2, <3>1, OneRow DEF Row
  <2> QED BY <1>1, <2>1, <2>2 DEF UserStops
<1>2. ASSUME NEW s \in Sessions, UserResumes(s) PROVE Goal
  <2>1. ctl[s].st = "stopped" /\ Row(s, "resume", ctl[s].tok)
    BY <1>2 DEF UserResumes
  <2>2. Rests(s)
    BY <1>0, <1>2, <2>1, HeldRows DEF Rests, Row, Idle, UserResumes, run
  <2> QED BY <1>0, <1>t, <2>1, <2>2, OneRow DEF Row
<1>3. ASSUME NEW s \in Sessions, Register(s) PROVE Goal
  <2>1. /\ WorkerUp("live") /\ wk.s = None /\ ctl[s] = NoRow /\ jr[s] = None
        /\ ctl' = [ctl EXCEPT ![s] = [st |-> "running", tok |-> wk.run]]
        /\ wk' = [wk EXCEPT !.s = s]
        /\ codex' \ codex \subseteq {[s |-> s, run |-> wk.run, git |-> wk.git]}
    BY <1>3 DEF Register, Row
  <2>2. s \notin closed
    BY <1>0, <2>1 DEF ClosedEnded, Ended, NoRow
  <2>3. /\ wk \in Workers(1..MaxRuns) /\ wk.run \in 1..MaxRuns
        /\ wk' \in Workers(1..MaxRuns)
    BY <1>0, <2>1 DEF WorkerUp, Workers
  <2>4. wk' # None /\ wk'.run = wk.run /\ wk'.s = s /\ wk'.at = "live"
    <3>1. wk'.run = wk.run /\ wk'.s = s /\ wk'.at = "live"
      BY <2>1, <2>3 DEF WorkerUp, Workers
    <3> QED BY <1>0, <2>3, <3>1, Scene DEF Types, GitTypes
  <2>5. Takes(s)
    BY <1>0, <1>t, <2>1, <2>2, <2>4 DEF Takes, Idle
  <2> QED BY <1>0, <1>t, <2>1, <2>3, <2>5, OneRow
<1>4. CASE ResumeKnown
  <2>1. /\ WorkerUp("start") /\ wk.s # None /\ Refusal(wk.s) = None
        /\ ctl' = [ctl EXCEPT ![wk.s] = [st |-> "running", tok |-> wk.run]]
        /\ wk' = [wk EXCEPT !.at = "live"]
        /\ codex' \ codex \subseteq
             {[s |-> wk.s, run |-> wk.run, git |-> jr[wk.s] # None]}
    BY <1>4 DEF ResumeKnown, Row
  <2>2. wk.s \notin closed
    BY <1>0, <2>1, RefusalFacts, StartsOpen
  <2>3. /\ wk \in Workers(1..MaxRuns) /\ wk.run \in 1..MaxRuns
        /\ wk' \in Workers(1..MaxRuns) /\ wk.s \in Sessions
    BY <1>0, <2>1 DEF WorkerUp, Workers
  <2>4. wk' # None /\ wk'.run = wk.run /\ wk'.s = wk.s /\ wk'.at = "live"
    <3>1. wk'.run = wk.run /\ wk'.s = wk.s /\ wk'.at = "live"
      BY <2>1, <2>3 DEF WorkerUp, Workers
    <3> QED BY <1>0, <2>3, <3>1, Scene DEF Types, GitTypes
  <2>5. Takes(wk.s)
    BY <1>0, <2>1, <2>2, <2>3, <2>4, RefusalFacts DEF Takes, Idle
  <2> QED BY <1>0, <1>t, <2>1, <2>3, <2>5, OneRow
<1>5. ASSUME NEW ok \in BOOLEAN, WorkerSettles(ok) PROVE Goal
  <2>1. CASE wk.s = None
    BY <1>0, <1>5, <2>1 DEF WorkerSettles, RowMove
  <2>2. CASE wk.s # None
    <3>1. /\ WorkerUp("live") /\ wk' = None /\ codex' = codex
          /\ \A c \in codex : c.run # wk.run
          /\ \/ Row(wk.s, "stopped", wk.run) \/ Row(wk.s, "resume", wk.run)
             \/ ClearRow(wk.s)
      BY <1>5, <2>2 DEF WorkerSettles, WorkerEnds
    <3>2. wk.s \in Sessions /\ wk.run \in 1..MaxRuns
      BY <1>0, <2>2, <3>1 DEF WorkerUp, Workers
    <3>3. NoCodex(wk.s)
      BY <1>0, <3>1, <3>2 DEF WorkerUp, WorkerHasRow, CodexHasRow, NoCodex
    <3>4. PICK row \in Rows : /\ row.st \in {"none", "stopped", "resume"}
                              /\ ctl' = [ctl EXCEPT ![wk.s] = row]
      BY <1>t, <3>1, <3>2 DEF Row, ClearRow
    <3>5. Rests(wk.s)
      BY <1>0, <3>1, <3>2, <3>3, <3>4 DEF Rests
    <3> QED BY <1>0, <3>2, <3>4, <3>5, OneRow
  <2> QED BY <2>1, <2>2
<1>6. ASSUME NEW old \in BOOLEAN, Rebuild(old) PROVE Goal
  <2>1. \A s \in Sessions : ctl'[s] \in {[st |-> "resume", tok |-> Queue],
                                         NoRow, [st |-> "stopped", tok |-> None]}
    BY <1>6 DEF Rebuild
  <2>2. ctl' \in [Sessions -> Rows]
    BY <1>6, <1>t, <2>1 DEF Rebuild
  <2>3. codex = {} /\ wk = None /\ UNCHANGED <<wk, codex>>
    BY <1>6 DEF Rebuild, run
  <2> QED BY <1>t, <2>1, <2>2, <2>3 DEF RowMove, Rests, NoCodex
<1>7. ASSUME NEW s \in Sessions, RowRecovered(s) PROVE Goal
  <2>1. /\ wk # None => wk.run # ctl[s].tok
        /\ NoCodex(s) /\ UNCHANGED <<wk, codex>>
        /\ Row(s, "resume", ctl[s].tok) \/ Row(s, "stopped", ctl[s].tok)
    BY <1>7 DEF RowRecovered, run
  <2>2. wk # None /\ wk.at = "live" => wk.s # s
    BY <1>0, <2>1 DEF WorkerHasRow
  <2>3. Rests(s)
    BY <1>0, <2>1, <2>2 DEF Rests, Row
  <2> QED BY <1>0, <1>t, <2>1, <2>3, OneRow DEF Row
<1>8. ASSUME NEW s \in Sessions, CancelOrphan(s) PROVE Goal
  <2>1. Idle(s) /\ UNCHANGED <<wk, codex>> /\ ClearRow(s)
    BY <1>8 DEF CancelOrphan, Nonblocking, Idle, run
  <2>2. Rests(s)
    BY <1>0, <1>t, <2>1, HeldRows DEF Rests, ClearRow
  <2> QED BY <1>0, <1>t, <2>1, <2>2, OneRow DEF ClearRow
<1>9. CASE PassRetires
  <2>1. /\ UNCHANGED <<wk, codex>>
        /\ \A s \in Sessions : ctl'[s] = ctl[s] \/ (Idle(s) /\ ctl'[s] = NoRow)
    BY <1>9 DEF PassRetires, Abandoned, Superseded, ProjectIdle, run
  <2>2. ctl' \in [Sessions -> Rows]
    BY <1>0, <1>9, <1>t DEF PassRetires
  <2> QED BY <1>0, <1>t, <2>1, <2>2, HeldRows DEF RowMove, Rests
<1>10. CASE PassReconciles
  <2>1. /\ UNCHANGED <<wk, codex>>
        /\ \A s \in Sessions :
             ctl'[s] = ctl[s] \/ (ctl[s].tok = Queue /\ ctl'[s] = NoRow)
    BY <1>10 DEF PassReconciles, run
  <2>2. ctl' \in [Sessions -> Rows]
    BY <1>0, <1>10, <1>t DEF PassReconciles
  <2> QED BY <1>0, <1>t, <2>1, <2>2, HeldRows DEF RowMove, Rests
<1>11. CASE PassGates
  <2>1. \A s \in Sessions :
          \/ Requeued(s) = ctl[s]
          \/ Idle(s) /\ Requeued(s) \in {[st |-> "resume", tok |-> Queue], NoRow}
    BY DEF Requeued, Idle
  <2>2. /\ UNCHANGED <<wk, codex>>
        /\ ctl' = ctl \/ ctl' = [s \in Sessions |-> Requeued(s)]
    BY <1>11 DEF PassGates, run
  <2>3. ctl' \in [Sessions -> Rows]
    BY <1>0, <1>t, <2>1, <2>2
  <2>4. ASSUME NEW s \in Sessions PROVE RowMove(s)
    <3>1. CASE ctl'[s] = ctl[s]
      BY <3>1 DEF RowMove
    <3>2. CASE ctl'[s] # ctl[s]
      <4>1. Idle(s) /\ ctl'[s].st \in {"none", "stopped", "resume"}
        BY <1>t, <2>1, <2>2, <3>2
      <4> QED BY <1>0, <2>2, <4>1, HeldRows DEF RowMove, Rests
    <3> QED BY <3>1, <3>2
  <2> QED BY <2>3, <2>4
<1>12. CASE PassDecides
  <2>1. CASE ctl' = ctl
    BY <1>0, <2>1 DEF RowMove
  <2>2. CASE ctl' # ctl
    <3>1. /\ codex' = codex
          /\ \E s \in Sessions :
               /\ ctl[s].st \in {"none", "resume"}
               /\ \/ Row(s, "resume", Queue) /\ Dispatch("resume", s, s)
                  \/ ClearRow(s) /\ UNCHANGED wk
      BY <1>12, <2>2 DEF PassDecides, GitFirst, Sealed, Queued
    <3>2. PICK s \in Sessions :
            /\ ctl[s].st \in {"none", "resume"}
            /\ \/ Row(s, "resume", Queue) /\ Dispatch("resume", s, s)
               \/ ClearRow(s) /\ UNCHANGED wk
      BY <3>1
    <3>3. Idle(s)
      BY <3>2 DEF Idle
    <3>4. CASE Row(s, "resume", Queue) /\ Dispatch("resume", s, s)
      <4>1. Rests(s)
        BY <1>0, <3>1, <3>3, <3>4, HeldRows DEF Rests, Row, Dispatch
      <4> QED BY <1>0, <1>t, <3>4, <4>1, OneRow DEF Row
    <3>5. CASE ClearRow(s) /\ UNCHANGED wk
      <4>1. Rests(s)
        BY <1>0, <1>t, <3>1, <3>3, <3>5, HeldRows DEF Rests, ClearRow
      <4> QED BY <1>0, <1>t, <3>5, <4>1, OneRow DEF ClearRow
    <3> QED BY <3>2, <3>4, <3>5
  <2> QED BY <2>1, <2>2
<1>13. CASE Ends
  <2>1. CASE ctl' = ctl
    BY <1>0, <2>1 DEF RowMove
  <2>2. CASE ctl' # ctl
    <3>0. PICK t \in Tasks : \E e \in board[t] :
            UserEnds("complete", t, e) \/ UserEnds("delete", t, e)
      BY <1>13 DEF Ends
    <3>1. PICK e \in board[t], kind \in {"complete", "delete"} :
            UserEnds(kind, t, e)
      BY <3>0
    <3>2. /\ e.link # None /\ (SessionIdle(e.link) \/ ProjectIdle)
          /\ Row(e.link, "stopped", None) \/ ClearRow(e.link)
          /\ UNCHANGED <<wk, codex>>
      BY <2>2, <3>1 DEF UserEnds, run
    <3>3. e.link \in Sessions
      BY <1>0, <2>2, <3>1 DEF UserEnds, Types, GitTypes, BoardStates, Entries
    <3>4. Idle(e.link)
      BY <3>2, <3>3 DEF SessionIdle, ProjectIdle
    <3>5. PICK row \in Rows : /\ row.st \in {"none", "stopped", "resume"}
                              /\ ctl' = [ctl EXCEPT ![e.link] = row]
      BY <1>t, <3>2 DEF Row, ClearRow
    <3>6. Rests(e.link)
      BY <1>0, <3>2, <3>3, <3>4, <3>5, HeldRows DEF Rests
    <3> QED BY <1>0, <3>3, <3>5, <3>6, OneRow
  <2> QED BY <2>1, <2>2
<1>14. CASE Recovers
  <2>1. CASE ctl' = ctl
    BY <1>0, <2>1 DEF RowMove
  <2>2. CASE ctl' # ctl
    <3>1. PICK w \in {"user", "pass"} : Executes(w)
      BY <1>14 DEF Recovers
    <3> DEFINE p == plan[w]
    <3>2. /\ p # None /\ CanExecute(p) /\ Row(p.s, "stopped", RecTok(p.run))
          /\ UNCHANGED <<wk, codex>>
      BY <2>2, <3>1 DEF Executes, run
    <3>3. p.s \in Sessions
      BY <1>0, <3>2 DEF Types, PassTypes, PlanTyped
    <3>4. Idle(p.s) /\ p.run \in 1..Len(hist)
      BY <3>2, <3>3 DEF CanExecute, BeginRun, BeginIdle, Idle
    <3> HIDE DEF p
    <3>5. Rests(p.s)
      BY <1>0, <3>2, <3>3, <3>4, HeldRows DEF Rests, Row
    <3> QED BY <1>0, <1>t, <3>2, <3>3, <3>4, <3>5, OneRow DEF Row
  <2> QED BY <2>1, <2>2
<1>15. CASE ctl' = ctl
  BY <1>0, <1>15 DEF RowMove
<1> QED BY <1>1, <1>2, <1>3, <1>4, <1>5, <1>6, <1>7, <1>8, <1>9, <1>10, <1>11,
        <1>12, <1>13, <1>14, <1>15, Footprints DEF RowWriters

-----------------------------------------------------------------------------
(* The types are kept.                                                     *)

LEMMA JournalDomain ==
  ASSUME Types, [Next]_vars
  PROVE  jr' = [x \in Sessions |-> jr'[x]]
<1>0. jr \in [Sessions -> Journals \cup {None}]
  BY DEF Types, RegistryTypes
<1> DEFINE Total == jr' = [x \in Sessions |-> jr'[x]]
<1>1. ASSUME NEW s, NEW v, jr' = [jr EXCEPT ![s] = v] PROVE Total
  BY <1>0, <1>1
<1>2. CASE jr' = jr
  BY <1>0, <1>2
<1>3. CASE EnableGit
  BY <1>0, <1>3 DEF EnableGit
<1>4. CASE ResumeKnown
  BY <1>0, <1>4 DEF ResumeKnown
<1>5. CASE PassRetires \/ PassReconciles
  BY <1>5 DEF PassRetires, PassReconciles
<1>6. CASE Ends
  <2>1. ASSUME NEW t \in Tasks, NEW e \in board[t], NEW kind, UserEnds(kind, t, e)
        PROVE  Total
    BY <1>0, <2>1 DEF UserEnds
  <2> QED BY <1>6, <2>1 DEF Ends
<1>7. CASE Activates \/ Seals
  BY <1>0, <1>7 DEF Activates, Seals, AgentActivates, AgentSeals
<1>8. CASE Recovers
  BY <1>0, <1>8 DEF Recovers, Executes
<1>9. ASSUME NEW ok \in BOOLEAN, WorkerSettles(ok) \/ Rebuild(ok) PROVE Total
  BY <1>0, <1>9 DEF WorkerSettles, Rebuild
<1>10. ASSUME NEW s \in Sessions, Register(s) \/ CancelOrphan(s) PROVE Total
  BY <1>0, <1>10 DEF Register, CancelOrphan
<1> QED BY <1>2, <1>3, <1>4, <1>5, <1>6, <1>7, <1>8, <1>9, <1>10, Footprints
        DEF JournalWriters

LEMMA JournalTypesStep ==
  ASSUME JournalInv, [Next]_vars
  PROVE  /\ jr' \in [Sessions -> Journals \cup {None}]
         /\ \A s \in Sessions : jr'[s] # None => jr'[s].start \in 1..Len(tree')
<1>0. Types /\ LockHeld
  BY DEF JournalInv
<1>1. jr' = [x \in Sessions |-> jr'[x]]
  BY <1>0, JournalDomain
<1>n. None \notin Journals
  BY <1>0, Scene DEF Types, GitTypes
<1>2. ASSUME NEW s \in Sessions
      PROVE  /\ jr'[s] \in Journals \cup {None}
             /\ jr'[s] # None => jr'[s].start \in 1..Len(tree')
  <2>0. /\ jr[s] \in Journals \cup {None}
        /\ jr[s] # None => jr[s].start \in 1..Len(tree)
        /\ 1..Len(tree) \subseteq 1..Len(tree')
    BY <1>0, GitTypesStep DEF Types, RegistryTypes
  <2>1. CASE jr'[s] = jr[s]
    BY <2>0, <2>1
  <2>2. CASE Opens(s)
    BY <2>2 DEF Opens
  <2>3. ASSUME NEW k, jr[s] \in Journals, k \in Journals, k.start = jr[s].start,
               jr'[s] = k
        PROVE  /\ jr'[s] \in Journals \cup {None}
               /\ jr'[s] # None => jr'[s].start \in 1..Len(tree')
    BY <1>n, <2>0, <2>3
  <2>4. CASE Binds(s)
    <3>1. jr[s] \in Journals
      BY <2>0, <2>4 DEF Binds, JState
    <3>2. PICK t \in Tasks : jr'[s] = [jr[s] EXCEPT !.task = t]
      BY <2>4 DEF Binds
    <3> QED BY <2>3, <3>1, <3>2, BoundFields
  <2>5. CASE Rotates(s)
    <3>1. jr[s] \in Journals
      BY <2>0, <2>5 DEF Rotates
    <3>2. PICK o \in Tokens : jr'[s] = [jr[s] EXCEPT !.own = o]
      BY <2>5 DEF Rotates
    <3> QED BY <2>3, <3>1, <3>2, RotatedFields
  <2>6. CASE Advances(s)
    <3>1. jr[s] \in Journals
      BY <2>0, <2>6 DEF Advances, JState
    <3>2. PICK st \in {"sealed", "push_pending", "completed"} :
            jr'[s] = [jr[s] EXCEPT !.st = st]
      BY <2>6 DEF Advances
    <3> QED BY <2>3, <3>1, <3>2, AdvancedFields
  <2>7. CASE Retires(s)
    <3>1. jr[s] \in Journals
      BY <2>0, <2>7 DEF Retires, JState
    <3>2. PICK why \in Whys : jr'[s] = Cancelled(jr[s], why)
      BY <2>7 DEF Retires
    <3> QED BY <2>3, <3>1, <3>2, RetiredFields
  <2> QED BY <2>1, <2>2, <2>4, <2>5, <2>6, <2>7, JournalMoves DEF JournalMove
<1> QED BY <1>1, <1>2

LEMMA LeaseTypes ==
  ASSUME RegistryTypes, [Next]_vars
  PROVE  lease' \in {None} \cup [h : {"user", "pass", "run"}, dead : BOOLEAN]
<1>0. lease \in {None} \cup [h : {"user", "pass", "run"}, dead : BOOLEAN]
  BY DEF RegistryTypes
<1>1. /\ \A h \in {"user", "pass", "run"} :
           Lease(h) \in [h : {"user", "pass", "run"}, dead : BOOLEAN]
      /\ \A h : Widow(h) \in {None} \cup
                  [h : {"user", "pass", "run"}, dead : BOOLEAN]
  BY <1>0 DEF Lease, Widow
<1>2. CASE BoardStep \/ OpReleases \/ LeaseExpires \/ UNCHANGED vars
  BY <1>0, <1>2 DEF vars, BoardStep, OpReleases, LeaseExpires
<1>3. CASE PassNext
  BY <1>0, <1>1, <1>3 DEF PassNext, Executes, PassRetires, PassPlans,
     PassGates, PassReports, PassPlansBranch, PassReconciles, PassRepairs,
     PassReleases, PassRelinks, PassDecides, Dispatch
<1>4. CASE WorkerNext
  BY <1>0, <1>4 DEF WorkerNext, PrepareFresh, RecordLaunch, Register,
     EnableGit, ResumeKnown, ResumeRefused, WorkerSettles, Abandon,
     RowRecovered, WorkerEnds
<1>5. CASE AgentNext
  BY <1>0, <1>5 DEF AgentNext, CodexExits, AgentActivates, AgentSeals
<1>6. CASE UserNext
  <2>1. ASSUME NEW t \in Tasks, NEW e \in board[t], NEW kind,
               UserEnds(kind, t, e)
        PROVE  lease' = lease \/ lease' = Lease("user")
    BY <2>1 DEF UserEnds
  <2>2. CASE Ends
    BY <1>0, <1>1, <2>1, <2>2 DEF Ends
  <2>3. CASE \/ UserCommits \/ UserSwitches \/ UserSetsMode \/ UserDeclines
             \/ Executes("user")
    BY <1>0, <1>1, <2>3 DEF Executes, UserCommits, UserSwitches, UserSetsMode,
       UserDeclines
  <2>4. CASE ~Ends
    BY <1>0, <1>6, <2>3, <2>4 DEF UserNext, Ends, UserStops, UserResumes,
       UserPlans, CancelOrphan, UserAdds, UserUnlinks
  <2> QED BY <2>2, <2>4
<1>7. CASE FaultNext
  BY <1>0, <1>1, <1>7 DEF FaultNext, UserDies, PassDies, WorkerDies, Rebuild
<1> QED BY <1>2, <1>3, <1>4, <1>5, <1>6, <1>7 DEF Next

LEMMA HistTypes ==
  ASSUME Types, [Next]_vars
  PROVE  hist' \in Seq(Reports) /\ Len(hist') <= MaxHist
<1>0. /\ hist \in Seq(Reports) /\ Len(hist) <= MaxHist /\ MaxHist \in Nat
      /\ wk # None => wk.s \in Sessions \cup {None} /\ wk.run \in Tokens
      /\ None \in Tokens
  BY Scene DEF Types, GitTypes, RegistryTypes, RunTypes, Workers, Tokens
<1> DEFINE Typed == hist' \in Seq(Reports) /\ Len(hist') <= MaxHist
<1>1. ASSUME NEW s \in Sessions \cup {None}, NEW res \in Results,
             NEW tok \in Tokens, NEW was \in Sessions \cup {None},
             Len(hist) < MaxHist, Report(s, res, tok, was)
      PROVE  Typed
  <2>1. [s |-> s, res |-> res, tok |-> tok, was |-> was] \in Reports
    BY DEF Reports
  <2> QED BY <1>0, <1>1, <2>1 DEF Report
<1>2. ASSUME NEW s \in Sessions \cup {None}, NEW res \in Results, wk # None,
             WorkerEnds(s, res)
      PROVE  Typed
  BY <1>0, <1>1, <1>2 DEF WorkerEnds
<1>3. CASE hist' = hist
  BY <1>0, <1>3
<1>4. CASE PrepareFresh \/ RecordLaunch
  BY <1>2, <1>3, <1>4 DEF PrepareFresh, RecordLaunch, WorkerUp, Results, Failed
<1>5. CASE EnableGit
  BY <1>0, <1>2, <1>3, <1>5 DEF EnableGit, WorkerUp, Results, Failed
<1>6. CASE ResumeRefused
  <2>1. Refusal(wk.s) \in Results
    BY <1>6, RefusalFacts DEF ResumeRefused, Results, Failed
  <2> QED BY <1>0, <1>2, <1>6, <2>1 DEF ResumeRefused, WorkerUp
<1>7. ASSUME NEW ok \in BOOLEAN, WorkerSettles(ok) PROVE Typed
  <2>1. \E res \in Results : WorkerEnds(wk.s, res)
    <3>1. CASE \E j \in Reconciled(jr[wk.s]) :
                 \E r \in {Settlement(wk.s, j, ok).res, "conflict"} :
                   WorkerEnds(wk.s, r)
      <4>1. \A j \in Reconciled(jr[wk.s]) : Settlement(wk.s, j, ok).res \in Results
        BY SettlementFacts DEF Results, Failed
      <4>2. "conflict" \in Results
        BY DEF Results, Failed
      <4> QED BY <3>1, <4>1, <4>2
    <3>2. CASE WorkerEnds(wk.s, "idle") \/ WorkerEnds(wk.s, "failure")
               \/ WorkerEnds(wk.s, "stopped")
      BY <3>2 DEF Results, Failed
    <3> QED BY <1>7, <3>1, <3>2 DEF WorkerSettles
  <2>2. wk # None
    BY <1>7 DEF WorkerSettles, WorkerUp
  <2> QED BY <1>0, <1>2, <2>1, <2>2
<1>8. ASSUME NEW ok \in BOOLEAN, Rebuild(ok) PROVE Typed
  BY <1>0, <1>8 DEF Rebuild
<1>9. ASSUME NEW s \in Sessions, PassReports(s) PROVE Typed
  <2>1. Len(hist) \in Nat
    BY <1>0
  <2>2. hist' = hist \/ (Len(hist) < MaxHist /\ Report(s, "branch", None, s))
    BY <1>0, <1>9, <2>1 DEF PassReports
  <2>3. "branch" \in Results
    BY DEF Results, Failed
  <2> QED BY <1>0, <1>1, <1>3, <2>2, <2>3
<1>10. CASE Abandon
  <2>1. "failure" \in Results
    BY DEF Results, Failed
  <2> QED BY <1>0, <1>2, <1>10, <2>1 DEF Abandon
<1> QED BY <1>3, <1>4, <1>5, <1>6, <1>7, <1>8, <1>9, <1>10, Footprints
        DEF HistWriters

\* Only these set a mode.
ModeWriters ==
  \/ UserSetsMode \/ EnableGit
  \/ \E s \in Sessions : Register(s)
  \/ \E old \in BOOLEAN : Rebuild(old)

LEMMA ModeFootprint ==
  ASSUME [Next]_vars
  PROVE  UNCHANGED modes \/ ModeWriters
<1> USE DEF modes, ModeWriters
<1>1. CASE BoardStep \/ OpReleases \/ LeaseExpires \/ UNCHANGED vars
  BY <1>1 DEF vars, BoardStep, OpReleases, LeaseExpires
<1>2. CASE PassNext
  BY <1>2 DEF PassNext, Executes, PassRetires, PassPlans, PassGates,
     PassReports, PassPlansBranch, PassReconciles, PassRepairs,
     PassReleases, PassRelinks, PassDecides
<1>3. CASE WorkerNext
  BY <1>3 DEF WorkerNext, PrepareFresh, RecordLaunch, ResumeKnown,
     ResumeRefused, WorkerSettles, Abandon, RowRecovered
<1>4. CASE AgentNext
  BY <1>4 DEF AgentNext, CodexExits, AgentActivates, AgentSeals
<1>5. CASE UserNext
  BY <1>5 DEF UserNext, Executes, UserCommits, UserSwitches, UserDeclines,
     UserStops, UserResumes, UserPlans, CancelOrphan, UserAdds, UserUnlinks,
     UserEnds
<1>6. CASE FaultNext
  BY <1>6 DEF FaultNext, UserDies, PassDies, WorkerDies
<1> QED BY <1>1, <1>2, <1>3, <1>4, <1>5, <1>6 DEF Next

LEMMA RegistryTypesStep ==
  ASSUME JournalInv, [Next]_vars
  PROVE  RegistryTypes'
<1>0. Types /\ RegistryTypes /\ LockHeld /\ BoundaryKept
  BY DEF JournalInv, Types
<1>1. /\ Journals' = Journals /\ Rows' = Rows /\ MaxRuns' = MaxRuns
      /\ MaxHist' = MaxHist /\ Reports' = Reports
  BY SceneKept
<1>2. mode' \in BOOLEAN /\ smode' \in [Sessions -> {"new", "off", "commit"}]
  <2>0. mode \in BOOLEAN /\ smode \in [Sessions -> {"new", "off", "commit"}]
    BY <1>0 DEF RegistryTypes
  <2>1. CASE UNCHANGED modes
    BY <2>0, <2>1 DEF modes
  <2>2. CASE UserSetsMode
    BY <2>0, <2>2 DEF UserSetsMode
  <2>3. CASE EnableGit
    BY <2>0, <2>3 DEF EnableGit
  <2>4. ASSUME NEW s \in Sessions, Register(s)
        PROVE mode' \in BOOLEAN /\ smode' \in [Sessions -> {"new", "off", "commit"}]
    BY <2>0, <2>4 DEF Register
  <2>5. ASSUME NEW old \in BOOLEAN, Rebuild(old)
        PROVE mode' \in BOOLEAN /\ smode' \in [Sessions -> {"new", "off", "commit"}]
    BY <2>0, <2>5 DEF Rebuild
  <2> QED BY <2>1, <2>2, <2>3, <2>4, <2>5, ModeFootprint DEF ModeWriters
<1>3. /\ jr' \in [Sessions -> Journals \cup {None}] /\ ctl' \in [Sessions -> Rows]
      /\ \A s \in Sessions : jr'[s] # None => jr'[s].start \in 1..Len(tree')
  BY JournalTypesStep, RowMoves
<1>4. /\ launch' \in Launches(1..MaxRuns) \cup {None}
      /\ launch' # None => launch'.start \in 1..Len(tree')
  <2>0. /\ launch \in Launches(1..MaxRuns) \cup {None}
        /\ launch # None => launch.start \in 1..Len(tree)
        /\ 1..Len(tree) \subseteq 1..Len(tree')
        /\ wk # None => wk \in Workers(1..MaxRuns)
        /\ wk # None /\ wk.at = "bound" =>
             wk.start \in 1..Len(tree) /\ wk.branch \in Branches
    BY <1>0, GitTypesStep DEF Types, RegistryTypes, RunTypes
  <2>1. CASE launch' = launch \/ launch' = None
    BY <2>0, <2>1
  <2>2. CASE RecordLaunch /\ launch' # launch
    <3>1. /\ WorkerUp("bound")
          /\ launch' = [run |-> wk.run, start |-> wk.start,
                        branch |-> wk.branch]
      BY <2>2 DEF RecordLaunch
    <3>2. wk.run \in 1..MaxRuns /\ wk.start \in 1..Len(tree)
          /\ wk.branch \in Branches
      BY <2>0, <3>1 DEF WorkerUp, Workers
    <3>3. launch' \in Launches(1..MaxRuns) /\ launch'.start = wk.start
      BY <3>1, <3>2 DEF Launches
    <3> QED BY <2>0, <3>2, <3>3
  <2>3. PrepareFresh \/ (\E s \in Sessions : Register(s)) =>
          launch' = launch \/ launch' = None
    BY DEF PrepareFresh, Register
  <2> QED BY <2>1, <2>2, <2>3, Footprints DEF LaunchWriters
<1>5. lease' \in {None} \cup [h : {"user", "pass", "run"}, dead : BOOLEAN]
  BY <1>0, LeaseTypes
<1>6. hist' \in Seq(Reports) /\ Len(hist') <= MaxHist
  BY <1>0, HistTypes
<1>7. closed' \subseteq Sessions
  <2>0. closed \subseteq Sessions /\ None \notin Sessions
    BY <1>0, Scene DEF Types, GitTypes, RegistryTypes
  <2>1. ASSUME NEW t \in Tasks, NEW e \in board[t], NEW kind, UserEnds(kind, t, e)
        PROVE  closed' \subseteq Sessions
    <3>1. e.link \in Sessions \cup {None}
      BY <1>0 DEF Types, GitTypes, BoardStates, Entries
    <3> QED BY <2>0, <2>1, <3>1 DEF UserEnds
  <2>2. CASE Ends
    BY <2>1, <2>2 DEF Ends
  <2>3. CASE Recovers
    <3>1. PICK w \in {"user", "pass"} : Executes(w)
      BY <2>3 DEF Recovers
    <3>2. plan[w].s \in Sessions
      BY <1>0, <3>1 DEF Executes, Types, PassTypes, PlanTyped
    <3> QED BY <2>0, <3>1, <3>2 DEF Executes
  <2>4. CASE \E s \in Sessions : UserResumes(s)
    BY <2>0, <2>4 DEF UserResumes
  <2> QED BY <2>0, <2>2, <2>3, <2>4, Footprints DEF ClosedWriters
<1> QED BY <1>1, <1>2, <1>3, <1>4, <1>5, <1>6, <1>7 DEF RegistryTypes

LEMMA RunCounter ==
  ASSUME [Next]_vars
  PROVE  next' = next \/ PassDecides
<1> USE DEF run
<1>1. CASE BoardStep \/ OpReleases \/ LeaseExpires \/ UNCHANGED vars
  BY <1>1 DEF vars, BoardStep, OpReleases, LeaseExpires
<1>2. CASE PassNext
  BY <1>2 DEF PassNext, Executes, PassRetires, PassPlans, PassGates,
     PassReports, PassPlansBranch, PassReconciles, PassRepairs,
     PassReleases, PassRelinks
<1>3. CASE WorkerNext
  BY <1>3 DEF WorkerNext, PrepareFresh, RecordLaunch, Register, EnableGit,
     ResumeKnown, ResumeRefused, WorkerSettles, Abandon, RowRecovered
<1>4. CASE AgentNext
  BY <1>4 DEF AgentNext, CodexExits, AgentActivates, AgentSeals
<1>5. CASE UserNext
  BY <1>5 DEF UserNext, Executes, UserCommits, UserSwitches, UserSetsMode,
     UserDeclines, UserStops, UserResumes, UserPlans, CancelOrphan, UserAdds,
     UserUnlinks, UserEnds
<1>6. CASE FaultNext
  BY <1>6 DEF FaultNext, UserDies, PassDies, WorkerDies, Rebuild
<1> QED BY <1>1, <1>2, <1>3, <1>4, <1>5, <1>6 DEF Next

\* How a worker comes, goes on and goes.
LEMMA WorkerMoves ==
  ASSUME [Next]_vars
  PROVE  \/ wk' = wk \/ wk' = None
         \/ /\ PrepareFresh /\ WorkerUp("start") /\ wk.s = None /\ ~wk.git
            /\ wk' = [wk EXCEPT !.at = "live"]
         \/ /\ PrepareFresh /\ WorkerUp("start") /\ wk.s = None /\ wk.git
            /\ Checkpoint
            /\ wk' = [wk EXCEPT !.at = "bound", !.start = tip'[branch],
                                !.branch = branch]
         \/ /\ RecordLaunch /\ WorkerUp("bound")
            /\ wk' = [wk EXCEPT !.at = "live"]
         \/ /\ ResumeKnown /\ WorkerUp("start")
            /\ wk' = [wk EXCEPT !.at = "live"]
         \/ WorkerDies /\ wk # None /\ wk' = [wk EXCEPT !.up = FALSE]
         \/ \E s \in Sessions : /\ Register(s) /\ WorkerUp("live")
                                /\ wk' = [wk EXCEPT !.s = s]
         \/ PassDecides /\ next' = next + 1
<1>1. CASE PrepareFresh
  BY <1>1 DEF PrepareFresh, WorkerEnds
<1>2. CASE RecordLaunch
  BY <1>2 DEF RecordLaunch, WorkerEnds
<1>3. CASE EnableGit \/ ResumeRefused
  BY <1>3 DEF EnableGit, ResumeRefused, WorkerEnds
<1>4. CASE ResumeKnown
  BY <1>4 DEF ResumeKnown
<1>5. CASE WorkerDies \/ Abandon
  BY <1>5 DEF WorkerDies, Abandon, WorkerEnds
<1>6. CASE PassDecides
  BY <1>6 DEF PassDecides, Dispatch
<1>7. CASE \E ok \in BOOLEAN : WorkerSettles(ok)
  BY <1>7 DEF WorkerSettles, WorkerEnds
<1>8. CASE \E s \in Sessions : Register(s)
  BY <1>8 DEF Register
<1> QED BY <1>1, <1>2, <1>3, <1>4, <1>5, <1>6, <1>7, <1>8, Footprints
        DEF WorkerWriters

LEMMA Dispatched ==
  ASSUME Types, PassDecides, wk' # wk
  PROVE  /\ wk = None /\ wk' \in Workers(1..MaxRuns) /\ wk'.at = "start"
         /\ next' \in 1..(MaxRuns + 1)
         /\ wk'.s # None /\ wk'.sel # "todo" =>
              /\ wk'.want = wk'.s
              /\ wk'.s \in GitFirst \/ wk'.s \in Queued \/ InterruptedDoing(wk'.s)
<1>0. /\ mode \in BOOLEAN /\ next \in 1..(MaxRuns + 1) /\ MaxRuns \in Nat
  BY Scene DEF Types, GitTypes, RegistryTypes, RunTypes
<1>1. PICK sel \in {"resume", "doing", "todo"}, s \in Sessions \cup {None},
           want \in Sessions \cup {None} :
        /\ Dispatch(sel, s, want)
        /\ sel # "todo" => /\ want = s
                           /\ s \in GitFirst \/ s \in Queued \/ InterruptedDoing(s)
  <2>1. ASSUME NEW x \in ReadyTodo PROVE x[2].link \in Sessions \cup {None}
    <3>1. PICK t \in Tasks : x \in {t} \X board[t]
      BY DEF ReadyTodo
    <3>2. x[2] \in Entries
      BY <3>1 DEF Types, GitTypes, BoardStates
    <3> QED BY <3>2 DEF Entries
  <2>2. CASE \E x \in ReadyTodo : Dispatch("todo", x[2].link, None)
    BY <2>1, <2>2
  <2>3. CASE \/ \E s \in GitFirst : Dispatch("resume", s, s)
             \/ \E s \in Queued : Dispatch("resume", s, s)
             \/ \E s \in {x \in Sessions : InterruptedDoing(x)} :
                  Dispatch("doing", s, s)
    BY <2>3 DEF GitFirst, Sealed, Queued
  <2> QED BY <2>2, <2>3 DEF PassDecides
<1>2. /\ wk = None /\ next <= MaxRuns /\ next' = next + 1
      /\ wk' = [run |-> next, s |-> s, want |-> want, sel |-> sel, git |-> mode,
                at |-> "start", start |-> None, branch |-> None, up |-> TRUE]
  BY <1>1 DEF Dispatch
<1>3. wk' \in Workers(1..MaxRuns)
  BY <1>0, <1>2 DEF Workers
<1> QED BY <1>0, <1>1, <1>2, <1>3

LEMMA RunTypesStep ==
  ASSUME JournalInv, [Next]_vars
  PROVE  RunTypes'
<1>0. /\ Types /\ LockHeld /\ MaxRuns \in Nat /\ None \notin Workers(1..MaxRuns)
      /\ next \in 1..(MaxRuns + 1) /\ branch \in Branches
      /\ wk \in Workers(1..MaxRuns) \cup {None}
      /\ wk # None /\ wk.at = "bound" =>
           /\ wk.start \in 1..Len(tree) /\ wk.branch \in Branches
           /\ wk.s = None /\ wk.git
      /\ codex \subseteq [s : Sessions \cup {None}, run : 1..MaxRuns,
                          git : BOOLEAN]
      /\ 1..Len(tree) \subseteq 1..Len(tree') /\ 1..Len(tree) \subseteq Nat
      /\ 1..Len(tree') \subseteq Nat
  BY Scene, GitTypesStep DEF JournalInv, Types, GitTypes, RunTypes
<1>1. MaxRuns' = MaxRuns
  BY SceneKept
<1>2. next' \in 1..(MaxRuns + 1)
  <2>1. CASE PassDecides /\ next' # next
    BY <1>0, <2>1 DEF PassDecides, Dispatch
  <2> QED BY <1>0, <2>1, RunCounter
<1>3. /\ wk' \in Workers(1..MaxRuns) \cup {None}
      /\ wk' # None /\ wk'.at = "bound" =>
           /\ wk'.start \in 1..Len(tree') /\ wk'.branch \in Branches
           /\ wk'.s = None /\ wk'.git
  <2> DEFINE Typed ==
        /\ wk' \in Workers(1..MaxRuns) \cup {None}
        /\ wk' # None /\ wk'.at = "bound" =>
             /\ wk'.start \in 1..Len(tree') /\ wk'.branch \in Branches
             /\ wk'.s = None /\ wk'.git
  <2>1. CASE wk' = wk \/ wk' = None
    BY <1>0, <2>1
  <2>3. CASE WorkerUp("start") /\ wk.s = None /\ wk.git /\ Checkpoint
             /\ wk' = [wk EXCEPT !.at = "bound", !.start = tip'[branch],
                                 !.branch = branch]
    <3>1. tip'[branch] \in 1..Len(tree')
      BY <1>0, <2>3, CheckpointFacts
    <3> QED BY <1>0, <2>3, <3>1 DEF Workers, WorkerUp
  <2>4. ASSUME wk # None, wk' = [wk EXCEPT !.at = "live"] PROVE Typed
    <3>1. wk \in Workers(1..MaxRuns)
      BY <1>0, <2>4
    <3>2. wk' \in Workers(1..MaxRuns) /\ wk'.at = "live"
      BY <2>4, <3>1 DEF Workers
    <3> QED BY <3>2
  <2>5. ASSUME wk # None, wk' = [wk EXCEPT !.up = FALSE] PROVE Typed
    <3>1. wk \in Workers(1..MaxRuns)
      BY <1>0, <2>5
    <3>2. /\ wk' \in Workers(1..MaxRuns) /\ wk'.at = wk.at /\ wk'.s = wk.s
          /\ wk'.start = wk.start /\ wk'.branch = wk.branch /\ wk'.git = wk.git
      BY <2>5, <3>1 DEF Workers
    <3> QED BY <1>0, <2>5, <3>2
  <2>6. ASSUME NEW s \in Sessions, WorkerUp("live"), wk' = [wk EXCEPT !.s = s]
        PROVE  Typed
    BY <1>0, <2>6 DEF Workers, WorkerUp
  <2>7. CASE PassDecides /\ wk' # wk
    BY <1>0, <2>7, Dispatched
  <2> QED BY <2>1, <2>3, <2>4, <2>5, <2>6, <2>7, WorkerMoves DEF WorkerUp
<1>4. codex' \subseteq [s : Sessions \cup {None}, run : 1..MaxRuns, git : BOOLEAN]
  <2>1. wk # None => wk.run \in 1..MaxRuns /\ wk.git \in BOOLEAN
                     /\ wk.s \in Sessions \cup {None}
    BY <1>0 DEF Workers
  <2>c. ASSUME NEW s \in Sessions \cup {None}, NEW g \in BOOLEAN, wk # None,
               codex' \subseteq codex \cup {[s |-> s, run |-> wk.run, git |-> g]}
        PROVE  codex' \subseteq [s : Sessions \cup {None}, run : 1..MaxRuns,
                                 git : BOOLEAN]
    BY <1>0, <2>1, <2>c
  <2>2. CASE PrepareFresh
    <3>1. wk # None /\ codex' \subseteq
            codex \cup {[s |-> None, run |-> wk.run, git |-> FALSE]}
      BY <2>2 DEF PrepareFresh, WorkerUp
    <3> QED BY <2>c, <3>1
  <2>r. CASE RecordLaunch
    <3>1. wk # None /\ codex' \subseteq
            codex \cup {[s |-> None, run |-> wk.run, git |-> TRUE]}
      BY <2>r DEF RecordLaunch, WorkerUp
    <3> QED BY <2>c, <3>1
  <2>3. CASE ResumeKnown
    <3>1. wk # None /\ codex' \subseteq
            codex \cup {[s |-> wk.s, run |-> wk.run, git |-> jr[wk.s] # None]}
      BY <2>3 DEF ResumeKnown, WorkerUp
    <3>2. (jr[wk.s] # None) \in BOOLEAN
      OBVIOUS
    <3> QED BY <2>1, <2>c, <3>1, <3>2
  <2>4. ASSUME NEW s \in Sessions, Register(s)
        PROVE  codex' \subseteq [s : Sessions \cup {None}, run : 1..MaxRuns,
                                 git : BOOLEAN]
    BY <1>0, <2>1, <2>4 DEF Register, WorkerUp
  <2>5. CASE \E c \in codex : CodexExits(c)
    BY <1>0, <2>5 DEF CodexExits
  <2> QED BY <1>0, <2>2, <2>r, <2>3, <2>4, <2>5, Footprints DEF CodexWriters
<1> QED BY <1>1, <1>2, <1>3, <1>4 DEF RunTypes

LEMMA PlanFacts ==
  ASSUME Types, NEW s \in Sessions, NEW p, p.s = s, p.j = jr[s],
         Linked(s) = {} => p.t = None /\ p.e = None,
         Linked(s) # {} => p.t = The(Linked(s))[1] /\ p.e = The(Linked(s))[2]
  PROVE  PlanTyped(p)
<1>1. jr[s] \in Journals \cup {None}
  BY DEF Types, RegistryTypes
<1>2. CASE Linked(s) = {}
  BY <1>1, <1>2 DEF PlanTyped
<1>3. CASE Linked(s) # {}
  <2>1. The(Linked(s))[1] \in Tasks /\ The(Linked(s))[2] \in Entries
    BY <1>3, Chosen, LinkedFacts
  <2> QED BY <1>1, <1>3, <2>1 DEF PlanTyped
<1> QED BY <1>2, <1>3

\* What may come to someone's mind: the plan is typed, and a recovery of a
\* journal that is open finds the checkout on another branch.
SoundPlan(p) ==
  /\ PlanTyped(p)
  /\ ~p.restart /\ p.j # None /\ p.j.st # "cancelled" => p.j.branch # p.branch

LEMMA GitPlanSound ==
  ASSUME Types, NEW s \in Sessions, NEW auto, NEW p \in GitPlan(s, auto)
  PROVE  SoundPlan(p)
<1>1. /\ p = Plan(s, Len(hist), FALSE, auto, None)
      /\ \/ jr[s] = None
         \/ JState(s) \in {"working", "sealed"} /\ jr[s].branch # branch
         \/ Interrupted(s, Len(hist))
  BY DEF GitPlan
<1>2. /\ p.s = s /\ p.j = jr[s] /\ p.branch = branch
      /\ Linked(s) = {} => p.t = None /\ p.e = None
      /\ Linked(s) # {} => p.t = The(Linked(s))[1] /\ p.e = The(Linked(s))[2]
  BY <1>1 DEF Plan
<1>3. PlanTyped(p)
  BY <1>2, PlanFacts
<1> QED BY <1>1, <1>2, <1>3 DEF SoundPlan, Interrupted, JState

LEMMA RestartPlanSound ==
  ASSUME Types, NEW s \in Sessions, NEW tok, NEW p \in RestartPlan(s, tok)
  PROVE  SoundPlan(p)
<1>1. PICK id : p = Plan(s, id, TRUE, FALSE, tok)
  BY DEF RestartPlan
<1>2. /\ p.s = s /\ p.j = jr[s] /\ p.restart
      /\ Linked(s) = {} => p.t = None /\ p.e = None
      /\ Linked(s) # {} => p.t = The(Linked(s))[1] /\ p.e = The(Linked(s))[2]
  BY <1>1 DEF Plan
<1> QED BY <1>2, PlanFacts DEF SoundPlan

\* A step leaves a plan, drops it or makes a sound one.
LEMMA PlanMoves ==
  ASSUME Types, [Next]_vars
  PROVE  /\ plan' = [w \in {"user", "pass"} |-> plan'[w]]
         /\ \A w \in {"user", "pass"} :
              plan'[w] = plan[w] \/ plan'[w] = None \/ SoundPlan(plan'[w])
<1> DEFINE Goal ==
      /\ plan' = [w \in {"user", "pass"} |-> plan'[w]]
      /\ \A w \in {"user", "pass"} :
           plan'[w] = plan[w] \/ plan'[w] = None \/ SoundPlan(plan'[w])
<1>0. plan = [w \in {"user", "pass"} |-> plan[w]] /\ left \subseteq Sessions
  BY DEF Types, PassTypes
<1>1. ASSUME NEW w \in {"user", "pass"}, NEW p, p = None \/ SoundPlan(p),
             plan' = [plan EXCEPT ![w] = p]
      PROVE  Goal
  BY <1>0, <1>1
<1>2. CASE plan' = plan
  BY <1>0, <1>2
<1>3. CASE PassDies
  BY <1>1, <1>3 DEF PassDies
<1>4. CASE Recovers
  BY <1>1, <1>4 DEF Recovers, Executes
<1>5. CASE UserDeclines
  BY <1>1, <1>5 DEF UserDeclines
<1>6. CASE PassPlans
  <2>1. CASE \E s \in Sessions : \E p \in ConflictPlan(s) :
               plan' = [plan EXCEPT !["pass"] = p]
    <3>1. PICK s \in Sessions :
            \E p \in ConflictPlan(s) : plan' = [plan EXCEPT !["pass"] = p]
      BY <2>1
    <3>2. PICK p \in ConflictPlan(s) : plan' = [plan EXCEPT !["pass"] = p]
      BY <3>1
    <3>3. SoundPlan(p)
      BY RestartPlanSound DEF ConflictPlan
    <3> QED BY <1>1, <3>2, <3>3
  <2> QED BY <1>2, <1>6, <2>1 DEF PassPlans
<1>7. CASE PassPlansBranch /\ plan' # plan
  <2>0. PICK s \in left : \E P \in SUBSET GitPlan(s, TRUE) :
          P # {} /\ plan' = [plan EXCEPT !["pass"] = The(P)]
    BY <1>7 DEF PassPlansBranch
  <2>1. PICK P \in SUBSET GitPlan(s, TRUE) :
          P # {} /\ plan' = [plan EXCEPT !["pass"] = The(P)]
    BY <2>0
  <2>2. The(P) \in GitPlan(s, TRUE)
    BY <2>1, Chosen
  <2>3. SoundPlan(The(P))
    BY <1>0, <2>2, GitPlanSound
  <2> QED BY <1>1, <2>1, <2>3
<1>8. ASSUME NEW s \in Sessions, UserPlans(s) PROVE Goal
  <2>1. PICK p : /\ plan' = [plan EXCEPT !["user"] = p]
                 /\ p \in GitPlan(s, FALSE) \/ p \in RestartPlan(s, None)
    BY <1>8 DEF UserPlans
  <2> QED BY <1>1, <2>1, GitPlanSound, RestartPlanSound
<1> QED BY <1>2, <1>3, <1>4, <1>5, <1>6, <1>7, <1>8, Footprints DEF PlanWriters

LEMMA StageTypes ==
  ASSUME PassTypes, [Next]_vars
  PROVE  /\ pass' \in {"idle", "plan", "exec", "gate", "fin", "branch", "repair",
                       "decide"}
         /\ left' \subseteq Sessions
<1>0. /\ pass \in {"idle", "plan", "exec", "gate", "fin", "branch", "repair",
                   "decide"}
      /\ left \subseteq Sessions
  BY DEF PassTypes
<1> USE DEF sched
<1>1. CASE BoardStep \/ OpReleases \/ LeaseExpires \/ UNCHANGED vars
  BY <1>0, <1>1 DEF vars, BoardStep, OpReleases, LeaseExpires
<1>2. CASE PassNext
  BY <1>0, <1>2 DEF PassNext, Executes, PassRetires, PassPlans, PassGates,
     PassReports, PassPlansBranch, PassReconciles, PassRepairs,
     PassReleases, PassRelinks, PassDecides
<1>3. CASE WorkerNext
  BY <1>0, <1>3 DEF WorkerNext, PrepareFresh, RecordLaunch, Register,
     EnableGit, ResumeKnown, ResumeRefused, WorkerSettles, Abandon,
     RowRecovered
<1>4. CASE AgentNext
  BY <1>0, <1>4 DEF AgentNext, CodexExits, AgentActivates, AgentSeals
<1>5. CASE UserNext
  <2>1. ASSUME NEW t \in Tasks, NEW e \in board[t], NEW kind, UserEnds(kind, t, e)
        PROVE  UNCHANGED <<pass, left>>
    BY <2>1 DEF UserEnds
  <2>2. CASE Executes("user")
    BY <1>0, <2>2 DEF Executes
  <2>3. CASE ~Executes("user") /\ ~Ends
    BY <1>0, <1>5, <2>3 DEF UserNext, Ends, UserCommits, UserSwitches,
       UserSetsMode, UserDeclines, UserStops, UserResumes, UserPlans,
       CancelOrphan, UserAdds, UserUnlinks
  <2> QED BY <1>0, <2>1, <2>2, <2>3 DEF Ends
<1>6. CASE FaultNext
  BY <1>0, <1>6 DEF FaultNext, UserDies, PassDies, WorkerDies, Rebuild
<1> QED BY <1>1, <1>2, <1>3, <1>4, <1>5, <1>6 DEF Next

LEMMA TypesStep ==
  ASSUME JournalInv, [Next]_vars
  PROVE  Types'
<1>0. Types /\ LockHeld /\ PassTypes
  BY DEF JournalInv, Types
<1>1. Tasks' = Tasks /\ Journals' = Journals
  BY SceneKept
<1>2. ASSUME NEW w \in {"user", "pass"}, plan'[w] # None
      PROVE  PlanTyped(plan'[w])
  BY <1>0, <1>2, PlanMoves DEF PassTypes, SoundPlan
<1>4. PassTypes'
  BY <1>0, <1>1, <1>2, PlanMoves, StageTypes DEF PassTypes, PlanTyped
<1> QED BY <1>0, <1>4, GitTypesStep, RegistryTypesStep, RunTypesStep DEF Types

LEMMA PlansSoundStep ==
  ASSUME JournalInv, [Next]_vars
  PROVE  PlansSound'
BY PlanMoves DEF JournalInv, PlansSound, SoundPlan

-----------------------------------------------------------------------------
(* Commands under the board lock.                                          *)

HasMove(q) == \E i \in 1..Len(q) : q[i] \in {"rename", "copy"}

LEMMA MovesAreMoves == \A o : Moves(o) <=> HasMove(o.todo)
BY DEF Moves, HasMove

\* The rest of a command neither removes nor drops anything at once, but for
\* the source of the move whose destination was just written.
LEMMA TodoRest ==
  ASSUME NEW q \in Todos
  PROVE  /\ q[1] = "release" => Len(q) = 1
         /\ Len(q) # 1 =>
              /\ Tail(q)[1] # "remove"
              /\ Tail(q)[1] = "drop" => q[1] = "copy"
              /\ HasMove(Tail(q)) => HasMove(q) /\ q[1] \in {"attach", "mark"}
<1>1. q[1] = "release" => Len(q) = 1
  BY DEF Todos
<1>2. ASSUME Len(q) # 1
      PROVE  /\ Tail(q)[1] # "remove"
             /\ Tail(q)[1] = "drop" => q[1] = "copy"
             /\ HasMove(Tail(q)) => HasMove(q) /\ q[1] \in {"attach", "mark"}
  <2>1. CASE q \in {<<"attach", "rename">>, <<"attach", "copy", "drop">>,
                    <<"mark", "rename", "clean", "release">>,
                    <<"mark", "copy", "drop", "clean", "release">>}
    <3>1. HasMove(q)
      <4>1. q[2] \in {"rename", "copy"} /\ 2 \in 1..Len(q)
        BY <2>1
      <4> QED BY <4>1 DEF HasMove
    <3>2. Tail(q)[1] \in {"rename", "copy"} /\ q[1] \in {"attach", "mark"}
      BY <2>1
    <3> QED BY <3>1, <3>2
  <2>2. CASE q \in {<<"copy", "drop">>, <<"copy", "drop", "release">>,
                    <<"copy", "drop", "clean", "release">>,
                    <<"rename", "release">>, <<"drop", "release">>,
                    <<"remove", "release">>, <<"clean", "release">>,
                    <<"mark", "clean", "release">>,
                    <<"rename", "clean", "release">>,
                    <<"drop", "clean", "release">>}
    <3>1. ~HasMove(Tail(q))
      BY <2>2 DEF HasMove
    <3>2. Tail(q)[1] # "remove" /\ (Tail(q)[1] = "drop" => q[1] = "copy")
      BY <2>2
    <3> QED BY <3>1, <3>2
  <2>3. CASE q \in {<<"attach">>, <<"rename">>, <<"drop">>, <<"remove">>,
                    <<"release">>}
    BY <1>2, <2>3
  <2> QED BY Zenon, <2>1, <2>2, <2>3 DEF Todos
<1> QED BY <1>1, <1>2

Kinds == {"activate", "move", "done", "complete", "delete", "relink", "dedup",
          "retire", "recover"}

LEMMA MoveSteps == Move \in {<<"rename">>, <<"copy", "drop">>}
BY DEF Move

\* Tuples put together.
LEMMA Joined11 ==
  ASSUME NEW a \in StepNames, NEW b \in StepNames
  PROVE  <<a>> \o <<b>> = <<a, b>>
<1> DEFINE p == <<a>>
           q == <<b>>
           r == <<a, b>>
<1>1. p \in Seq(StepNames) /\ q \in Seq(StepNames) /\ r \in Seq(StepNames)
  OBVIOUS
<1>2. Len(p) = 1 /\ Len(q) = 1 /\ Len(r) = 2
  OBVIOUS
<1>3. \A i \in 1..Len(p) : r[i] = p[i]
  OBVIOUS
<1>4. \A i \in 1..Len(q) : r[Len(p) + i] = q[i]
  OBVIOUS
<1> HIDE DEF p, q, r
<1>5. Len(r) = Len(p) + Len(q)
  BY <1>2
<1>6. p \o q = r
  BY <1>1, <1>3, <1>4, <1>5, Joined
<1> QED BY <1>6 DEF p, q, r

LEMMA Joined12 ==
  ASSUME NEW a \in StepNames, NEW b \in StepNames, NEW c \in StepNames
  PROVE  <<a>> \o <<b, c>> = <<a, b, c>>
<1> DEFINE p == <<a>>
           q == <<b, c>>
           r == <<a, b, c>>
<1>1. p \in Seq(StepNames) /\ q \in Seq(StepNames) /\ r \in Seq(StepNames)
  OBVIOUS
<1>2. Len(p) = 1 /\ Len(q) = 2 /\ Len(r) = 3
  OBVIOUS
<1>3. \A i \in 1..Len(p) : r[i] = p[i]
  OBVIOUS
<1>4. \A i \in 1..Len(q) : r[Len(p) + i] = q[i]
  OBVIOUS
<1> HIDE DEF p, q, r
<1>5. Len(r) = Len(p) + Len(q)
  BY <1>2
<1>6. p \o q = r
  BY <1>1, <1>3, <1>4, <1>5, Joined
<1> QED BY <1>6 DEF p, q, r

LEMMA Joined21 ==
  ASSUME NEW a \in StepNames, NEW b \in StepNames, NEW c \in StepNames
  PROVE  <<a, b>> \o <<c>> = <<a, b, c>>
<1> DEFINE p == <<a, b>>
           q == <<c>>
           r == <<a, b, c>>
<1>1. p \in Seq(StepNames) /\ q \in Seq(StepNames) /\ r \in Seq(StepNames)
  OBVIOUS
<1>2. Len(p) = 2 /\ Len(q) = 1 /\ Len(r) = 3
  OBVIOUS
<1>3. \A i \in 1..Len(p) : r[i] = p[i]
  OBVIOUS
<1>4. \A i \in 1..Len(q) : r[Len(p) + i] = q[i]
  OBVIOUS
<1> HIDE DEF p, q, r
<1>5. Len(r) = Len(p) + Len(q)
  BY <1>2
<1>6. p \o q = r
  BY <1>1, <1>3, <1>4, <1>5, Joined
<1> QED BY <1>6 DEF p, q, r

LEMMA Joined22 ==
  ASSUME NEW a \in StepNames, NEW b \in StepNames, NEW c \in StepNames, NEW d \in StepNames
  PROVE  <<a, b>> \o <<c, d>> = <<a, b, c, d>>
<1> DEFINE p == <<a, b>>
           q == <<c, d>>
           r == <<a, b, c, d>>
<1>1. p \in Seq(StepNames) /\ q \in Seq(StepNames) /\ r \in Seq(StepNames)
  OBVIOUS
<1>2. Len(p) = 2 /\ Len(q) = 2 /\ Len(r) = 4
  OBVIOUS
<1>3. \A i \in 1..Len(p) : r[i] = p[i]
  OBVIOUS
<1>4. \A i \in 1..Len(q) : r[Len(p) + i] = q[i]
  OBVIOUS
<1> HIDE DEF p, q, r
<1>5. Len(r) = Len(p) + Len(q)
  BY <1>2
<1>6. p \o q = r
  BY <1>1, <1>3, <1>4, <1>5, Joined
<1> QED BY <1>6 DEF p, q, r

LEMMA Joined32 ==
  ASSUME NEW a \in StepNames, NEW b \in StepNames, NEW c \in StepNames, NEW d \in StepNames, NEW e \in StepNames
  PROVE  <<a, b, c>> \o <<d, e>> = <<a, b, c, d, e>>
<1> DEFINE p == <<a, b, c>>
           q == <<d, e>>
           r == <<a, b, c, d, e>>
<1>1. p \in Seq(StepNames) /\ q \in Seq(StepNames) /\ r \in Seq(StepNames)
  OBVIOUS
<1>2. Len(p) = 3 /\ Len(q) = 2 /\ Len(r) = 5
  OBVIOUS
<1>3. \A i \in 1..Len(p) : r[i] = p[i]
  OBVIOUS
<1>4. \A i \in 1..Len(q) : r[Len(p) + i] = q[i]
  OBVIOUS
<1> HIDE DEF p, q, r
<1>5. Len(r) = Len(p) + Len(q)
  BY <1>2
<1>6. p \o q = r
  BY <1>1, <1>3, <1>4, <1>5, Joined
<1> QED BY <1>6 DEF p, q, r

\* The commands that are written as concatenations.
LEMMA JoinedSteps ==
  /\ <<"attach">> \o Move \in {<<"attach", "rename">>,
                               <<"attach", "copy", "drop">>}
  /\ Move \o <<"release">> \in {<<"rename", "release">>,
                                <<"copy", "drop", "release">>}
  /\ (<<"mark">> \o <<>>) \o <<"clean", "release">>
       = <<"mark", "clean", "release">>
  /\ (<<"mark">> \o Move) \o <<"clean", "release">> \in
       {<<"mark", "rename", "clean", "release">>,
        <<"mark", "copy", "drop", "clean", "release">>}
<1> USE DEF StepNames
<1>1. <<"attach">> \o <<"rename">> = <<"attach", "rename">>
  BY Joined11
<1>2. <<"attach">> \o <<"copy", "drop">> = <<"attach", "copy", "drop">>
  BY Joined12
<1>3. <<"rename">> \o <<"release">> = <<"rename", "release">>
  BY Joined11
<1>4. <<"copy", "drop">> \o <<"release">> = <<"copy", "drop", "release">>
  BY Joined21
<1>5. (<<"mark">> \o <<>>) \o <<"clean", "release">>
        = <<"mark", "clean", "release">>
  <2>1. <<"mark">> \o <<>> = <<"mark">>
    OBVIOUS
  <2>2. <<"mark">> \o <<"clean", "release">> = <<"mark", "clean", "release">>
    BY Joined12
  <2> QED BY <2>1, <2>2
<1>6. (<<"mark">> \o <<"rename">>) \o <<"clean", "release">>
        = <<"mark", "rename", "clean", "release">>
  <2>1. <<"mark">> \o <<"rename">> = <<"mark", "rename">>
    BY Joined11
  <2>2. <<"mark", "rename">> \o <<"clean", "release">>
          = <<"mark", "rename", "clean", "release">>
    BY Joined22
  <2> QED BY <2>1, <2>2
<1>7. (<<"mark">> \o <<"copy", "drop">>) \o <<"clean", "release">>
        = <<"mark", "copy", "drop", "clean", "release">>
  <2>1. <<"mark">> \o <<"copy", "drop">> = <<"mark", "copy", "drop">>
    BY Joined12
  <2>2. <<"mark", "copy", "drop">> \o <<"clean", "release">>
          = <<"mark", "copy", "drop", "clean", "release">>
    BY ZenonT(60), Joined32
  <2> QED BY <2>1, <2>2
<1> QED BY <1>1, <1>2, <1>3, <1>4, <1>5, <1>6, <1>7, MoveSteps

LEMMA StepsFacts ==
  ASSUME NEW kind \in Kinds, NEW e
  PROVE  /\ Steps(kind, e) \in Todos /\ Steps(kind, e)[1] # "drop"
         /\ Steps(kind, e)[1] = "remove" => kind \in {"delete", "dedup"}
         /\ HasMove(Steps(kind, e)) =>
              \/ kind \in {"activate", "move", "done", "complete"}
              \/ kind = "recover" /\ e.col # "todo"
         /\ kind = "retire" => Steps(kind, e) = <<"release">>
<1>1. CASE kind = "activate"
  <2>1. Steps(kind, e) \in {<<"attach", "rename">>, <<"attach", "copy", "drop">>}
    BY <1>1, JoinedSteps DEF Steps
  <2>2. Steps(kind, e) \in Todos
    BY Zenon, <2>1 DEF Todos
  <2> QED BY <1>1, <2>1, <2>2
<1>2. CASE kind \in {"move", "done"}
  <2>1. Steps(kind, e) \in {<<"rename">>, <<"copy", "drop">>}
    BY <1>2, MoveSteps DEF Steps
  <2>2. Steps(kind, e) \in Todos
    BY Zenon, <2>1 DEF Todos
  <2> QED BY <1>2, <2>1, <2>2
<1>3. CASE kind = "complete"
  <2>1. Steps(kind, e) \in {<<"rename", "release">>,
                            <<"copy", "drop", "release">>}
    BY <1>3, JoinedSteps DEF Steps
  <2>2. Steps(kind, e) \in Todos
    BY Zenon, <2>1 DEF Todos
  <2> QED BY <1>3, <2>1, <2>2
<1>4. CASE kind \in {"delete", "dedup"}
  <2>1. Steps(kind, e) \in {<<"remove", "release">>, <<"remove">>}
    BY <1>4 DEF Steps
  <2>2. Steps(kind, e) \in Todos
    BY Zenon, <2>1 DEF Todos
  <2>3. ~HasMove(Steps(kind, e))
    BY <2>1 DEF HasMove
  <2> QED BY <1>4, <2>1, <2>2, <2>3
<1>5. CASE kind = "relink"
  <2>1. Steps(kind, e) = <<"attach">>
    BY <1>5 DEF Steps
  <2>2. Steps(kind, e) \in Todos
    BY Zenon, <2>1 DEF Todos
  <2>3. ~HasMove(Steps(kind, e))
    BY <2>1 DEF HasMove
  <2> QED BY <1>5, <2>1, <2>2, <2>3
<1>6. CASE kind = "retire"
  <2>1. Steps(kind, e) = <<"release">>
    BY <1>6 DEF Steps
  <2>2. Steps(kind, e) \in Todos
    BY Zenon, <2>1 DEF Todos
  <2>3. ~HasMove(Steps(kind, e))
    BY <2>1 DEF HasMove
  <2> QED BY <1>6, <2>1, <2>2, <2>3
<1>7. CASE kind = "recover" /\ e.col = "todo"
  <2>1. Steps(kind, e) = (<<"mark">> \o <<>>) \o <<"clean", "release">>
    BY <1>7 DEF Steps
  <2>2. Steps(kind, e) = <<"mark", "clean", "release">>
    BY <2>1, JoinedSteps
  <2>3. Steps(kind, e) \in Todos
    BY Zenon, <2>2 DEF Todos
  <2>4. ~HasMove(Steps(kind, e))
    BY <2>2 DEF HasMove
  <2> QED BY <1>7, <2>2, <2>3, <2>4
<1>8. CASE kind = "recover" /\ e.col # "todo"
  <2>1. Steps(kind, e) = (<<"mark">> \o Move) \o <<"clean", "release">>
    BY <1>8 DEF Steps
  <2>2. Steps(kind, e) \in {<<"mark", "rename", "clean", "release">>,
                            <<"mark", "copy", "drop", "clean", "release">>}
    BY <2>1, JoinedSteps
  <2>3. Steps(kind, e) \in Todos
    BY Zenon, <2>2 DEF Todos
  <2> QED BY <1>8, <2>2, <2>3
<1> QED BY <1>1, <1>2, <1>3, <1>4, <1>5, <1>6, <1>7, <1>8 DEF Kinds

LEMMA OpContinues ==
  ASSUME op \in Commands, NEW e \in Entries, OpDone(e)
  PROVE  \/ op' = None
         \/ /\ Len(op.todo) # 1 /\ op' \in Commands /\ op'.by = op.by
            /\ op'.s = op.s /\ op'.t = op.t /\ op'.to = op.to /\ op'.e = e
            /\ op'.todo = Tail(op.todo)
<1>1. op.todo \in Todos
  BY DEF Commands
<1>2. CASE Len(op.todo) = 1
  BY <1>2 DEF OpDone
<1>3. CASE Len(op.todo) # 1
  <2>1. Tail(op.todo) \in Todos
    BY <1>1, <1>3, TodoSteps
  <2>2. op' = [op EXCEPT !.todo = Tail(op.todo), !.e = e]
    BY <1>3 DEF OpDone
  <2>3. op' \in Commands
    BY <2>1, <2>2 DEF Commands
  <2> QED BY <1>3, <2>2, <2>3 DEF Commands
<1> QED BY <1>2, <1>3

\* A command that is begun has its entry; a move has somewhere else to go,
\* and only the user removes the last entry of a task.
LEMMA OpBegins ==
  ASSUME [Next]_vars, NEW kind \in Kinds,
         NEW by \in {"user", "pass", "worker", "agent"},
         NEW s \in Sessions \cup {None}, NEW t, NEW e, NEW to,
         \/ t \in Tasks /\ e \in Entries
         \/ kind = "retire" /\ t = None /\ e = None,
         to \in Columns \cup {None},
         kind \in {"activate", "move", "done", "complete", "recover"} =>
           to \in Columns,
         kind \in {"activate", "move", "done", "complete"} => to # e.col,
         kind = "recover" => to = "todo",
         kind = "dedup" /\ by # "user" => board'[t] \ {e} # {},
         kind = "delete" => by = "user",
         op' = Op(kind, by, s, t, e, to)
  PROVE  LockHeld'
<1>1. Commands' = Commands /\ Tasks' = Tasks
  BY SceneKept
<1>2. /\ op'.by = by /\ op'.s = s /\ op'.t = t /\ op'.e = e /\ op'.to = to
      /\ op'.todo = Steps(kind, e)
  BY DEF Op
<1>3. op' \in Commands
  <2>1. Steps(kind, e) \in Todos
    BY StepsFacts
  <2> QED BY <2>1 DEF Op, Commands
<1>4. Moves(op)' => /\ to \in Columns /\ to # e.col
  <2>1. Moves(op)' <=> HasMove(Steps(kind, e))
    BY <1>2 DEF Moves, HasMove
  <2> QED BY <2>1, StepsFacts
<1>5. ~At("drop")' /\ (At("remove")' => kind \in {"delete", "dedup"})
  BY <1>2, StepsFacts DEF At
<1>6. op'.todo # <<"release">> => t \in Tasks /\ e \in Entries
  BY <1>2, StepsFacts
<1> QED BY <1>1, <1>2, <1>3, <1>4, <1>5, <1>6 DEF LockHeld

LEMMA BoardStepHeld ==
  ASSUME Types, LockHeld, BoardStep, [Next]_vars
  PROVE  LockHeld'
<1>0. /\ op # None /\ op \in Commands /\ op.t \in Tasks /\ op.e \in Entries
      /\ op.todo \in Todos /\ op.s \in Sessions \cup {None}
  BY BoardStepTypes DEF LockHeld, Commands
<1>1. Commands' = Commands /\ Tasks' = Tasks
  BY SceneKept
<1>2. At("copy") \/ At("rename") => Moves(op)
  <2>1. 1 \in 1..Len(op.todo)
    BY <1>0, TodoSteps
  <2> QED BY <2>1 DEF At, Moves
<1>3. At("copy") \/ At("rename") => op.to \in Columns /\ op.to # op.e.col
  BY <1>0, <1>2 DEF LockHeld
<1>4. /\ At("copy") \/ At("rename") => MovedTo(op) \in Entries
      /\ [op.e EXCEPT !.link = op.s] \in Entries
      /\ [op.e EXCEPT !.stop = TRUE] \in Entries
  BY <1>0, <1>3, EntryTypes DEF MovedTo
<1>5. ASSUME NEW e \in Entries, OpDone(e),
             At("attach") \/ At("mark") => e.col = op.e.col,
             At("copy") => e = op.e /\ MovedTo(op) \in board'[op.t]
      PROVE  LockHeld'
  <2>1. CASE op' = None
    BY <2>1 DEF LockHeld
  <2>2. CASE op' # None
    <3>1. /\ Len(op.todo) # 1 /\ op' \in Commands /\ op'.by = op.by
          /\ op'.t = op.t /\ op'.to = op.to /\ op'.e = e
          /\ op'.todo = Tail(op.todo)
      BY <1>0, <1>5, <2>2, OpContinues
    <3>2. /\ op'.todo[1] # "remove" /\ (op'.todo[1] = "drop" => At("copy"))
          /\ HasMove(op'.todo) =>
               HasMove(op.todo) /\ (At("attach") \/ At("mark"))
      BY <1>0, <3>1, TodoRest DEF At
    <3>3. (Moves(op)' <=> HasMove(op'.todo)) /\ (Moves(op) <=> HasMove(op.todo))
      BY DEF Moves, HasMove
    <3>4. Moves(op)' => op.to \in Columns /\ op.to # e.col
      BY <1>0, <1>5, <3>2, <3>3 DEF LockHeld
    <3>5. At("drop")' => /\ op.to \in Columns /\ op.to # e.col
                         /\ MovedTo(op)' \in board'[op.t]
      <4>1. At("drop")' => At("copy")
        BY <3>2 DEF At
      <4>2. e = op.e => MovedTo(op)' = MovedTo(op)
        BY <3>1 DEF MovedTo
      <4> QED BY <1>3, <1>5, <4>1, <4>2
    <3>6. ~At("remove")'
      BY <3>2 DEF At
    <3> QED BY <1>0, <1>1, <3>1, <3>4, <3>5, <3>6 DEF LockHeld
  <2> QED BY <2>1, <2>2
<1>6. CASE At("attach") /\ OpDone([op.e EXCEPT !.link = op.s])
  <2>1. ~At("copy") /\ [op.e EXCEPT !.link = op.s].col = op.e.col
    BY <1>0, <1>6 DEF At, Entries
  <2> QED BY <1>4, <1>5, <1>6, <2>1
<1>7. CASE At("mark") /\ OpDone([op.e EXCEPT !.stop = TRUE])
  <2>1. ~At("copy") /\ [op.e EXCEPT !.stop = TRUE].col = op.e.col
    BY <1>0, <1>7 DEF At, Entries
  <2> QED BY <1>4, <1>5, <1>7, <2>1
<1>8. CASE At("copy") /\ Put({}, {MovedTo(op)}) /\ OpDone(op.e)
  <2>1. MovedTo(op) \in board'[op.t]
    BY <1>0, <1>8 DEF Put, Types, GitTypes, BoardStates
  <2> QED BY <1>0, <1>5, <1>8, <2>1
<1>9. CASE At("rename") /\ OpDone(MovedTo(op))
  <2>1. ~At("copy") /\ ~At("attach") /\ ~At("mark")
    BY <1>9 DEF At
  <2> QED BY <1>4, <1>5, <1>9, <2>1
<1>10. CASE (At("drop") \/ At("remove") \/ At("clean")) /\ OpDone(op.e)
  <2>1. ~At("copy")
    BY <1>10 DEF At
  <2> QED BY <1>0, <1>5, <1>10, <2>1
<1> QED BY <1>6, <1>7, <1>8, <1>9, <1>10 DEF BoardStep, MovedTo

LEMMA RepairHeld ==
  ASSUME Types, [Next]_vars, NEW s \in Sessions, jr[s].task \in Tasks,
         Repair(s) # {}, op' = The(Repair(s)), board' = board
  PROVE  LockHeld'
<1> DEFINE t == jr[s].task
           act == {e \in board[t] : e.col \in Active}
           mine == {e \in act : e.link = s}
           held == ctl[s].st \in {"stopped", "stopreq"}
           pair == /\ Cardinality(mine) = 2 /\ {e.col : e \in mine} = Active
                   /\ One({e.stop : e \in mine})
           same == {e \in mine : e.col = IF held \/ e.stop THEN "doing" ELSE "todo"}
<1>0. op' \in Repair(s)
  BY Chosen
<1>1. board[t] \subseteq Entries
  BY DEF Types, GitTypes, BoardStates
<1>2. "doing" \in Columns
  BY DEF Columns, Active
<1>3. CASE One(mine) /\ Ready(The(mine)) /\ ~held
  <2>0. ~pair /\ mine # {}
    BY <1>3, Chosen DEF One
  <2>1. Repair(s) = {Op("move", "pass", s, t, The(mine), "doing")}
    BY <1>3, <2>0 DEF Repair
  <2>2. The(mine) \in mine
    BY <1>3, Chosen
  <2>3. The(mine) \in Entries /\ The(mine).col = "todo"
    BY <1>1, <1>3, <2>2 DEF Ready
  <2>4. op' = Op("move", "pass", s, t, The(mine), "doing")
    BY <1>0, <2>1
  <2> HIDE DEF t, mine
  <2> QED BY <1>2, <2>3, <2>4, OpBegins DEF Kinds, t
<1>4. CASE pair /\ ~(One(mine) /\ Ready(The(mine)) /\ ~held)
  <2>0. mine # {}
    BY <1>4 DEF Active
  <2>1. Repair(s) = {Op("dedup", "pass", s, t, e, None) : e \in same}
    BY <1>4, <2>0 DEF Repair
  <2>2. PICK e \in same : op' = Op("dedup", "pass", s, t, e, None)
    BY <1>0, <2>1
  <2>3. e \in Entries /\ e \in mine
    BY <1>1, <2>2
  <2>4. board[t] \ {e} # {}
    <3>1. "todo" \in {x.col : x \in mine} /\ "doing" \in {x.col : x \in mine}
      BY <1>4 DEF Active
    <3>2. PICK x \in mine, y \in mine : x.col = "todo" /\ y.col = "doing"
      BY <3>1
    <3> QED BY <3>2
  <2> HIDE DEF t, mine, same
  <2> QED BY <2>2, <2>3, <2>4, OpBegins DEF Kinds, t
<1>5. CASE /\ mine = {} /\ One(act) /\ The(act).link = None
           /\ ~pair /\ ~(One(mine) /\ Ready(The(mine)) /\ ~held)
  <2>1. Repair(s) = {Op(IF Ready(The(act)) /\ ~held THEN "activate"
                        ELSE "relink", "pass", s, t, The(act), "doing")}
    BY <1>5 DEF Repair
  <2>2. The(act) \in act
    BY <1>5, Chosen
  <2>3. The(act) \in Entries /\ (Ready(The(act)) => The(act).col = "todo")
    BY <1>1, <2>2 DEF Ready
  <2>4. \/ /\ op' = Op("activate", "pass", s, t, The(act), "doing")
           /\ Ready(The(act))
        \/ op' = Op("relink", "pass", s, t, The(act), "doing")
    BY <1>0, <2>1
  <2> HIDE DEF t, act
  <2>5. CASE /\ op' = Op("activate", "pass", s, t, The(act), "doing")
             /\ Ready(The(act))
    BY <1>2, <2>3, <2>5, OpBegins DEF Kinds, t
  <2>6. CASE op' = Op("relink", "pass", s, t, The(act), "doing")
    BY <1>2, <2>3, <2>6, OpBegins DEF Kinds, t
  <2> QED BY <2>4, <2>5, <2>6
<1>6. CASE /\ ~(One(mine) /\ Ready(The(mine)) /\ ~held) /\ ~pair
           /\ ~(mine = {} /\ One(act) /\ The(act).link = None)
  BY <1>6 DEF Repair
<1> QED BY <1>3, <1>4, <1>5, <1>6

LEMMA LockHeldStep ==
  ASSUME JournalInv, [Next]_vars
  PROVE  LockHeld'
<1>0. /\ Types /\ LockHeld /\ LeftBound /\ None \notin Sessions
      /\ board \in [Tasks -> SUBSET Entries]
      /\ \A s \in Sessions : jr[s] # None => jr[s].task \in Tasks \cup {None}
      /\ Commands' = Commands /\ Tasks' = Tasks
  BY Scene, SceneKept DEF JournalInv, Types, GitTypes, RegistryTypes,
     BoardStates, Journals, JournalRows
<1>1. CASE op' = None
  BY <1>1 DEF LockHeld
<1>2. CASE BoardStep
  BY <1>0, <1>2, BoardStepHeld
<1>3. CASE op' = op /\ op # None /\ ~BoardStep
  <2>1. board' = board
    BY <1>3, Footprints DEF BoardWriters, UserSwitches, UserAdds, UserUnlinks
  <2>2. Moves(op)' = Moves(op) /\ MovedTo(op)' = MovedTo(op)
        /\ At("drop")' = At("drop") /\ At("remove")' = At("remove")
    BY <1>3 DEF Moves, MovedTo, At
  <2> QED BY <1>0, <1>3, <2>1, <2>2 DEF LockHeld
<1>4. CASE OpReleases
  <2>1. op \in Commands /\ At("release")
    BY <1>0, <1>4 DEF OpReleases, At, LockHeld
  <2>2. Len(op.todo) = 1
    BY <2>1, TodoRest DEF Commands, At
  <2> QED BY <1>1, <1>4, <2>2 DEF OpReleases, OpDone
<1>5. CASE Ends
  <2>0. PICK t \in Tasks : \E e \in board[t] :
          UserEnds("complete", t, e) \/ UserEnds("delete", t, e)
    BY <1>5 DEF Ends
  <2>1. PICK e \in board[t], kind \in {"complete", "delete"} : UserEnds(kind, t, e)
    BY <2>0
  <2>2. e \in Entries /\ e.link \in Sessions \cup {None} /\ e.col \in Columns
        /\ "done" \in Columns
    BY <1>0 DEF Entries, Columns
  <2>3. CASE kind = "complete"
    <3>1. e.col # "done" /\ \/ op' = Op("move", "user", e.link, t, e, "done")
                            \/ op' = Op("complete", "user", e.link, t, e, "done")
      BY <2>1, <2>3 DEF UserEnds, Starts
    <3>2. PICK k \in {"move", "complete"} :
            op' = Op(k, "user", e.link, t, e, "done")
      BY <3>1
    <3> QED BY <2>2, <3>1, <3>2, OpBegins DEF Kinds
  <2>4. CASE kind = "delete"
    <3>1. \/ op' = Op("dedup", "user", e.link, t, e, e.col)
          \/ op' = Op("delete", "user", e.link, t, e, e.col)
      BY <2>1, <2>4 DEF UserEnds, Starts
    <3>2. PICK k \in {"dedup", "delete"} :
            op' = Op(k, "user", e.link, t, e, e.col)
      BY <3>1
    <3> QED BY <2>2, <3>2, OpBegins DEF Kinds
  <2> QED BY <2>3, <2>4
<1>6. CASE Activates
  <2>0. PICK c \in codex, t \in Tasks : \E e \in board[t] : AgentActivates(c, t, e)
    BY <1>6 DEF Activates
  <2>1. PICK e \in board[t] : AgentActivates(c, t, e)
    BY <2>0
  <2>2. e \in Entries /\ c.s \in Sessions \cup {None} /\ "doing" \in Columns
    BY <1>0 DEF Types, RunTypes, Columns, Active
  <2>3. e.col = "todo" /\ op' = Op("activate", "agent", c.s, t, e, "doing")
    BY <2>1 DEF AgentActivates, Starts, Ready
  <2> QED BY <2>2, <2>3, OpBegins DEF Kinds
<1>7. CASE Seals
  <2>1. PICK c \in codex : AgentSeals(c)
    BY <1>7 DEF Seals
  <2> DEFINE x == The(Linked(c.s))
  <2>2. /\ One(Linked(c.s)) /\ x[2].col = "doing"
        /\ op' = Op("done", "agent", c.s, x[1], x[2], "done")
    BY <2>1 DEF AgentSeals, Starts
  <2>3. x \in Linked(c.s)
    BY <2>2, Chosen
  <2>4. x[1] \in Tasks /\ x[2] \in Entries /\ c.s \in Sessions \cup {None}
        /\ "done" \in Columns
    BY <1>0, <2>3, LinkedFacts DEF Types, RunTypes, Columns
  <2> HIDE DEF x
  <2> QED BY <2>2, <2>4, OpBegins DEF Kinds
<1>8. CASE Recovers /\ op' # op
  <2>1. PICK w \in {"user", "pass"} : Executes(w)
    BY <1>8 DEF Recovers
  <2> DEFINE p == plan[w]
             k == RecoverySteps(p)
  <2>2. p # None /\ op' = Op(k, w, p.s, p.t, p.e, "todo")
    BY <1>8, <2>1 DEF Executes, Starts
  <2>3. PlanTyped(p)
    BY <1>0, <2>2 DEF Types, PassTypes
  <2>4. /\ k \in {"retire", "recover"} /\ (k = "recover" => p.t # None)
        /\ "todo" \in Columns
    BY DEF RecoverySteps, Columns, Active
  <2> HIDE DEF p, k
  <2> QED BY <2>2, <2>3, <2>4, OpBegins DEF Kinds, PlanTyped
<1>9. CASE ResumeKnown /\ op' # op
  <2> DEFINE x == The({y \in Linked(wk.s) : Ready(y[2])})
  <2>1. /\ {y \in Linked(wk.s) : Ready(y[2])} # {} /\ WorkerUp("start")
        /\ op' = Op("move", "worker", wk.s, x[1], x[2], "doing")
    BY <1>9 DEF ResumeKnown, Starts
  <2>2. x \in Linked(wk.s) /\ Ready(x[2])
    BY <2>1, Chosen
  <2>3. x[1] \in Tasks /\ x[2] \in Entries /\ wk.s \in Sessions \cup {None}
        /\ "doing" \in Columns
    BY <1>0, <2>1, <2>2, LinkedFacts
       DEF WorkerUp, Types, RunTypes, Workers, Columns, Active
  <2> HIDE DEF x
  <2> QED BY <2>1, <2>2, <2>3, OpBegins DEF Kinds, Ready
<1>10. CASE PassRelinks
  <2>1. PICK s \in Sessions : /\ JState(s) = "working" /\ ~Unbound(s)
                              /\ Repair(s) # {} /\ op' = The(Repair(s))
    BY <1>10 DEF PassRelinks, Queued, Unlinked
  <2>2. jr[s].task \in Tasks
    BY <1>0, <2>1 DEF JState, Unbound
  <2> QED BY <1>0, <1>10, <2>1, <2>2, RepairHeld DEF PassRelinks
<1>11. ASSUME NEW s \in Sessions, PassRepairs(s), op' # op PROVE LockHeld'
  <2>1. /\ pass = "repair" /\ s \in left /\ Repair(s) # {}
        /\ op' = The(Repair(s)) /\ board' = board
    BY <1>11 DEF PassRepairs, PassAt
  <2>2. jr[s].task \in Tasks
    BY <1>0, <2>1 DEF LeftBound
  <2> QED BY <1>0, <2>1, <2>2, RepairHeld
<1>12. CASE \/ UserDies \/ PassDies \/ WorkerDies
            \/ \E c \in codex : CodexExits(c)
  <2>1. op' = None \/ op' = op
    BY <1>12 DEF UserDies, PassDies, WorkerDies, CodexExits
  <2> QED BY <1>1, <1>2, <1>3, <2>1
<1> QED BY <1>1, <1>2, <1>3, <1>4, <1>5, <1>6, <1>7, <1>8, <1>9, <1>10, <1>11,
        <1>12, Footprints DEF OpWriters

-----------------------------------------------------------------------------
(* Rows, boundaries and journals.                                          *)

\* A Codex starts in a session for the worker that took its row; what was
\* ended is not taken.
LEMMA NewCodex ==
  ASSUME JournalInv, [Next]_vars, NEW c \in codex' \ codex, c.s # None
  PROVE  /\ c.s \in Sessions /\ c.s \notin closed /\ c.run = wk.run
         /\ ctl'[c.s] = [st |-> "running", tok |-> wk.run]
<1>0. /\ Types /\ ClosedEnded /\ ResumedOpen /\ ctl \in [Sessions -> Rows]
      /\ wk # None => wk \in Workers(1..MaxRuns)
  BY DEF JournalInv, Types, RegistryTypes, RunTypes
<1>1. ASSUME NEW s \in Sessions, Register(s)
      PROVE  /\ c.s \in Sessions /\ c.s \notin closed /\ c.run = wk.run
             /\ ctl'[c.s] = [st |-> "running", tok |-> wk.run]
  <2>1. /\ jr[s] = None /\ ctl[s] = NoRow
        /\ ctl' = [ctl EXCEPT ![s] = [st |-> "running", tok |-> wk.run]]
        /\ c = [s |-> s, run |-> wk.run, git |-> wk.git]
    BY <1>1 DEF Register, Row
  <2>2. s \notin closed
    BY <1>0, <2>1 DEF ClosedEnded, Ended, NoRow
  <2> QED BY <1>0, <2>1, <2>2
<1>2. CASE ResumeKnown
  <2>1. /\ WorkerUp("start") /\ wk.s # None /\ Refusal(wk.s) = None
        /\ ctl' = [ctl EXCEPT ![wk.s] = [st |-> "running", tok |-> wk.run]]
        /\ c = [s |-> wk.s, run |-> wk.run, git |-> jr[wk.s] # None]
    BY <1>2 DEF ResumeKnown, Row
  <2>2. wk.s \notin closed
    BY <1>0, <2>1, RefusalFacts, StartsOpen
  <2>3. wk.s \in Sessions
    BY <1>0, <2>1 DEF WorkerUp, Workers
  <2> QED BY <1>0, <2>1, <2>2, <2>3
<1>3. CASE PrepareFresh
  BY <1>3 DEF PrepareFresh
<1>4. CASE RecordLaunch
  BY <1>4 DEF RecordLaunch
<1>5. ~(codex' = codex) /\ ~\E x \in codex : CodexExits(x)
  BY DEF CodexExits
<1> QED BY <1>1, <1>2, <1>3, <1>4, <1>5, Footprints DEF CodexWriters

LEMMA CodexHasRowStep ==
  ASSUME JournalInv, [Next]_vars
  PROVE  CodexHasRow'
<1> SUFFICES ASSUME NEW c \in codex', c.s # None
             PROVE  ctl'[c.s].st \in {"running", "stopreq"} /\ ctl'[c.s].tok = c.run
  BY DEF CodexHasRow
<1>1. CASE c \notin codex
  BY <1>1, NewCodex
<1>2. CASE c \in codex
  <2>1. /\ c.s \in Sessions /\ ctl[c.s].st \in {"running", "stopreq"}
        /\ ctl[c.s].tok = c.run
    BY <1>2 DEF JournalInv, CodexHasRow, Types, RunTypes
  <2>2. RowMove(c.s)
    BY <2>1, RowMoves
  <2>3. ~Rests(c.s) /\ ~Takes(c.s)
    BY <1>2, <2>1 DEF Rests, NoCodex, Takes, Idle
  <2> QED BY <2>1, <2>2, <2>3 DEF RowMove, Requests
<1> QED BY <1>1, <1>2

LEMMA WorkerHasRowStep ==
  ASSUME JournalInv, [Next]_vars
  PROVE  WorkerHasRow'
<1> SUFFICES ASSUME wk' # None, wk'.at = "live", wk'.s # None
             PROVE  /\ ctl'[wk'.s].st \in {"running", "stopreq"}
                    /\ ctl'[wk'.s].tok = wk'.run
  BY DEF WorkerHasRow
<1>0. /\ Types /\ WorkerHasRow /\ ctl \in [Sessions -> Rows]
      /\ wk # None => wk \in Workers(1..MaxRuns)
      /\ wk # None /\ wk.at = "bound" => wk.s = None
  BY DEF JournalInv, Types, RegistryTypes, RunTypes
<1>1. ASSUME wk # None, wk.at = "live", wk'.s = wk.s, wk'.run = wk.run
      PROVE  /\ ctl'[wk'.s].st \in {"running", "stopreq"}
             /\ ctl'[wk'.s].tok = wk'.run
  <2>1. /\ wk.s \in Sessions /\ ctl[wk.s].st \in {"running", "stopreq"}
        /\ ctl[wk.s].tok = wk.run
    BY <1>0, <1>1 DEF WorkerHasRow, Workers
  <2>2. RowMove(wk.s)
    BY <2>1, RowMoves
  <2>3. ~Rests(wk.s) /\ ~Takes(wk.s)
    BY <1>1, <2>1 DEF Rests, Takes, Idle
  <2> QED BY <1>1, <2>1, <2>2, <2>3 DEF RowMove, Requests
<1>2. CASE wk' = wk
  BY <1>1, <1>2
<1>3. CASE wk # None /\ wk.s = None /\ wk' = [wk EXCEPT !.at = "live"]
  BY <1>0, <1>3 DEF Workers
<1>4. CASE ResumeKnown /\ WorkerUp("start") /\ wk' = [wk EXCEPT !.at = "live"]
  <2>1. Row(wk.s, "running", wk.run) /\ wk.s # None /\ wk # None
    BY <1>4 DEF ResumeKnown, WorkerUp
  <2>2. wk.s \in Sessions /\ wk'.s = wk.s /\ wk'.run = wk.run
    BY <1>0, <1>4, <2>1 DEF Workers
  <2> QED BY <1>0, <2>1, <2>2 DEF Row
<1>5. CASE wk # None /\ wk' = [wk EXCEPT !.up = FALSE]
  <2>1. wk'.at = wk.at /\ wk'.s = wk.s /\ wk'.run = wk.run
    BY <1>0, <1>5 DEF Workers
  <2> QED BY <1>1, <1>5, <2>1
<1>6. ASSUME NEW s \in Sessions, Register(s), WorkerUp("live"),
             wk' = [wk EXCEPT !.s = s]
      PROVE  /\ ctl'[wk'.s].st \in {"running", "stopreq"}
             /\ ctl'[wk'.s].tok = wk'.run
  <2>1. Row(s, "running", wk.run) /\ wk # None
    BY <1>6 DEF Register, WorkerUp
  <2>2. wk'.s = s /\ wk'.run = wk.run
    BY <1>0, <1>6, <2>1 DEF Workers
  <2> QED BY <1>0, <2>1, <2>2 DEF Row
<1>7. CASE PassDecides /\ wk' # wk
  BY <1>0, <1>7, Dispatched
<1>8. CASE WorkerUp("bound") /\ wk' = [wk EXCEPT !.at = "live"]
  BY <1>0, <1>3, <1>8 DEF WorkerUp
<1>9. CASE /\ WorkerUp("start")
           /\ wk' = [wk EXCEPT !.at = "bound", !.start = tip'[branch],
                               !.branch = branch]
  BY <1>0, <1>9 DEF WorkerUp, Workers
<1> QED BY <1>2, <1>3, <1>4, <1>5, <1>6, <1>7, <1>8, <1>9, WorkerMoves
        DEF WorkerUp

LEMMA BoundaryKeptStep ==
  ASSUME JournalInv, [Next]_vars
  PROVE  BoundaryKept'
<1> SUFFICES ASSUME NEW c \in codex', c.s = None, c.git
             PROVE  /\ wk' # None /\ wk'.run = c.run /\ wk'.at = "live"
                    /\ wk'.s = None /\ wk'.git
                    /\ launch' # None /\ launch'.run = c.run
  BY DEF BoundaryKept
<1> DEFINE Kept == /\ wk' # None /\ wk'.run = c.run /\ wk'.at = "live"
                   /\ wk'.s = None /\ wk'.git
                   /\ launch' # None /\ launch'.run = c.run
<1>0. /\ Types /\ BoundaryKept /\ Types'
      /\ wk # None => wk \in Workers(1..MaxRuns)
      /\ wk # None /\ wk.at = "bound" => wk.s = None /\ wk.git
      /\ codex \subseteq [s : Sessions \cup {None}, run : 1..MaxRuns,
                          git : BOOLEAN]
      /\ None \notin Launches(1..MaxRuns) /\ None \notin Workers(1..MaxRuns)
      /\ None \notin Sessions
  BY Scene, TypesStep DEF JournalInv, Types, GitTypes, RunTypes
<1>1. CASE c \notin codex
  <2>1. RecordLaunch
    <3>1. ~PrepareFresh
      BY <1>1 DEF PrepareFresh
    <3>2. ~ResumeKnown
      BY <1>1 DEF ResumeKnown
    <3>3. ~\E s \in Sessions : Register(s)
      BY <1>0, <1>1 DEF Register
    <3>4. ~\E x \in codex : CodexExits(x)
      BY <1>1 DEF CodexExits
    <3> QED BY <1>1, <3>1, <3>2, <3>3, <3>4, Footprints DEF CodexWriters
  <2>2. /\ WorkerUp("bound") /\ c.run = wk.run
        /\ launch' = [run |-> wk.run, start |-> wk.start, branch |-> wk.branch]
        /\ wk' = [wk EXCEPT !.at = "live"]
    BY <1>1, <2>1 DEF RecordLaunch
  <2>3. /\ wk \in Workers(1..MaxRuns) /\ wk.s = None /\ wk.git
        /\ wk.start \in 1..Len(tree) /\ wk.branch \in Branches
        /\ 1..Len(tree) \subseteq Nat
    BY <1>0, <2>2 DEF WorkerUp, Types, RunTypes
  <2>4. /\ wk' \in Workers(1..MaxRuns) /\ wk'.run = wk.run /\ wk'.at = "live"
        /\ wk'.s = None /\ wk'.git
    BY <2>2, <2>3 DEF Workers
  <2>5. launch' \in Launches(1..MaxRuns) /\ launch'.run = wk.run
    BY <2>2, <2>3 DEF Launches, Workers
  <2> QED BY <1>0, <2>2, <2>4, <2>5
<1>2. CASE c \in codex
  <2>1. /\ wk # None /\ wk.run = c.run /\ wk.at = "live" /\ wk.s = None /\ wk.git
        /\ launch # None /\ launch.run = c.run
    BY <1>0, <1>2 DEF BoundaryKept
  <2>2. ~PrepareFresh /\ ~RecordLaunch /\ ~EnableGit /\ ~ResumeKnown
        /\ ~ResumeRefused
    BY <2>1 DEF PrepareFresh, RecordLaunch, EnableGit, ResumeKnown,
       ResumeRefused, WorkerUp
  <2>3. ~\E ok \in BOOLEAN : WorkerSettles(ok)
    BY <1>2, <2>1 DEF WorkerSettles
  <2>4. ~Abandon
    BY <1>2, <2>1 DEF Abandon, Reaped
  <2>5. ~\E s \in Sessions : Register(s)
    <3>1. ASSUME NEW s \in Sessions, Register(s) PROVE FALSE
      <4>1. codex' = (codex \ {[s |-> None, run |-> wk.run, git |-> wk.git]})
                       \cup {[s |-> s, run |-> wk.run, git |-> wk.git]}
        BY <3>1 DEF Register
      <4>2. c = [s |-> None, run |-> wk.run, git |-> wk.git]
        <5>1. wk.git = TRUE /\ c.git = TRUE
          BY <1>0, <1>2, <2>1 DEF Workers
        <5> QED BY <1>0, <1>2, <2>1, <5>1
      <4> QED BY <1>0, <4>1, <4>2
    <3> QED BY <3>1
  <2>6. launch' = launch
    BY <2>2, <2>5, Footprints DEF LaunchWriters
  <2>7. CASE wk' = wk
    BY <2>1, <2>6, <2>7
  <2>8. CASE WorkerDies
    <3>1. wk' = [wk EXCEPT !.up = FALSE] /\ wk \in Workers(1..MaxRuns)
      BY <1>0, <2>1, <2>8 DEF WorkerDies
    <3>2. /\ wk' \in Workers(1..MaxRuns) /\ wk'.run = wk.run /\ wk'.at = wk.at
          /\ wk'.s = wk.s /\ wk'.git = wk.git
      BY <3>1 DEF Workers
    <3> QED BY <1>0, <2>1, <2>6, <3>2
  <2>9. PassDecides => wk' = wk
    BY <1>0, <2>1, Dispatched
  <2> QED BY <2>2, <2>3, <2>4, <2>5, <2>7, <2>8, <2>9, Footprints
          DEF WorkerWriters
<1> QED BY <1>1, <1>2

LEMMA JournalCoversTaskStep ==
  ASSUME JournalInv, [Next]_vars
  PROVE  JournalCoversTask'
<1>0. /\ Types /\ LockHeld /\ JournalCoversTask
      /\ jr \in [Sessions -> Journals \cup {None}]
      /\ \A s \in Sessions : jr[s] # None => jr[s].start \in 1..Len(tree)
      /\ \A i \in 1..Len(tree) : tree'[i] = tree[i]
  BY GitTypesStep DEF JournalInv, Types, RegistryTypes
<1> SUFFICES ASSUME NEW s \in Sessions, jr'[s] # None, jr'[s].st \in Pending,
                    jr'[s].task # None
             PROVE  One({e \in tree'[jr'[s].start][jr'[s].task] :
                           e.col \in Active})
  BY DEF JournalCoversTask, IsPending, JState, Pending
<1>1. ASSUME jr[s] # None, jr[s].st \in Pending, jr'[s].start = jr[s].start,
             jr'[s].task = jr[s].task
      PROVE  One({e \in tree'[jr'[s].start][jr'[s].task] : e.col \in Active})
  <2>1. One({e \in tree[jr[s].start][jr[s].task] : e.col \in Active})
    BY <1>0, <1>1 DEF JournalCoversTask, IsPending, JState
  <2>2. tree'[jr'[s].start] = tree[jr[s].start]
    BY <1>0, <1>1
  <2> QED BY <1>1, <2>1, <2>2
<1>2. CASE jr'[s] = jr[s]
  BY <1>1, <1>2
<1>3. CASE Opens(s)
  BY <1>3 DEF Opens
<1>4. CASE Binds(s)
  <2>1. PICK t \in Tasks : /\ ActiveIn(jr[s].start, t) = 1
                           /\ jr'[s] = [jr[s] EXCEPT !.task = t]
    BY <1>4 DEF Binds
  <2>2. jr[s] # None /\ jr[s] \in Journals
    BY <1>0, <1>4 DEF Binds, JState
  <2>3. jr'[s].start = jr[s].start /\ jr'[s].task = t
    BY <2>1, <2>2, BoundFields
  <2>4. tree'[jr'[s].start] = tree[jr[s].start]
    BY <1>0, <2>2, <2>3
  <2> QED BY <2>1, <2>3, <2>4 DEF ActiveIn, One
<1>5. CASE Rotates(s)
  <2>1. PICK o \in Tokens : jr'[s] = [jr[s] EXCEPT !.own = o]
    BY <1>5 DEF Rotates
  <2>2. jr[s] # None /\ jr[s] \in Journals
    BY <1>0, <1>5 DEF Rotates
  <2> QED BY <1>1, <2>1, <2>2, RotatedFields
<1>6. CASE Advances(s)
  <2>1. PICK st \in {"sealed", "push_pending", "completed"} :
          jr'[s] = [jr[s] EXCEPT !.st = st]
    BY <1>6 DEF Advances
  <2>2. jr[s] # None /\ jr[s] \in Journals /\ jr[s].st \in Pending
    BY <1>0, <1>6 DEF Advances, JState, Pending
  <2> QED BY <1>1, <2>1, <2>2, AdvancedFields
<1>7. CASE Retires(s)
  <2>1. PICK why \in Whys : jr'[s] = Cancelled(jr[s], why)
    BY <1>7 DEF Retires
  <2>2. jr[s] \in Journals
    BY <1>0, <1>7 DEF Retires, JState
  <2>3. jr'[s].st = "cancelled"
    BY <2>1, <2>2, RetiredFields
  <2> QED BY <2>3 DEF Pending
<1> QED BY <1>2, <1>3, <1>4, <1>5, <1>6, <1>7, JournalMoves DEF JournalMove

LEMMA RepairStage ==
  ASSUME [Next]_vars, pass' = "repair"
  PROVE  PassReconciles \/ (pass = "repair" /\ left' \subseteq left)
<1> USE DEF sched
<1>1. CASE BoardStep \/ OpReleases \/ LeaseExpires \/ UNCHANGED vars
  BY <1>1 DEF vars, BoardStep, OpReleases, LeaseExpires
<1>2. CASE PassNext
  BY <1>2 DEF PassNext, Executes, PassRetires, PassPlans, PassGates,
     PassReports, PassPlansBranch, PassRepairs, PassReleases, PassRelinks,
     PassDecides
<1>3. CASE WorkerNext
  BY <1>3 DEF WorkerNext, PrepareFresh, RecordLaunch, Register, EnableGit,
     ResumeKnown, ResumeRefused, WorkerSettles, Abandon, RowRecovered
<1>4. CASE AgentNext
  BY <1>4 DEF AgentNext, CodexExits, AgentActivates, AgentSeals
<1>5. CASE UserNext
  <2>1. ASSUME NEW t \in Tasks, NEW e \in board[t], NEW kind, UserEnds(kind, t, e)
        PROVE  UNCHANGED <<pass, left>>
    BY <2>1 DEF UserEnds
  <2>2. CASE Executes("user")
    BY <2>2 DEF Executes
  <2>3. CASE ~Executes("user") /\ ~Ends
    BY <1>5, <2>3 DEF UserNext, Ends, UserCommits, UserSwitches, UserSetsMode,
       UserDeclines, UserStops, UserResumes, UserPlans, CancelOrphan, UserAdds,
       UserUnlinks
  <2> QED BY <2>1, <2>2, <2>3 DEF Ends
<1>6. CASE FaultNext
  BY <1>6 DEF FaultNext, UserDies, PassDies, WorkerDies, Rebuild
<1> QED BY <1>1, <1>2, <1>3, <1>4, <1>5, <1>6 DEF Next

LEMMA LeftBoundStep ==
  ASSUME JournalInv, [Next]_vars
  PROVE  LeftBound'
<1>0. /\ LeftBound /\ left \subseteq Sessions /\ left' \subseteq Sessions
      /\ jr \in [Sessions -> Journals \cup {None}]
      /\ None \notin Journals /\ None \notin Tasks
  BY Scene, TypesStep DEF JournalInv, Types, GitTypes, PassTypes, RegistryTypes
<1> SUFFICES ASSUME pass' = "repair", NEW s \in left'
             PROVE  jr'[s] # None /\ jr'[s].task # None
  BY DEF LeftBound
<1>1. s \in Sessions /\ jr[s] # None /\ jr[s].task # None
  <2>1. CASE pass = "repair" /\ left' \subseteq left
    BY <1>0, <2>1 DEF LeftBound
  <2>2. CASE PassReconciles
    BY <1>0, <2>2 DEF PassReconciles, JState, Unbound
  <2> QED BY <2>1, <2>2, RepairStage
<1>2. jr[s] \in Journals
  BY <1>0, <1>1
<1>3. ASSUME NEW k \in Journals, k.task # None, jr'[s] = k
      PROVE  jr'[s] # None /\ jr'[s].task # None
  BY <1>0, <1>3
<1>4. CASE jr'[s] = jr[s]
  BY <1>1, <1>4
<1>5. CASE Opens(s)
  BY <1>1, <1>5 DEF Opens
<1>6. CASE Binds(s)
  <2>1. PICK t \in Tasks : jr'[s] = [jr[s] EXCEPT !.task = t]
    BY <1>6 DEF Binds
  <2> QED BY <1>0, <1>2, <1>3, <2>1, BoundFields
<1>7. CASE Rotates(s)
  <2>1. PICK o \in Tokens : jr'[s] = [jr[s] EXCEPT !.own = o]
    BY <1>7 DEF Rotates
  <2> QED BY <1>1, <1>2, <1>3, <2>1, RotatedFields
<1>8. CASE Advances(s)
  <2>1. PICK st \in {"sealed", "push_pending", "completed"} :
          jr'[s] = [jr[s] EXCEPT !.st = st]
    BY <1>8 DEF Advances
  <2> QED BY <1>1, <1>2, <1>3, <2>1, AdvancedFields
<1>9. CASE Retires(s)
  <2>1. PICK why \in Whys : jr'[s] = Cancelled(jr[s], why)
    BY <1>9 DEF Retires
  <2> QED BY <1>1, <1>2, <1>3, <2>1, RetiredFields
<1> QED BY <1>1, <1>4, <1>5, <1>6, <1>7, <1>8, <1>9, JournalMoves
        DEF JournalMove

LEMMA ResumedOpenStep ==
  ASSUME JournalInv, [Next]_vars
  PROVE  ResumedOpen'
<1>0. /\ Types /\ ClosedEnded /\ ResumedOpen
      /\ wk # None => wk \in Workers(1..MaxRuns)
      /\ board \in [Tasks -> SUBSET Entries]
  BY DEF JournalInv, Types, GitTypes, RunTypes, BoardStates
<1> SUFFICES ASSUME wk' # None, wk'.at = "start", wk'.s # None, wk'.sel # "todo"
             PROVE  wk'.want = wk'.s /\ wk'.s \notin closed'
  BY DEF ResumedOpen
<1>1. CASE PassDecides /\ wk' # wk
  <2>1. /\ wk'.want = wk'.s
        /\ wk'.s \in GitFirst \/ wk'.s \in Queued \/ InterruptedDoing(wk'.s)
    BY <1>0, <1>1, Dispatched
  <2>2. \A s \in closed : s \notin GitFirst /\ s \notin Queued
                          /\ ~InterruptedDoing(s)
    BY <1>0 DEF ClosedEnded, Ended, GitFirst, Sealed, Queued, InterruptedDoing,
       JState, NoRow
  <2> QED BY <1>1, <2>1, <2>2 DEF PassDecides
<1>2. ASSUME wk # None, wk.at = "start", wk'.s = wk.s, wk'.sel = wk.sel,
             wk'.want = wk.want
      PROVE  wk'.want = wk'.s /\ wk'.s \notin closed'
  <2>1. wk.want = wk.s /\ wk.s \notin closed
    BY <1>0, <1>2 DEF ResumedOpen
  <2>2. CASE closed' \subseteq closed
    BY <1>2, <2>1, <2>2
  <2>3. ASSUME NEW t \in Tasks, NEW e \in board[t], NEW kind, UserEnds(kind, t, e)
        PROVE  wk'.s \notin closed'
    <3>1. closed' = closed \/ (SessionIdle(e.link) /\ closed' = closed \cup {e.link})
      BY <1>2, <2>3 DEF UserEnds, ProjectIdle
    <3>2. SessionIdle(e.link) => wk.want # e.link
      BY <1>2 DEF SessionIdle
    <3> QED BY <1>2, <2>1, <3>1, <3>2
  <2>4. CASE Recovers
    BY <1>2, <2>2, <2>4 DEF Recovers, Executes, CanExecute, BeginIdle
  <2>5. CASE \E s \in Sessions : UserResumes(s)
    BY <2>2, <2>5 DEF UserResumes
  <2> QED BY <1>2, <2>1, <2>2, <2>3, <2>4, <2>5, Footprints
          DEF ClosedWriters, Ends
<1>3. CASE wk' = wk
  BY <1>2, <1>3
<1>4. CASE wk # None /\ wk' = [wk EXCEPT !.up = FALSE]
  <2>1. /\ wk'.at = wk.at /\ wk'.s = wk.s /\ wk'.sel = wk.sel
        /\ wk'.want = wk.want
    BY <1>0, <1>4 DEF Workers
  <2> QED BY <1>2, <1>4, <2>1
<1>5. CASE wk # None /\ wk' = [wk EXCEPT !.at = "live"]
  BY <1>0, <1>5 DEF Workers
<1>6. CASE wk # None /\ wk' = [wk EXCEPT !.at = "bound", !.start = tip'[branch],
                               !.branch = branch]
  BY <1>0, <1>6 DEF Workers
<1>7. ASSUME NEW s \in Sessions, WorkerUp("live"), wk' = [wk EXCEPT !.s = s]
      PROVE  FALSE
  BY <1>0, <1>7 DEF WorkerUp, Workers
<1> QED BY <1>1, <1>3, <1>4, <1>5, <1>6, <1>7, WorkerMoves DEF WorkerUp

\* The row of an ended attempt stays, or is put down once more.
LEMMA ClosedRow ==
  ASSUME JournalInv, [Next]_vars, NEW s \in closed, s \in closed'
  PROVE  ctl'[s] = ctl[s] \/ ctl'[s].st = "stopped"
<1> DEFINE Goal == ctl'[s] = ctl[s] \/ ctl'[s].st = "stopped"
<1>0. /\ Types /\ WorkerHasRow /\ ResumedOpen /\ ClosedEnded
      /\ ctl \in [Sessions -> Rows] /\ s \in Sessions /\ None \notin Sessions
      /\ wk # None => wk \in Workers(1..MaxRuns)
      /\ board \in [Tasks -> SUBSET Entries]
  BY Scene DEF JournalInv, Types, GitTypes, RegistryTypes, RunTypes, BoardStates
<1>1. /\ ctl[s].st = "stopped" \/ ctl[s] = NoRow
      /\ jr[s] = None \/ jr[s].st = "cancelled"
      /\ ~(jr[s] = None /\ ctl[s] = NoRow)
  BY <1>0 DEF ClosedEnded, Ended, NoRow
<1>2. /\ ctl[s].st \in {"none", "stopped"} /\ JState(s) \in {"none", "cancelled"}
  BY <1>1 DEF NoRow, JState
<1>3. ASSUME NEW x \in Sessions \cup {None}, NEW row,
             ctl' = [ctl EXCEPT ![x] = row], x # s
      PROVE  Goal
  BY <1>0, <1>3
<1>4. ASSUME NEW x \in Sessions, UserStops(x) \/ UserResumes(x) PROVE Goal
  BY <1>0, <1>2, <1>3, <1>4 DEF UserStops, UserResumes, Row
<1>5. ASSUME NEW x \in Sessions, Register(x) PROVE Goal
  <2>1. x # s
    BY <1>1, <1>5 DEF Register
  <2> QED BY <1>3, <1>5, <2>1 DEF Register, Row
<1>6. CASE ResumeKnown
  <2>1. WorkerUp("start") /\ Refusal(wk.s) = None /\ Row(wk.s, "running", wk.run)
    BY <1>6 DEF ResumeKnown
  <2>2. wk.s # s
    BY <1>0, <2>1, RefusalFacts, StartsOpen
  <2>3. wk.s \in Sessions \cup {None}
    BY <1>0, <2>1 DEF WorkerUp, Workers
  <2> QED BY <1>3, <2>1, <2>2, <2>3 DEF Row
<1>7. ASSUME NEW ok \in BOOLEAN, WorkerSettles(ok) PROVE Goal
  <2>1. WorkerUp("live")
    BY <1>7 DEF WorkerSettles
  <2>2. wk.s # s
    BY <1>0, <1>2, <2>1 DEF WorkerUp, WorkerHasRow
  <2>3. wk.s \in Sessions \cup {None}
    BY <1>0, <2>1 DEF WorkerUp, Workers
  <2>4. \/ ctl' = ctl \/ Row(wk.s, "stopped", wk.run)
        \/ Row(wk.s, "resume", wk.run) \/ ClearRow(wk.s)
    BY <1>7 DEF WorkerSettles
  <2> QED BY <1>3, <2>2, <2>3, <2>4 DEF Row, ClearRow
<1>8. ASSUME NEW old \in BOOLEAN, Rebuild(old) PROVE Goal
  <2>1. ctl'[s] = IF ctl[s].st = "none" THEN NoRow
                  ELSE [st |-> "stopped", tok |-> None]
    BY <1>0, <1>2, <1>8 DEF Rebuild
  <2> QED BY <1>1, <2>1
<1>9. ASSUME NEW x \in Sessions, RowRecovered(x) PROVE Goal
  <2>1. x # s
    BY <1>2, <1>9 DEF RowRecovered
  <2> QED BY <1>3, <1>9, <2>1 DEF RowRecovered, Row
<1>10. ASSUME NEW x \in Sessions, CancelOrphan(x) PROVE Goal
  <2>1. x # s
    BY <1>2, <1>10 DEF CancelOrphan, Unbound
  <2> QED BY <1>3, <1>10, <2>1 DEF CancelOrphan, ClearRow
<1>11. CASE PassRetires
  <2>1. ~Abandoned(s) /\ ~Superseded(s)
    BY <1>2 DEF Abandoned, Superseded, Replaced, Unbound
  <2> QED BY <1>0, <1>11, <2>1 DEF PassRetires
<1>12. CASE PassReconciles
  <2>1. PICK f : /\ f[s] \in Reconciled(jr[s])
                 /\ ctl'[s] = IF jr[s] # f[s] /\ f[s].st = "completed"
                                 /\ ctl[s].tok = Queue
                              THEN NoRow ELSE ctl[s]
    BY <1>0, <1>12 DEF PassReconciles
  <2>2. f[s] = jr[s]
    BY <1>1, <2>1, ReconciledFacts
  <2> QED BY <2>1, <2>2
<1>13. CASE PassGates
  <2>1. Requeued(s) = ctl[s]
    BY <1>2 DEF Requeued
  <2> QED BY <1>0, <1>13, <2>1 DEF PassGates
<1>14. CASE PassDecides
  <2>1. s \notin GitFirst /\ s \notin Queued
    BY <1>2 DEF GitFirst, Sealed, Queued
  <2>2. \/ ctl' = ctl
        \/ \E x \in GitFirst \cup Queued :
             Row(x, "resume", Queue) \/ ClearRow(x)
    BY <1>14 DEF PassDecides
  <2>3. GitFirst \cup Queued \subseteq Sessions
    BY DEF GitFirst, Sealed, Queued
  <2> QED BY <1>3, <2>1, <2>2, <2>3 DEF Row, ClearRow
<1>15. CASE Ends
  <2>1. ASSUME NEW t \in Tasks, NEW e \in board[t], NEW kind, UserEnds(kind, t, e)
        PROVE  Goal
    <3>1. CASE ctl' = ctl
      BY <3>1
    <3>2. CASE ctl' # ctl
      <4>1. /\ JState(e.link) = "working"
            /\ Row(e.link, "stopped", None) \/ ClearRow(e.link)
        BY <2>1, <3>2 DEF UserEnds
      <4>2. e.link # s /\ e.link \in Sessions \cup {None}
        BY <1>0, <1>2, <4>1 DEF Entries
      <4> QED BY <1>3, <4>1, <4>2 DEF Row, ClearRow
    <3> QED BY <3>1, <3>2
  <2> QED BY <1>15, <2>1 DEF Ends
<1>16. CASE Recovers
  <2>1. PICK w \in {"user", "pass"} : Executes(w)
    BY <1>16 DEF Recovers
  <2>2. ctl' = ctl \/ Row(plan[w].s, "stopped", RecTok(plan[w].run))
    BY <2>1 DEF Executes
  <2> QED BY <1>0, <2>2 DEF Row
<1> QED BY <1>4, <1>5, <1>6, <1>7, <1>8, <1>9, <1>10, <1>11, <1>12, <1>13,
        <1>14, <1>15, <1>16, Footprints DEF RowWriters

LEMMA ClosedEndedStep ==
  ASSUME JournalInv, [Next]_vars
  PROVE  ClosedEnded'
<1>0. /\ Types /\ ClosedEnded /\ None \notin Journals /\ None \notin Sessions
      /\ ctl \in [Sessions -> Rows] /\ jr \in [Sessions -> Journals \cup {None}]
      /\ closed \subseteq Sessions /\ board \in [Tasks -> SUBSET Entries]
      /\ closed' \subseteq Sessions
      /\ jr' \in [Sessions -> Journals \cup {None}]
  BY Scene, RegistryTypesStep, SceneKept
     DEF JournalInv, Types, GitTypes, RegistryTypes, BoardStates
<1> SUFFICES ASSUME NEW s \in closed' PROVE Ended(s)'
  BY DEF ClosedEnded
<1> DEFINE Goal == Ended(s)'
<1>1. s \in Sessions
  BY <1>0
<1>2. CASE s \in closed
  <2>1. /\ Ended(s) /\ (jr[s] = None \/ jr[s].st = "cancelled")
        /\ JState(s) \in {"none", "cancelled"}
    BY <1>0, <1>2 DEF ClosedEnded, Ended, JState
  <2>2. ctl'[s] = ctl[s] \/ ctl'[s].st = "stopped"
    BY <1>2, ClosedRow
  <2>3. ASSUME jr'[s] = jr[s] PROVE Goal
    BY <2>1, <2>2, <2>3 DEF Ended
  <2>4. CASE Rotates(s)
    <3>1. PICK o \in Tokens : jr'[s] = [jr[s] EXCEPT !.own = o]
      BY <2>4 DEF Rotates
    <3>3. jr'[s] \in Journals /\ jr'[s].st = jr[s].st /\ jr'[s].why = jr[s].why
      BY <1>0, <1>1, <2>4, <3>1, RotatedFields DEF Rotates
    <3> QED BY <1>0, <2>1, <2>2, <2>4, <3>3 DEF Ended, Rotates
  <2>5. CASE Retires(s)
    <3>1. ctl'[s].st = "stopped" /\ jr[s] \in Journals
      BY <1>0, <1>1, <2>1, <2>5 DEF Retires, JState
    <3>2. jr'[s].st = "cancelled"
      BY <2>5, <3>1, RetiredFields DEF Retires
    <3> QED BY <3>1, <3>2 DEF Ended
  <2>6. ~Opens(s) /\ ~Binds(s) /\ ~Advances(s)
    BY <1>2, <2>1 DEF Opens, Binds, Advances
  <2> QED BY <1>1, <2>3, <2>4, <2>5, <2>6, JournalMoves DEF JournalMove
<1>3. CASE s \notin closed
  <2>1. CASE Ends
    <3>0. PICK t \in Tasks : \E e \in board[t] :
            UserEnds("complete", t, e) \/ UserEnds("delete", t, e)
      BY <2>1 DEF Ends
    <3>1. PICK e \in board[t], kind \in {"complete", "delete"} :
            UserEnds(kind, t, e)
      BY <3>0
    <3>2. /\ s = e.link /\ JState(s) = "working"
          /\ jr' = [jr EXCEPT ![s] = Cancelled(@, kind)]
          /\ IF kind = "delete" THEN Row(s, "stopped", None) ELSE ClearRow(s)
      BY <1>3, <3>1 DEF UserEnds
    <3>3. jr[s] \in Journals /\ jr'[s] = Cancelled(jr[s], kind)
      BY <1>0, <1>1, <3>2 DEF JState
    <3>4. jr'[s] \in Journals /\ jr'[s].st = "cancelled" /\ jr'[s].why = kind
      BY <3>3, RetiredFields DEF Whys
    <3>5. CASE kind = "delete"
      BY <1>0, <1>1, <3>2, <3>4, <3>5 DEF Row, Ended
    <3>6. CASE kind = "complete"
      BY <1>0, <1>1, <3>2, <3>4, <3>6 DEF ClearRow, Ended
    <3> QED BY <3>5, <3>6
  <2>2. CASE Recovers
    <3>1. PICK w \in {"user", "pass"} : Executes(w)
      BY <2>2 DEF Recovers
    <3> DEFINE p == plan[w]
    <3>2. /\ s = p.s /\ CanExecute(p) /\ Row(s, "stopped", RecTok(p.run))
          /\ IF p.j = None \/ (p.restart /\ p.j.st = "cancelled") THEN jr' = jr
             ELSE jr' = [jr EXCEPT ![s] = Cancelled(@, IF p.restart
                                                  THEN "restart" ELSE "branch")]
      BY <1>3, <3>1 DEF Executes
    <3>3. ctl'[s].st = "stopped" /\ jr[s] = p.j
      BY <1>0, <1>1, <3>2 DEF CanExecute, BeginJournal, Row
    <3> HIDE DEF p
    <3>4. CASE p.j = None \/ (p.restart /\ p.j.st = "cancelled")
      BY <3>2, <3>3, <3>4 DEF Ended
    <3>5. CASE ~(p.j = None \/ (p.restart /\ p.j.st = "cancelled"))
      <4>1. PICK why \in Whys : jr' = [jr EXCEPT ![s] = Cancelled(@, why)]
        BY <3>2, <3>5 DEF Whys
      <4>2. jr[s] \in Journals /\ jr'[s] = Cancelled(jr[s], why)
        BY <1>0, <1>1, <3>3, <3>5, <4>1
      <4>3. jr'[s].st = "cancelled"
        BY <4>2, RetiredFields
      <4> QED BY <3>3, <4>3 DEF Ended
    <3> QED BY <3>4, <3>5
  <2>3. CASE \E x \in Sessions : UserResumes(x)
    BY <1>3, <2>3 DEF UserResumes
  <2> QED BY <1>3, <2>1, <2>2, <2>3, Footprints DEF ClosedWriters
<1> QED BY <1>2, <1>3

-----------------------------------------------------------------------------
(* The invariant.                                                          *)

LEMMA InitInv ==
  ASSUME Init
  PROVE  JournalInv
<1>0. env \in Scenarios
  BY DEF Init
<1>1. /\ First \subseteq Tasks /\ GitOn \in BOOLEAN /\ MaxRuns \in Nat
      /\ MaxHist \in Nat /\ MaxCommits \in Nat /\ MaxCommits > 0
  BY <1>0, Scene
<1>2. GitTypes
  <2>1. board \in BoardStates
    BY <1>1 DEF Init, BoardStates, Entries, Entry, Active
  <2>2. tree = <<board>> /\ tip = [b \in Branches |-> 1] /\ branch \in Branches
    BY DEF Init, Branches
  <2>3. tree \in Seq(BoardStates) /\ Len(tree) = 1
    BY <2>1, <2>2
  <2> QED BY <1>0, <1>1, <2>1, <2>2, <2>3 DEF GitTypes
<1>3. RegistryTypes
  <2>1. hist \in Seq(Reports) /\ Len(hist) = 0
    BY DEF Init
  <2>2. /\ mode \in BOOLEAN /\ smode \in [Sessions -> {"new", "off", "commit"}]
        /\ ctl \in [Sessions -> Rows] /\ closed = {}
        /\ jr = [s \in Sessions |-> None] /\ launch = None /\ lease = None
    BY <1>1 DEF Init, Rows, NoRow
  <2> QED BY <1>1, <2>1, <2>2 DEF RegistryTypes
<1>4. RunTypes
  BY <1>1 DEF Init, RunTypes
<1>5. PassTypes
  BY DEF Init, PassTypes
<1>6. /\ LockHeld /\ CodexHasRow /\ WorkerHasRow /\ BoundaryKept /\ LeftBound
      /\ PlansSound /\ ClosedEnded /\ ResumedOpen
  BY DEF Init, LockHeld, CodexHasRow, WorkerHasRow, BoundaryKept, LeftBound,
     PlansSound, ClosedEnded, ResumedOpen
<1>7. JournalCoversTask
  BY DEF Init, JournalCoversTask, IsPending, JState, Pending
<1> QED BY <1>2, <1>3, <1>4, <1>5, <1>6, <1>7 DEF JournalInv, Types

LEMMA StepInv ==
  ASSUME JournalInv, [Next]_vars
  PROVE  JournalInv'
BY TypesStep, LockHeldStep, CodexHasRowStep, WorkerHasRowStep,
   BoundaryKeptStep, JournalCoversTaskStep, LeftBoundStep, PlansSoundStep,
   ClosedEndedStep, ResumedOpenStep DEF JournalInv

\* Whatever the user, the agent, the scheduler and the faults do, in every
\* order: a Codex that has announced its session is the one its row names, an
\* unannounced one keeps its worker and its boundary, a command under the board
\* lock has its entry, every plan is one its author may have, and an attempt
\* that was ended has no open journal.
THEOREM JournalInvariant == Spec => []JournalInv
BY InitInv, StepInv, PTL DEF Spec

\* Every table, the board and the commits keep their types and bounds.
THEOREM JournalTypes == Spec => []TypeOK
<1>1. JournalInv => TypeOK
  BY DEF JournalInv, Types, GitTypes, RegistryTypes, RunTypes, PassTypes,
     BoardStates, TypeOK
<1> QED BY <1>1, JournalInvariant, PTL

\* The commit an attempt starts from has its task once, in Todo or Doing, and
\* a Codex that has not announced its session still has the boundary its
\* journal is created from (managed_git.rs, sessions_runs.rs).
THEOREM AttemptsCovered == Spec => [](JournalCoversTask /\ BoundaryOfLive)
<1>1. JournalInv => JournalCoversTask /\ BoundaryOfLive
  BY DEF JournalInv, BoundaryKept, BoundaryOfLive
<1> QED BY <1>1, JournalInvariant, PTL

-----------------------------------------------------------------------------
(* What a step never does.                                                 *)

LEMMA OnlyRetires ==
  ASSUME JournalInv, [Next]_vars, NEW s \in Sessions, JState(s) # "none",
         jr'[s].st = "cancelled"
  PROVE  JState(s) = "cancelled" \/ Retires(s)
<1>0. jr[s] \in Journals /\ JState(s) = jr[s].st
  BY DEF JournalInv, Types, RegistryTypes, JState
<1>1. CASE jr'[s] = jr[s]
  BY <1>0, <1>1
<1>2. CASE Opens(s)
  BY <1>2 DEF Opens
<1>3. CASE Binds(s)
  <2>1. PICK t \in Tasks : jr'[s] = [jr[s] EXCEPT !.task = t]
    BY <1>3 DEF Binds
  <2>2. jr'[s].st = jr[s].st
    BY <1>0, <2>1, BoundFields
  <2> QED BY <1>0, <2>2
<1>4. CASE Rotates(s)
  <2>1. PICK o \in Tokens : jr'[s] = [jr[s] EXCEPT !.own = o]
    BY <1>4 DEF Rotates
  <2>2. jr'[s].st = jr[s].st
    BY <1>0, <2>1, RotatedFields
  <2> QED BY <1>0, <2>2
<1>5. CASE Advances(s)
  <2>1. PICK st \in {"sealed", "push_pending", "completed"} :
          jr'[s] = [jr[s] EXCEPT !.st = st]
    BY <1>5 DEF Advances
  <2>2. jr'[s].st = st
    BY <1>0, <2>1, AdvancedFields
  <2> QED BY <2>2
<1> QED BY <1>1, <1>2, <1>3, <1>4, <1>5, JournalMoves DEF JournalMove

\* No journal is retired while a Codex runs in its session: the worker has
\* reaped its Codex, and everyone else finds the row at rest.
THEOREM RetiresNoLiveJournal == Spec => NoRetireUnderCodex
<1>1. ASSUME JournalInv, [Next]_vars, NEW c \in codex, c.s # None, IsPending(c.s)
      PROVE  jr'[c.s].st # "cancelled"
  <2>1. c.s \in Sessions
    BY <1>1 DEF JournalInv, Types, RunTypes
  <2>2. JState(c.s) \notin {"none", "cancelled"}
    BY <1>1 DEF IsPending, Pending
  <2>3. ~Retires(c.s)
    BY <1>1 DEF Retires, NoCodex
  <2> QED BY <1>1, <2>1, <2>2, <2>3, OnlyRetires
<1>2. JournalInv /\ [Next]_vars =>
        [\A c \in codex : c.s # None =>
           ~(IsPending(c.s) /\ jr'[c.s].st = "cancelled")]_vars
  BY <1>1
<1> QED BY <1>2, JournalInvariant, PTL DEF Spec, NoRetireUnderCodex

\* A journal whose commit is verified is never retired, and a sealed one only
\* off its branch: every fence compares the row it was reviewed with.
THEOREM FinishedWorkIsKept == Spec => WorkIsKept
<1>1. ASSUME JournalInv, [Next]_vars, NEW s \in Sessions, JState(s) # "none",
             jr'[s].st = "cancelled"
      PROVE  \/ JState(s) \in {"working", "cancelled"}
             \/ JState(s) = "sealed" /\ jr[s].branch # branch
  BY <1>1, OnlyRetires DEF Retires
<1>2. JournalInv /\ [Next]_vars =>
        [\A s \in Sessions :
           JState(s) # "none" /\ jr'[s].st = "cancelled" =>
           \/ JState(s) \in {"working", "cancelled"}
           \/ JState(s) = "sealed" /\ jr[s].branch # branch]_vars
  BY <1>1
<1> QED BY <1>2, JournalInvariant, PTL DEF Spec, WorkIsKept

\* No Codex starts in a session whose attempt was ended and not resumed.
THEOREM EndedStaysEnded == Spec => NoUnaskedRun
<1>1. ASSUME JournalInv, [Next]_vars, NEW c \in codex' \ codex
      PROVE  c.s \notin closed
  <2>1. CASE c.s = None
    BY <1>1, <2>1, Scene DEF JournalInv, Types, GitTypes, RegistryTypes
  <2>2. CASE c.s # None
    BY <1>1, <2>2, NewCodex
  <2> QED BY <2>1, <2>2
<1>2. JournalInv /\ [Next]_vars => [\A c \in codex' \ codex : c.s \notin closed]_vars
  BY <1>1
<1> QED BY <1>2, JournalInvariant, PTL DEF Spec, NoUnaskedRun

\* No death between the writes of a move, an activation, a repair or a
\* recovery takes the last entry of a task off the board.
THEOREM TasksAreKept == Spec => TaskIsKept
<1>1. ASSUME JournalInv, [Next]_vars, NEW t \in Tasks, board[t] # {},
             board'[t] = {}
      PROVE  \/ branch' # branch
             \/ op # None /\ op.by = "user" /\ op.todo[1] = "remove"
  <2>0. /\ Types /\ LockHeld /\ board \in [Tasks -> SUBSET Entries]
        /\ branch \in Branches
    BY <1>1 DEF JournalInv, Types, GitTypes, BoardStates
  <2>1. CASE UserSwitches
    BY <2>0, <2>1 DEF UserSwitches, Branches
  <2>2. ASSUME NEW x \in Tasks, UserAdds(x) PROVE FALSE
    BY <1>1, <2>0, <2>2 DEF UserAdds
  <2>3. ASSUME NEW x \in Tasks, NEW e \in board[x], UserUnlinks(x, e) PROVE FALSE
    BY <1>1, <2>0, <2>3 DEF UserUnlinks
  <2>4. CASE BoardStep
    <3>0. /\ op # None /\ op.t \in Tasks /\ op.e \in Entries
      BY <2>0, <2>4, BoardStepTypes
    <3>1. ASSUME NEW old, NEW new, Put(old, new)
          PROVE  op.t = t /\ new = {} /\ board[t] \subseteq old
      BY <1>1, <2>0, <3>0, <3>1 DEF Put
    <3>n. ASSUME NEW old, NEW x, Put(old, {x}) PROVE FALSE
      BY <3>1, <3>n
    <3>2. (At("drop") \/ At("remove")) /\ Put({op.e}, {})
      <4>1. \/ \E old, x : Put(old, {x})
            \/ (At("drop") \/ At("remove")) /\ Put({op.e}, {})
        BY Zenon, <2>4 DEF BoardStep
      <4> QED BY <3>n, <4>1
    <3>3. op.t = t /\ board[t] \subseteq {op.e}
      BY <3>1, <3>2
    <3>4. ~At("drop")
      <4>1. ASSUME At("drop") PROVE FALSE
        <5>1. MovedTo(op) \in board[t] /\ op.to # op.e.col
          BY <2>0, <3>0, <3>3, <4>1 DEF LockHeld
        <5>2. MovedTo(op).col = op.to
          BY <3>0 DEF MovedTo, Entries
        <5> QED BY <3>3, <5>1, <5>2
      <4> QED BY <4>1
    <3>5. op.by = "user"
      BY <2>0, <3>0, <3>2, <3>3, <3>4 DEF LockHeld
    <3> QED BY <3>0, <3>2, <3>4, <3>5 DEF At
  <2> QED BY <1>1, <2>1, <2>2, <2>3, <2>4, Footprints DEF BoardWriters
<1>2. JournalInv /\ [Next]_vars =>
        [\A t \in Tasks : board[t] # {} /\ board'[t] = {} =>
           \/ branch' # branch
           \/ op # None /\ op.by = "user" /\ op.todo[1] = "remove"]_vars
  BY <1>1
<1> QED BY <1>2, JournalInvariant, PTL DEF Spec, TaskIsKept

=============================================================================
