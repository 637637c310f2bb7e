-------------------------- MODULE GitRecoveryProofs ---------------------------
(***************************************************************************)
(* What a recovery of GitJournal that was interrupted leaves behind, in a  *)
(* project whose Git mode was on from the start and stays, with the        *)
(* registry that recorded the runs: one task, of a single entry on a board *)
(* with a file per task; and an entry that is the only one can be          *)
(* recovered again or restarted unless the row of a dead worker's run has  *)
(* lost the name of the conversation.                                      *)
(*                                                                         *)
(* The argument is about what the plan looks for.  Every entry that names  *)
(* a session, on the board, in a command that has yet to write and in      *)
(* every commit that a checkout can bring back, belongs to the task its    *)
(* journal is bound to; with a file per task that is one entry.  A session *)
(* that has a journal has a worker or a run on record, and a recovery      *)
(* begins without a worker: the run is there, under the name of the        *)
(* session or, where its worker died, without one.  And the token a        *)
(* recovery leaves names a recorded run, which the plan accepts again.     *)
(***************************************************************************)
EXTENDS GitAttemptProofs, WellFoundedInduction

\* Sessions have journals, and the registry keeps its runs.
GitStays == GitOn /\ Inputs \cap {"mode", "rebuild"} = {}

-----------------------------------------------------------------------------
(* The inductive invariant, on top of AttemptInv.                          *)

\* Nobody works without a journal.
AllManaged ==
  /\ mode /\ (wk # None => wk.git)
  /\ \A s \in Sessions : smode[s] # "off"

\* The board and every board that a checkout can bring back.
Boards == {board} \cup {tree[c] : c \in 1..Len(tree)}

\* An entry names a session only if its journal is bound to the task.
NamesTask(t, e) == e.link # None => jr[e.link] # None /\ jr[e.link].task = t
LinksNamed ==
  \A b \in Boards, t \in Tasks : \A e \in b[t] : NamesTask(t, e)

\* So does the entry of a command that still has to write, and the session that
\* it links.
CommandNamed ==
  op # None /\ op.todo # <<"release">> =>
    /\ NamesTask(op.t, op.e)
    /\ At("attach") => op.s \in Sessions /\ jr[op.s] # None /\ jr[op.s].task = op.t

\* A task is one file.
OneEntry == \A b \in Boards, t \in Tasks : \A e, f \in b[t] : e = f

\* A command that still has to write works on the entry that is there.
OnEntry ==
  op # None /\ op.todo # <<"release">> =>
    /\ op.e \in board[op.t] /\ ~Has(op.todo, "copy") /\ ~Has(op.todo, "drop")
    /\ Has(op.todo, "clean") => op.s \in Sessions /\ op.e.link = op.s
                                /\ op.to = "todo"
    /\ At("mark") => HasMove(op.todo) \/ op.e.col = "todo"
    /\ At("clean") => op.e.col = "todo"

\* A session with a journal has the worker, or a run of it is on record.
Had(s) == \E k \in 1..Len(hist) : hist[k].was = s
RunsRecorded ==
  \A s \in Sessions : jr[s] # None => (wk # None /\ wk.s = s) \/ Had(s)

\* The token of a recovery names a recorded run; the journal is retired, if
\* there is one, its session has a run on record, and when it was for a branch
\* the token's run is the session's own or the failed one of a worker that
\* never got to a session.
Shows(s, i) == \/ hist[i].s = s
               \/ hist[i].res \in Failed /\ hist[i].s = None
RecoveryShown ==
  \A s \in Sessions : \A i \in 1..MaxHist : ctl[s].tok = RecTok(i) =>
    /\ i <= Len(hist) /\ JState(s) \in {"none", "cancelled"}
    /\ jr[s] # None => Had(s)
    /\ JState(s) = "cancelled" /\ jr[s].why = "branch" => Shows(s, i)

\* A retired journal has no owner.
RetiredFreed == \A s \in Sessions : JState(s) = "cancelled" => jr[s].own = None

\* A reviewed recovery for a branch is about a run it may be about.
PlansShown ==
  \A w \in {"user", "pass"} :
    plan[w] # None /\ ~plan[w].restart =>
      /\ plan[w].run \in 1..Len(hist)
      /\ hist[plan[w].run].s \in {None, plan[w].s}

RecoveryInv == /\ AllManaged /\ LinksNamed /\ CommandNamed
               /\ Folder => OneEntry /\ OnEntry
               /\ RunsRecorded /\ RecoveryShown /\ RetiredFreed /\ PlansShown

-----------------------------------------------------------------------------
(* The newest of some runs is one of them.                                 *)

LEMMA NewestFacts ==
  ASSUME NEW n \in Nat, NEW S, S \subseteq 1..n
  PROVE  /\ Newest(S) = 0 <=> S = {}
         /\ S # {} => Newest(S) \in S /\ \A j \in S : j <= Newest(S)
<1>1. CASE S = {}
  BY <1>1 DEF Newest
<1>2. CASE S # {}
  <2> DEFINE T == {m \in Nat : \A j \in S : j <= m}
  <2>1. n \in T
    OBVIOUS
  <2>2. PICK m \in T : \A y \in T : ~(<<y, m>> \in OpToRel(<, Nat))
    <3>1. T # {} /\ T \subseteq Nat
      BY <2>1
    <3> HIDE DEF T
    <3> QED BY <3>1, NatLessThanWellFounded, WFMin
  <2>3. \A y \in T : ~(y < m)
    BY <2>2 DEF OpToRel
  <2>4. m \in S
    <3>1. SUFFICES ASSUME m \notin S PROVE FALSE
      OBVIOUS
    <3>2. \A j \in S : j < m /\ j \in Nat /\ j >= 1
      BY <3>1, <1>2
    <3>3. m >= 1
      <4>1. PICK j \in S : TRUE
        BY <1>2
      <4> QED BY <4>1, <3>2
    <3>4. m - 1 \in T
      BY <3>2, <3>3
    <3> QED BY <3>3, <3>4, <2>3
  <2>5. Newest(S) \in S /\ \A j \in S : j <= Newest(S)
    BY <2>4, <1>2 DEF Newest
  <2>6. Newest(S) # 0
    BY <2>5
  <2> QED BY <1>2, <2>5, <2>6
<1> QED BY <1>1, <1>2

-----------------------------------------------------------------------------
(* Journals and modes.                                                     *)

LEMMA ManagedAgent ==
  ASSUME JournalInv, AllManaged, NEW c \in codex, RunsIn(c)
  PROVE  c.s \in Sessions /\ Managed(c.s)
<1>1. c.s \in Sessions
  BY DEF JournalInv, Types, RunTypes, RunsIn
<1>2. smode[c.s] # "off" /\ smode[c.s] \in {"new", "off", "commit"} /\ mode
  BY <1>1 DEF AllManaged, JournalInv, Types, RegistryTypes
<1> QED BY <1>1, <1>2 DEF Managed

\* A session that has no mode yet, or is managed, is not given a journal late.
LEMMA NoLateJournal ==
  ASSUME JournalInv, AllManaged
  PROVE  ~EnableGit
<1>1. wk # None /\ wk.s # None => wk.s \in Sessions
  BY Scene DEF JournalInv, Types, GitTypes, RunTypes, Workers
<1> QED BY <1>1 DEF EnableGit, WorkerUp, AllManaged

LEMMA AllManagedStep ==
  ASSUME JournalInv, AllManaged, GitStays, [Next]_vars
  PROVE  AllManaged'
<1>0. ~UserSetsMode /\ \A old \in BOOLEAN : ~Rebuild(old)
  BY DEF GitStays, UserSetsMode, Rebuild
<1>1. mode' /\ \A s \in Sessions : smode'[s] # "off"
  <2>1. CASE UNCHANGED modes
    BY <2>1 DEF modes, AllManaged
  <2>2. ASSUME NEW s \in Sessions, Register(s)
        PROVE  mode' = mode /\ smode' = [smode EXCEPT ![s] = "commit"]
    BY <2>2 DEF Register, WorkerUp, AllManaged
  <2>3. CASE \E s \in Sessions : Register(s)
    BY <2>2, <2>3 DEF AllManaged, JournalInv, Types, RegistryTypes
  <2> QED BY <1>0, <2>1, <2>3, NoLateJournal, ModeFootprint DEF ModeWriters
<1>2. wk' # None => wk'.git
  <2>1. wk \in Workers(1..MaxRuns) \cup {None}
    BY DEF JournalInv, Types, RunTypes
  <2>2. ASSUME wk' # None, PassDecides, wk' # wk PROVE wk'.git
    BY <2>2 DEF PassDecides, Dispatch, AllManaged
  <2>3. ASSUME wk' # None, wk' # wk, ~PassDecides
        PROVE  wk # None /\ wk'.git = wk.git
    BY <2>1, <2>3, WorkerMoves DEF WorkerUp, Workers
  <2> QED BY <2>2, <2>3 DEF AllManaged
<1> QED BY <1>1, <1>2 DEF AllManaged

\* What a journal is bound to never changes.
LEMMA TaskKept ==
  ASSUME JournalInv, AllManaged, [Next]_vars, NEW s \in Sessions,
         jr[s] # None, jr[s].task # None
  PROVE  jr'[s] # None /\ jr'[s].task = jr[s].task
<1>0. jr[s] \in Journals /\ None \notin Journals
  BY Scene DEF JournalInv, Types, GitTypes, RegistryTypes
<1>1. CASE Binds(s)
  <2>1. PICK t \in Tasks, c \in codex : \E e \in board[t] :
          /\ c.s = s /\ AgentActivates(c, t, e)
          /\ jr'[s] = [jr[s] EXCEPT !.task = t]
    BY <1>1 DEF Binds
  <2>2. PICK e \in board[t] : AgentActivates(c, t, e)
    BY <2>1
  <2>3. Managed(s)
    BY <2>1, <2>2, ManagedAgent DEF AgentActivates
  <2>4. jr[s].task \in {None, t}
    BY <2>1, <2>2, <2>3 DEF AgentActivates
  <2> QED BY <1>0, <2>1, <2>4, BoundFields
<1>2. CASE Rotates(s)
  BY <1>0, <1>2, RotatedFields DEF Rotates
<1>3. CASE Advances(s)
  BY <1>0, <1>3, AdvancedFields DEF Advances
<1>4. CASE Retires(s)
  BY <1>0, <1>4, RetiredFields DEF Retires
<1>5. ~Opens(s)
  BY DEF Opens
<1> QED BY <1>1, <1>2, <1>3, <1>4, <1>5, JournalMoves DEF JournalMove

LEMMA NamedStays ==
  ASSUME JournalInv, AllManaged, [Next]_vars, NEW t \in Tasks,
         NEW e, e.link \in Sessions \cup {None}, NamesTask(t, e)
  PROVE  e.link # None => jr'[e.link] # None /\ jr'[e.link].task = t
<1>1. t # None
  BY Scene DEF JournalInv, Types, GitTypes
<1> QED BY <1>1, TaskKept DEF NamesTask

-----------------------------------------------------------------------------
(* Boards.                                                                 *)

\* A commit keeps the board of the worktree.
LEMMA BoardsMove ==
  ASSUME JournalInv, [Next]_vars
  PROVE  /\ \A b \in Boards' : b \in Boards \/ b = board'
         /\ \A b \in Boards : b \in BoardStates
<1>1. tree \in Seq(BoardStates) /\ board \in BoardStates
  BY DEF JournalInv, Types, GitTypes
<1>2. \A b \in Boards : b \in BoardStates
  BY <1>1 DEF Boards
<1>3. ASSUME NEW c \in 1..Len(tree') PROVE tree'[c] \in Boards
  <2>1. CASE UNCHANGED <<tree, tip>>
    BY <1>3, <2>1 DEF Boards
  <2>2. CASE Commits
    <3>1. tree' = Append(tree, board)
      BY <2>2 DEF Commits
    <3>2. tree'[c] = board \/ (c \in 1..Len(tree) /\ tree'[c] = tree[c])
      BY <1>1, <1>3, <3>1
    <3> QED BY <3>2 DEF Boards
  <2> QED BY <2>1, <2>2, TreeMoves
<1> QED BY <1>2, <1>3 DEF Boards

\* Outside a command the board gets a new task, the board of a branch, or
\* loses a link.
LEMMA BoardReplaced ==
  ASSUME JournalInv, [Next]_vars, ~BoardStep
  PROVE  \/ board' \in Boards
         \/ op = None /\ op' = op /\ \E t \in Tasks : \E e \in Entries :
              /\ board' = [board EXCEPT ![t] = {e}] /\ board[t] = {}
              /\ e.link = None
         \/ op = None /\ op' = op /\ \E t \in Tasks : \E e \in board[t] :
              board' = [board EXCEPT ![t] = (@ \ {e}) \cup {[e EXCEPT !.link = None]}]
<1>1. CASE board' = board
  BY <1>1 DEF Boards
<1>2. CASE UserSwitches
  <2>1. tip \in [Branches -> 1..Len(tree)]
    BY DEF JournalInv, Types, GitTypes
  <2>2. \A b \in Branches : tree[tip[b]] \in Boards
    BY <2>1 DEF Boards
  <2>3. board' = board \/ \E b \in Branches : board' = tree[tip[b]]
    BY <1>2 DEF UserSwitches, Branches
  <2> QED BY <2>2, <2>3 DEF Boards
<1>3. ASSUME NEW t \in Tasks, UserAdds(t)
      PROVE  /\ op = None /\ op' = op /\ board[t] = {}
             /\ board' = [board EXCEPT ![t] = {Entry("todo", None, FALSE)}]
  BY <1>3 DEF UserAdds
<1>4. Entry("todo", None, FALSE) \in Entries /\ Entry("todo", None, FALSE).link = None
  BY DEF Entry, Entries, Active
<1>5. ASSUME NEW t \in Tasks, NEW e \in board[t], UserUnlinks(t, e)
      PROVE  /\ op = None /\ op' = op
             /\ board' = [board EXCEPT ![t] = (@ \ {e}) \cup {[e EXCEPT !.link = None]}]
  BY <1>5 DEF UserUnlinks
<1> QED BY <1>1, <1>2, <1>3, <1>4, <1>5, Footprints DEF BoardWriters

\* Beside a command only those replace it that need the lock.
LEMMA BoardUnderOp ==
  ASSUME JournalInv, [Next]_vars, ~BoardStep, op # None
  PROVE  board' = board
<1>1. ~UserSwitches
  BY DEF UserSwitches
<1>2. \A t \in Tasks : ~UserAdds(t) /\ \A e \in board[t] : ~UserUnlinks(t, e)
  BY DEF UserAdds, UserUnlinks
<1> QED BY <1>1, <1>2, Footprints DEF BoardWriters

\* What a step of a command makes of the one entry it works on.
LEMMA StepWrites ==
  ASSUME JournalInv, OneEntry, OnEntry, BoardStep
  PROVE  /\ op # None /\ op.t \in Tasks /\ op.e \in Entries
         /\ op.e \in board[op.t]
         /\ \A t \in Tasks : t # op.t => board'[t] = board[t]
         /\ \/ At("attach") /\ board'[op.t] = {[op.e EXCEPT !.link = op.s]}
            \/ At("mark") /\ board'[op.t] = {[op.e EXCEPT !.stop = TRUE]}
            \/ At("rename") /\ board'[op.t] = {MovedTo(op)}
            \/ At("remove") /\ board'[op.t] = {}
            \/ /\ At("clean")
               /\ board'[op.t] = {Entry("todo", None, FALSE)}
<1>0. /\ op # None /\ op \in Commands /\ op.todo \in Todos
      /\ op.t \in Tasks /\ op.e \in Entries /\ Len(op.todo) \in Nat
      /\ op.s \in Sessions \cup {None}
  BY CommandOn
<1>1. ~At("release") /\ (op.todo[1] = "release" <=> At("release"))
  BY <1>0 DEF BoardStep, At
<1>2. op.todo # <<"release">>
  BY <1>0, <1>1
<1>3. op.e \in board[op.t] /\ ~Has(op.todo, "copy") /\ ~Has(op.todo, "drop")
  BY <1>0, <1>2 DEF OnEntry
<1>4. ~At("copy") /\ ~At("drop")
  <2>1. 1 \in 1..Len(op.todo)
    BY <1>0, TodoSteps
  <2> QED BY <1>3, <2>1 DEF Has, At
<1>5. board \in BoardStates /\ board[op.t] = {op.e}
  <2>1. board \in BoardStates
    BY DEF JournalInv, Types, GitTypes
  <2> QED BY <1>0, <1>3, <2>1 DEF OneEntry, Boards
<1>6. ASSUME At("clean")
      PROVE  The({x \in board[op.t] : x.col = "todo" /\ x.link = op.s}) = op.e
  <2>1. 1 \in 1..Len(op.todo) /\ op.todo[1] = "clean"
    BY <1>0, <1>6, TodoSteps DEF At
  <2>2. op.e.link = op.s /\ op.e.col = "todo"
    BY <1>0, <1>2, <1>6, <2>1 DEF OnEntry, Has
  <2>3. {x \in board[op.t] : x.col = "todo" /\ x.link = op.s} = {op.e}
    BY <1>5, <2>2
  <2> QED BY <2>3 DEF The
<1>7. ASSUME NEW new, Put({op.e}, new)
      PROVE  board'[op.t] = new /\ \A t \in Tasks : t # op.t => board'[t] = board[t]
  <2>1. board' = [board EXCEPT ![op.t] = (board[op.t] \ {op.e}) \cup new]
    BY <1>7 DEF Put
  <2> QED BY <1>0, <1>5, <2>1 DEF BoardStates
<1>8. \/ At("attach") /\ Put({op.e}, {[op.e EXCEPT !.link = op.s]})
      \/ At("mark") /\ Put({op.e}, {[op.e EXCEPT !.stop = TRUE]})
      \/ At("rename") /\ Put({op.e}, {MovedTo(op)})
      \/ At("remove") /\ Put({op.e}, {})
      \/ At("clean") /\ Put({op.e}, {Entry("todo", None, FALSE)})
  BY <1>4, <1>6 DEF BoardStep, MovedTo
<1>9. CASE At("attach") /\ Put({op.e}, {[op.e EXCEPT !.link = op.s]})
  BY <1>0, <1>3, <1>7, <1>9
<1>10. CASE At("mark") /\ Put({op.e}, {[op.e EXCEPT !.stop = TRUE]})
  BY <1>0, <1>3, <1>7, <1>10
<1>11. CASE At("rename") /\ Put({op.e}, {MovedTo(op)})
  BY <1>0, <1>3, <1>7, <1>11
<1>12. CASE At("remove") /\ Put({op.e}, {})
  BY <1>0, <1>3, <1>7, <1>12
<1>13. CASE At("clean") /\ Put({op.e}, {Entry("todo", None, FALSE)})
  BY <1>0, <1>3, <1>7, <1>13
<1> QED BY <1>8, <1>9, <1>10, <1>11, <1>12, <1>13

\* What a step of a command writes, on any board.
LEMMA StepPuts ==
  ASSUME JournalInv, BoardStep
  PROVE  /\ op # None /\ op.todo # <<"release">>
         /\ op.t \in Tasks /\ op.e \in Entries
         /\ \A t \in Tasks : t # op.t => board'[t] = board[t]
         /\ \A e \in board'[op.t] :
              \/ e \in board[op.t]
              \/ At("attach") /\ e = [op.e EXCEPT !.link = op.s]
              \/ e.link \in {op.e.link, None}
<1>0. /\ op # None /\ op.todo \in Todos /\ op.t \in Tasks /\ op.e \in Entries
      /\ Len(op.todo) \in Nat
  BY CommandOn
<1>1. op.todo # <<"release">>
  BY <1>0 DEF BoardStep, At
<1>2. board \in BoardStates
  BY DEF JournalInv, Types, GitTypes
<1>3. ASSUME NEW old, NEW new, Put(old, new)
      PROVE  /\ \A t \in Tasks : t # op.t => board'[t] = board[t]
             /\ \A e \in board'[op.t] : e \in board[op.t] \/ e \in new
  <2>1. board' = [board EXCEPT ![op.t] = (board[op.t] \ old) \cup new]
    BY <1>3 DEF Put
  <2> QED BY <1>0, <1>2, <2>1 DEF BoardStates
<1>4. \/ At("attach") /\ \E old : Put(old, {[op.e EXCEPT !.link = op.s]})
      \/ \E old : Put(old, {[op.e EXCEPT !.stop = TRUE]})
      \/ \E old : Put(old, {MovedTo(op)})
      \/ \E old : Put(old, {})
      \/ \E old : Put(old, {Entry("todo", None, FALSE)})
  BY Zenon DEF BoardStep, MovedTo
<1>5. ASSUME NEW old, NEW e,
             \/ At("attach") /\ e = [op.e EXCEPT !.link = op.s]
             \/ e.link \in {op.e.link, None},
             Put(old, {e}) \/ Put(old, {})
      PROVE  /\ \A t \in Tasks : t # op.t => board'[t] = board[t]
             /\ \A f \in board'[op.t] :
                  \/ f \in board[op.t]
                  \/ At("attach") /\ f = [op.e EXCEPT !.link = op.s]
                  \/ f.link \in {op.e.link, None}
  <2>1. /\ \A t \in Tasks : t # op.t => board'[t] = board[t]
        /\ \A f \in board'[op.t] : f \in board[op.t] \/ f = e
    BY <1>3, <1>5
  <2> QED BY <1>5, <2>1
<1>6. /\ [op.e EXCEPT !.stop = TRUE].link = op.e.link
      /\ MovedTo(op).link = op.e.link /\ Entry("todo", None, FALSE).link = None
  BY Written
<1>7. CASE At("attach") /\ \E old : Put(old, {[op.e EXCEPT !.link = op.s]})
  BY <1>0, <1>1, <1>5, <1>7
<1>8. CASE \E old : Put(old, {[op.e EXCEPT !.stop = TRUE]}) \/ Put(old, {})
  BY <1>0, <1>1, <1>5, <1>6, <1>8
<1>9. CASE \E old : Put(old, {MovedTo(op)})
  BY <1>0, <1>1, <1>5, <1>6, <1>9
<1>10. CASE \E old : Put(old, {Entry("todo", None, FALSE)})
  BY <1>0, <1>1, <1>5, <1>6, <1>10
<1> QED BY <1>4, <1>7, <1>8, <1>9, <1>10

\* Whatever is written names the task its journal is bound to.
LEMMA LinksNamedStep ==
  ASSUME JournalInv, AllManaged, LinksNamed, CommandNamed, [Next]_vars
  PROVE  LinksNamed'
<1> DEFINE Good(t, e) == e.link \in Sessions \cup {None} /\ NamesTask(t, e)
<1>1. ASSUME NEW t \in Tasks, NEW e, Good(t, e)
      PROVE  NamesTask(t, e)'
  BY <1>1, NamedStays DEF NamesTask
<1>2. ASSUME NEW b \in Boards, NEW t \in Tasks, NEW e \in b[t] PROVE Good(t, e)
  <2>1. e \in Entries
    BY <1>2, BoardsMove DEF BoardStates
  <2> QED BY <1>2, <2>1 DEF LinksNamed, Entries
<1>3. board \in Boards /\ board \in BoardStates
  BY BoardsMove DEF Boards
<1>4. ASSUME NEW t \in Tasks, NEW e \in board'[t], BoardStep PROVE Good(t, e)
  <2>1. /\ op.t \in Tasks /\ op.e \in Entries /\ op # None
        /\ op.todo # <<"release">> /\ NamesTask(op.t, op.e)
    BY <1>4, StepPuts DEF CommandNamed
  <2>2. CASE t # op.t
    BY <1>2, <1>3, <1>4, <2>2, StepPuts
  <2>3. CASE t = op.t /\ At("attach") /\ e = [op.e EXCEPT !.link = op.s]
    <3>1. e.link = op.s
      BY <1>4, <2>3, Written
    <3>2. op.s \in Sessions /\ jr[op.s] # None /\ jr[op.s].task = op.t
      BY <2>1, <2>3 DEF CommandNamed
    <3> QED BY <2>3, <3>1, <3>2 DEF NamesTask
  <2>4. CASE t = op.t /\ e.link \in {op.e.link, None}
    <3>1. op.e.link \in Sessions \cup {None}
      BY <2>1 DEF Entries
    <3> QED BY <2>1, <2>4, <3>1 DEF NamesTask
  <2>5. CASE t = op.t /\ e \in board[op.t]
    BY <1>2, <1>3, <2>1, <2>5
  <2> QED BY <1>4, <2>2, <2>3, <2>4, <2>5, StepPuts
<1>5. ASSUME NEW t \in Tasks, NEW e \in board'[t], ~BoardStep PROVE Good(t, e)
  <2>1. CASE board' \in Boards
    BY <1>2, <1>5, <2>1
  <2>2. ASSUME NEW x \in Tasks, NEW f \in Entries,
               board' = [board EXCEPT ![x] = {f}], f.link = None
        PROVE  Good(t, e)
    <3>1. e = f \/ e \in board[t]
      BY <1>3, <1>5, <2>2 DEF BoardStates
    <3> QED BY <1>2, <1>3, <2>2, <3>1 DEF NamesTask
  <2>3. ASSUME NEW x \in Tasks, NEW f \in board[x],
               board' = [board EXCEPT ![x] = (@ \ {f}) \cup {[f EXCEPT !.link = None]}]
        PROVE  Good(t, e)
    <3>1. f \in Entries
      BY <1>3, <2>3 DEF BoardStates
    <3>2. [f EXCEPT !.link = None].link = None
      BY <3>1 DEF Entries
    <3>3. e = [f EXCEPT !.link = None] \/ e \in board[t]
      BY <1>3, <1>5, <2>3 DEF BoardStates
    <3> QED BY <1>2, <1>3, <3>2, <3>3 DEF NamesTask
  <2> QED BY <1>5, <2>1, <2>2, <2>3, BoardReplaced
<1>6. ASSUME NEW b \in Boards', NEW t \in Tasks, NEW e \in b[t]
      PROVE  NamesTask(t, e)'
  <2>1. Good(t, e)
    BY <1>2, <1>4, <1>5, <1>6, BoardsMove
  <2> QED BY <1>1, <2>1
<1>7. Tasks' = Tasks
  BY SceneKept
<1> QED BY <1>6, <1>7 DEF LinksNamed

\* One file stays one file.
LEMMA OneEntryStep ==
  ASSUME JournalInv, OneEntry, OnEntry, [Next]_vars
  PROVE  OneEntry'
<1>1. board \in Boards /\ board \in BoardStates
  BY BoardsMove DEF Boards
<1>2. ASSUME NEW b \in Boards, NEW t \in Tasks, NEW e \in b[t], NEW f \in b[t]
      PROVE  e = f
  BY <1>2 DEF OneEntry
<1>3. ASSUME NEW t \in Tasks, NEW e \in board'[t], NEW f \in board'[t], BoardStep
      PROVE  e = f
  <2>1. CASE t # op.t
    BY <1>1, <1>2, <1>3, <2>1, StepWrites
  <2>2. CASE t = op.t
    <3>1. board'[op.t] = {} \/ \E x : board'[op.t] = {x}
      BY <1>3, StepWrites, Zenon
    <3> QED BY <1>3, <2>2, <3>1
  <2> QED BY <2>1, <2>2
<1>4. ASSUME NEW t \in Tasks, NEW e \in board'[t], NEW f \in board'[t], ~BoardStep
      PROVE  e = f
  <2>1. CASE board' \in Boards
    BY <1>2, <1>4, <2>1
  <2>2. ASSUME NEW x \in Tasks, NEW g, board' = [board EXCEPT ![x] = {g}]
        PROVE  e = f
    BY <1>1, <1>2, <1>4, <2>2 DEF BoardStates
  <2>3. ASSUME NEW x \in Tasks, NEW g \in board[x],
               board' = [board EXCEPT ![x] = (@ \ {g}) \cup {[g EXCEPT !.link = None]}]
        PROVE  e = f
    <3>1. board[x] \ {g} = {}
      BY <1>1, <1>2, <2>3
    <3> QED BY <1>1, <1>2, <1>4, <2>3, <3>1 DEF BoardStates
  <2> QED BY <1>4, <2>1, <2>2, <2>3, BoardReplaced
<1>5. ASSUME NEW b \in Boards', NEW t \in Tasks, NEW e \in b[t], NEW f \in b[t]
      PROVE  e = f
  BY <1>2, <1>3, <1>4, <1>5, BoardsMove
<1>6. Tasks' = Tasks
  BY SceneKept
<1> QED BY <1>5, <1>6 DEF OneEntry

-----------------------------------------------------------------------------
(* The command under the board lock.                                       *)

\* With a file per task nothing is copied, and a step that removes or cleans
\* its entry is the last on the board.
LEMMA FolderSteps ==
  ASSUME Folder, NEW kind \in Kinds, NEW e
  PROVE  ~Has(Steps(kind, e), "copy") /\ ~Has(Steps(kind, e), "drop")
<1>0. Move = <<"rename">>
  BY DEF Move
<1>1. CASE kind = "activate"
  <2>1. Steps(kind, e) = <<"attach", "rename">>
    BY <1>0, <1>1, Joined11 DEF Steps, StepNames
  <2> QED BY <2>1 DEF Has
<1>2. CASE kind \in {"move", "done"}
  <2>1. Steps(kind, e) = <<"rename">>
    BY <1>0, <1>2 DEF Steps
  <2> QED BY <2>1 DEF Has
<1>3. CASE kind = "complete"
  <2>1. Steps(kind, e) = <<"rename", "release">>
    BY <1>0, <1>3, Joined11 DEF Steps, StepNames
  <2> QED BY <2>1 DEF Has
<1>4. CASE kind \in {"delete", "relink", "dedup", "retire"}
  <2>1. Steps(kind, e) \in {<<"remove", "release">>, <<"attach">>, <<"remove">>,
                            <<"release">>}
    BY <1>4 DEF Steps
  <2> QED BY <2>1 DEF Has
<1>5. CASE kind = "recover" /\ e.col = "todo"
  <2>1. Steps(kind, e) = (<<"mark">> \o <<>>) \o <<"clean", "release">>
    BY <1>5 DEF Steps
  <2>2. Steps(kind, e) = <<"mark", "clean", "release">>
    BY <2>1, JoinedSteps
  <2> QED BY <2>2 DEF Has
<1>6. CASE kind = "recover" /\ e.col # "todo"
  <2>1. Steps(kind, e) = (<<"mark">> \o <<"rename">>) \o <<"clean", "release">>
    BY <1>0, <1>6 DEF Steps
  <2>2. <<"mark">> \o <<"rename">> = <<"mark", "rename">>
    BY Joined11 DEF StepNames
  <2>3. <<"mark", "rename">> \o <<"clean", "release">>
          = <<"mark", "rename", "clean", "release">>
    BY Joined22 DEF StepNames
  <2>4. Steps(kind, e) = <<"mark", "rename", "clean", "release">>
    BY <2>1, <2>2, <2>3
  <2> QED BY <2>4 DEF Has
<1> QED BY <1>1, <1>2, <1>3, <1>4, <1>5, <1>6 DEF Kinds

LEMMA LastWrite ==
  ASSUME NEW q \in Todos, Len(q) # 1, q[1] \in {"remove", "clean"}
  PROVE  Tail(q) = <<"release">>
<1>1. q \in {<<"remove", "release">>, <<"clean", "release">>}
  BY DEF Todos
<1>2. Tail(<<"remove", "release">>) = <<"release">>
  OBVIOUS
<1>3. Tail(<<"clean", "release">>) = <<"release">>
  OBVIOUS
<1> QED BY Zenon, <1>1, <1>2, <1>3

\* What a command starts with.
LEMMA CommandBegins ==
  ASSUME JournalInv, QuietInv, AllManaged, [Next]_vars, op = None, op' # None
  PROVE  \/ op'.todo = <<"release">>
         \/ LET o == op' IN
            /\ o.t \in Tasks /\ o.e \in board[o.t]
            /\ Folder => ~Has(o.todo, "copy") /\ ~Has(o.todo, "drop")
            /\ o.todo[1] = "attach" =>
                 o.s \in Sessions /\ jr'[o.s] # None /\ jr'[o.s].task = o.t
            /\ Has(o.todo, "clean") => /\ o.s \in Sessions /\ o.e.link = o.s
                                       /\ o.to = "todo"
            /\ o.todo[1] = "mark" => HasMove(o.todo) \/ o.e.col = "todo"
            /\ o.todo[1] # "clean"
<1> DEFINE begins(o) ==
      /\ o.t \in Tasks /\ o.e \in board[o.t]
      /\ Folder => ~Has(o.todo, "copy") /\ ~Has(o.todo, "drop")
      /\ o.todo[1] = "attach" =>
           o.s \in Sessions /\ jr'[o.s] # None /\ jr'[o.s].task = o.t
      /\ Has(o.todo, "clean") => /\ o.s \in Sessions /\ o.e.link = o.s
                                 /\ o.to = "todo"
      /\ o.todo[1] = "mark" => HasMove(o.todo) \/ o.e.col = "todo"
      /\ o.todo[1] # "clean"
<1>1. SUFFICES op'.todo = <<"release">> \/ begins(op')
  OBVIOUS
<1>2. ASSUME NEW kind \in Kinds \ {"activate", "relink", "recover"}, NEW by, NEW s,
             NEW t \in Tasks, NEW e \in board[t], NEW to,
             op' = Op(kind, by, s, t, e, to)
      PROVE  begins(op')
  <2>1. op'.e = e /\ op'.t = t /\ op'.todo = Steps(kind, e)
    BY <1>2 DEF Op
  <2>2. /\ op'.todo[1] # "attach" /\ ~Has(op'.todo, "clean")
        /\ Folder => ~Has(op'.todo, "copy") /\ ~Has(op'.todo, "drop")
        /\ op'.todo[1] # "clean" /\ op'.todo \in Todos
    BY <1>2, <2>1, StepsShape, FolderSteps
  <2>3. op'.todo[1] # "mark"
    <3>1. CASE Len(op'.todo) = 1
      BY <2>2, <3>1 DEF Todos
    <3>2. CASE Len(op'.todo) # 1
      BY <2>2, <3>2, NextStep
    <3> QED BY <3>1, <3>2
  <2> QED BY <2>1, <2>2, <2>3
<1>3. ASSUME NEW kind \in {"activate", "relink"}, NEW by, NEW s \in Sessions,
             NEW t \in Tasks, NEW e \in board[t], NEW to,
             jr'[s] # None, jr'[s].task = t, op' = Op(kind, by, s, t, e, to)
      PROVE  begins(op')
  <2>1. op'.e = e /\ op'.t = t /\ op'.s = s /\ op'.todo = Steps(kind, e)
    BY <1>3 DEF Op
  <2>2. kind \in Kinds
    BY DEF Kinds
  <2>3. /\ op'.todo[1] = "attach" /\ ~Has(op'.todo, "clean")
        /\ Folder => ~Has(op'.todo, "copy") /\ ~Has(op'.todo, "drop")
    BY <1>3, <2>1, <2>2, StepsShape, FolderSteps
  <2> QED BY <1>3, <2>1, <2>3
<1>4. CASE Activated
  <2>1. PICK c \in codex, t \in Tasks : \E e \in board[t] :
          /\ AgentActivates(c, t, e)
          /\ op' = Op("activate", "agent", c.s, t, e, "doing")
    BY <1>4 DEF Activated
  <2>2. PICK e \in board[t] : /\ AgentActivates(c, t, e)
                              /\ op' = Op("activate", "agent", c.s, t, e, "doing")
    BY <2>1
  <2>3. c.s \in Sessions /\ Managed(c.s)
    BY <2>2, ManagedAgent DEF AgentActivates
  <2>4. JState(c.s) = "working" /\ jr' = [jr EXCEPT ![c.s].task = t]
    BY <2>2, <2>3 DEF AgentActivates
  <2>5. jr \in [Sessions -> Journals \cup {None}] /\ jr[c.s] # None
        /\ None \notin Journals
    BY <2>4, Scene DEF JState, JournalInv, Types, GitTypes, RegistryTypes
  <2>6. jr'[c.s] = [jr[c.s] EXCEPT !.task = t]
    BY <2>3, <2>4, <2>5
  <2>7. jr'[c.s] # None /\ jr'[c.s].task = t
    BY <2>3, <2>5, <2>6, BoundFields
  <2> QED BY <1>3, <2>2, <2>3, <2>7
<1>5. CASE Settled
  <2>1. PICK kind \in {"move", "dedup", "complete", "delete", "done"},
             by \in {"user", "agent"}, s \in Sessions \cup {None}, t \in Tasks :
          \E e \in board[t] : \E to \in Columns : op' = Op(kind, by, s, t, e, to)
    BY <1>5 DEF Settled
  <2>2. kind \in Kinds \ {"activate", "relink", "recover"}
    BY DEF Kinds
  <2> QED BY <1>2, <2>1, <2>2
<1>6. CASE Resumed
  <2>1. "move" \in Kinds \ {"activate", "relink", "recover"}
    BY DEF Kinds
  <2> QED BY <1>2, <1>6, <2>1 DEF Resumed
<1>7. CASE Repaired
  <2>1. PICK s \in Sessions :
          /\ jr' = jr /\ JState(s) = "working" /\ jr[s].task \in Tasks
          /\ Repair(s) # {} /\ op' = The(Repair(s))
    BY <1>7 DEF Repaired
  <2>2. PICK kind \in {"move", "dedup", "activate", "relink"},
             e \in board[jr[s].task], to \in {"doing", None} :
          op' = Op(kind, "pass", s, jr[s].task, e, to)
    BY <2>1, RepairKinds DEF JournalInv
  <2>3. jr[s] # None
    BY <2>1 DEF JState
  <2>4. kind \in Kinds
    BY DEF Kinds
  <2> QED BY <1>2, <1>3, <2>1, <2>2, <2>3, <2>4
<1>8. CASE Recovered
  <2>1. PICK w \in {"user", "pass"} :
          /\ Executes(w) /\ CanExecute(plan[w])
          /\ op' = Op(RecoverySteps(plan[w]), w, plan[w].s, plan[w].t,
                      plan[w].e, "todo")
    BY <1>8 DEF Recovered
  <2> DEFINE p == plan[w]
  <2>2. RecoverySteps(p) \in {"retire", "recover"}
    BY DEF RecoverySteps
  <2>3. CASE RecoverySteps(p) = "retire"
    <3>1. "retire" \in Kinds
      BY DEF Kinds
    <3> QED BY <2>1, <2>3, <3>1, StepsFacts DEF Op
  <2>4. CASE RecoverySteps(p) = "recover"
    <3>1. p.t # None /\ p # None
      BY <2>1, <2>4 DEF RecoverySteps, Executes
    <3>2. PlanTyped(p)
      BY <3>1 DEF JournalInv, Types, PassTypes
    <3>3. p.s \in Sessions /\ p.t \in Tasks
      BY <3>1, <3>2 DEF PlanTyped
    <3>4. <<p.t, p.e>> \in Linked(p.s)
      BY <2>1, <3>1 DEF CanExecute
    <3>5. p.e \in board[p.t] /\ p.e.link = p.s
      BY <3>4, LinkedFacts DEF JournalInv
    <3>6. /\ op'.e = p.e /\ op'.t = p.t /\ op'.s = p.s /\ op'.to = "todo"
          /\ op'.todo = Steps("recover", p.e) /\ "recover" \in Kinds
      BY <2>1, <2>4 DEF Op, Kinds
    <3>7. /\ Folder => ~Has(op'.todo, "copy") /\ ~Has(op'.todo, "drop")
          /\ op'.todo[1] \notin {"attach", "clean"}
      BY <3>6, StepsShape, FolderSteps
    <3>8. op'.todo[1] = "mark" => HasMove(op'.todo) \/ op'.e.col = "todo"
      <4>1. CASE op'.todo[1] = "mark" /\ Len(op'.todo) = 1
        BY <4>1, <3>6, StepsShape DEF Todos
      <4>2. CASE op'.todo[1] = "mark" /\ Len(op'.todo) # 1
        <5>1. Has(op'.todo, "clean")
          BY <4>2, <3>6, StepsShape, NextStep
        <5> QED BY <5>1, <3>6, StepsShape
      <4> QED BY <4>1, <4>2
    <3> QED BY <3>3, <3>5, <3>6, <3>7, <3>8
  <2> QED BY <2>2, <2>3, <2>4
<1> QED BY <1>4, <1>5, <1>6, <1>7, <1>8, OpStarts

\* A command names the task its journal is bound to from its first step on.
LEMMA CommandNamedStep ==
  ASSUME JournalInv, QuietInv, AllManaged, LinksNamed, CommandNamed, [Next]_vars
  PROVE  CommandNamed'
<1> DEFINE named(t, e) == e.link # None => jr'[e.link] # None
                                              /\ jr'[e.link].task = t
<1>1. ASSUME NEW t \in Tasks, NEW e \in Entries, NamesTask(t, e)
      PROVE  named(t, e)
  BY <1>1, NamedStays DEF Entries
<1>2. CASE op' = None
  BY <1>2 DEF CommandNamed
<1>3. CASE op = None /\ op' # None
  <2>1. SUFFICES ASSUME op'.t \in Tasks, op'.e \in board[op'.t]
                 PROVE  named(op'.t, op'.e)
    BY <1>3, CommandBegins DEF CommandNamed, NamesTask, At
  <2>2. board \in BoardStates /\ board \in Boards
    BY BoardsMove DEF Boards
  <2>3. op'.e \in Entries /\ NamesTask(op'.t, op'.e)
    BY <2>1, <2>2 DEF BoardStates, LinksNamed
  <2> QED BY <1>1, <2>1, <2>3
<1>4. CASE op # None /\ op' = op /\ ~BoardStep
  <2>1. SUFFICES ASSUME op.todo # <<"release">>
                 PROVE  /\ named(op.t, op.e)
                        /\ At("attach") => /\ op.s \in Sessions /\ jr'[op.s] # None
                                           /\ jr'[op.s].task = op.t
    BY <1>4 DEF CommandNamed, NamesTask, At
  <2>2. op.t \in Tasks /\ op.t # None /\ op.e \in Entries
    BY <1>4, <2>1, Scene DEF JournalInv, LockHeld, Types, GitTypes
  <2>3. /\ NamesTask(op.t, op.e)
        /\ At("attach") => op.s \in Sessions /\ jr[op.s] # None /\ jr[op.s].task = op.t
    BY <1>4, <2>1 DEF CommandNamed
  <2>4. named(op.t, op.e)
    BY <1>1, <2>2, <2>3
  <2> QED BY <2>2, <2>3, <2>4, TaskKept
<1>5. CASE BoardStep /\ op' # None
  <2> DEFINE q == op.todo
  <2>1. /\ q \in Todos /\ Len(q) # 1 /\ op'.todo = Tail(q) /\ op'.t = op.t
        /\ op.t \in Tasks /\ op.e \in Entries /\ op # None /\ q # <<"release">>
    BY <1>5, CommandOn, StepGoesOn, StepPuts
  <2>2. Tail(q)[1] # "attach"
    BY <2>1, NextStep
  <2>3. SUFFICES Tail(q) = <<"release">> \/ named(op.t, op'.e)
    BY <2>1, <2>2 DEF CommandNamed, NamesTask, At
  <2>4. /\ NamesTask(op.t, op.e)
        /\ At("attach") => op.s \in Sessions /\ jr[op.s] # None /\ jr[op.s].task = op.t
    BY <2>1 DEF CommandNamed
  <2>5. named(op.t, op.e)
    BY <1>1, <2>1, <2>4
  <2>6. CASE At("attach")
    <3>1. op'.e = [op.e EXCEPT !.link = op.s]
      BY <1>5, <2>6, StepGoesOn
    <3>2. op'.e.link = op.s
      BY <1>5, <3>1, Written
    <3>3. op.t # None
      BY <2>1, Scene DEF JournalInv, Types, GitTypes
    <3>4. jr'[op.s] # None /\ jr'[op.s].task = op.t
      BY <2>4, <2>6, <3>3, TaskKept
    <3> QED BY <3>2, <3>4
  <2>7. CASE At("mark") \/ At("rename") \/ At("copy") \/ At("drop")
    <3>1. op'.e.link = op.e.link
      BY <1>5, <2>7, StepGoesOn, Written
    <3> QED BY <2>5, <3>1
  <2>8. CASE At("remove") \/ At("clean")
    <3>1. q[1] \in {"remove", "clean"}
      BY <2>1, <2>8 DEF At
    <3> QED BY <2>1, <3>1, LastWrite
  <2> QED BY <1>5, <2>6, <2>7, <2>8 DEF BoardStep
<1> QED BY <1>2, <1>3, <1>4, <1>5, OpGoes

LEMMA OnEntryStep ==
  ASSUME JournalInv, QuietInv, AllManaged, Folder, OneEntry, OnEntry, [Next]_vars
  PROVE  OnEntry'
<1>1. CASE op' = None
  BY <1>1 DEF OnEntry
<1>2. CASE op = None /\ op' # None
  <2>1. board' = board
    BY <1>2, OpStarts
  <2> QED BY <1>2, <2>1, CommandBegins DEF OnEntry, At
<1>3. CASE op # None /\ op' = op /\ ~BoardStep
  <2>1. board' = board
    BY <1>3, BoardUnderOp
  <2> QED BY <1>3, <2>1 DEF OnEntry, At
<1>4. CASE BoardStep /\ op' # None
  <2> DEFINE q == op.todo
  <2>0. q \in Todos /\ Len(q) # 1 /\ op'.todo = Tail(q) /\ Tail(q) \in Todos
    BY <1>4, CommandOn, StepGoesOn, TodoSteps
  <2>1. /\ op'.s = op.s /\ op'.t = op.t /\ op'.to = op.to /\ op.e \in Entries
        /\ op.s \in Sessions \cup {None} /\ op # None
    BY <1>4, CommandOn, StepGoesOn
  <2>2. /\ Tail(q)[1] \notin {"attach", "mark"}
        /\ ~Has(Tail(q), "copy") /\ ~Has(Tail(q), "drop")
        /\ Tail(q)[1] = "clean" => Has(Tail(q), "clean")
    <3>1. Tail(q)[1] \notin {"attach", "mark"}
      BY <2>0, NextStep
    <3>2. q # <<"release">>
      BY <2>0
    <3>3. ~Has(q, "copy") /\ ~Has(q, "drop")
      BY <2>1, <3>2 DEF OnEntry
    <3>4. 1 \in 1..Len(Tail(q))
      <4>1. Len(Tail(q)) \in Nat /\ Len(Tail(q)) >= 1
        BY Zenon, <2>0, TodoSteps
      <4> HIDE DEF q
      <4> QED BY <4>1
    <3> QED BY <2>0, <3>1, <3>3, <3>4, TailHas DEF Has
  <2>3. Has(Tail(q), "clean") => /\ Has(q, "clean") /\ op.s \in Sessions
                                 /\ op.e.link = op.s /\ op.to = "todo"
    <3>1. q # <<"release">>
      BY <2>0
    <3>2. Has(Tail(q), "clean") => Has(q, "clean")
      BY <2>0, TailHas
    <3> QED BY <2>1, <3>1, <3>2 DEF OnEntry
  <2>4. SUFFICES \/ Tail(q) = <<"release">>
                 \/ /\ op'.e \in board'[op.t]
                    /\ Has(Tail(q), "clean") => op'.e.link = op.s
                    /\ Tail(q)[1] = "clean" => op'.e.col = "todo"
    BY <2>0, <2>1, <2>2, <2>3, <2>4 DEF OnEntry, At
  <2>5. CASE At("attach") /\ board'[op.t] = {[op.e EXCEPT !.link = op.s]}
    <3>1. op'.e = [op.e EXCEPT !.link = op.s]
      BY <1>4, <2>5, StepGoesOn
    <3>2. ~Has(q, "clean")
      BY <2>0, <2>1, <2>5, NextStep DEF At
    <3> QED BY <2>2, <2>3, <2>5, <3>1, <3>2
  <2>6. CASE At("mark") /\ board'[op.t] = {[op.e EXCEPT !.stop = TRUE]}
    <3>1. op'.e = [op.e EXCEPT !.stop = TRUE]
      BY <1>4, <2>6, StepGoesOn
    <3>2. op'.e.link = op.e.link /\ op'.e.col = op.e.col
      BY <1>4, <3>1, Written
    <3>3. Tail(q)[1] = "clean" => op.e.col = "todo"
      <4>0. q # <<"release">>
        BY <2>0
      <4>1. HasMove(q) \/ op.e.col = "todo"
        BY <2>1, <2>6, <4>0 DEF OnEntry
      <4>2. HasMove(q) => Tail(q)[1] # "clean"
        BY <2>0, <2>1, <2>6, NextStep DEF At
      <4> QED BY <4>1, <4>2
    <3> QED BY <2>3, <2>6, <3>1, <3>2, <3>3
  <2>7. CASE At("rename") /\ board'[op.t] = {MovedTo(op)}
    <3>1. op'.e = MovedTo(op)
      BY <1>4, <2>7, StepGoesOn
    <3>2. op'.e.link = op.e.link /\ op'.e.col = op.to
      BY <1>4, <3>1, Written
    <3> QED BY <2>2, <2>3, <2>7, <3>1, <3>2
  <2>8. CASE At("remove") \/ At("clean")
    <3>1. q[1] \in {"remove", "clean"}
      BY <2>1, <2>8 DEF At
    <3> QED BY <2>0, <3>1, LastWrite
  <2> QED BY <1>4, <2>5, <2>6, <2>7, <2>8, StepWrites
<1> QED BY <1>1, <1>2, <1>3, <1>4, OpGoes

-----------------------------------------------------------------------------
(* The rows, the runs and the plans.                                       *)

\* A recovery carries out a plan for the session.
Executed(s) == \E w \in {"user", "pass"} :
  Executes(w) /\ CanExecute(plan[w]) /\ plan[w] # None /\ plan[w].s = s

\* The runs table grows.
LEMMA HistGrows ==
  ASSUME JournalInv, GitStays, [Next]_vars
  PROVE  /\ Len(hist) \in Nat /\ Len(hist) <= Len(hist') /\ Len(hist') \in Nat
         /\ \A i \in 1..Len(hist) : hist'[i] = hist[i]
         /\ Len(hist') <= MaxHist /\ MaxHist \in Nat
<1>1. hist \in Seq(Reports) /\ hist' \in Seq(Reports) /\ Len(hist') <= MaxHist'
  BY HistTypes, SceneKept DEF JournalInv, Types, RegistryTypes
<1>2. MaxHist \in Nat /\ MaxHist' = MaxHist
  BY Scene, SceneKept DEF JournalInv, Types, GitTypes
<1>3. hist' = hist \/ \E r : hist' = Append(hist, r)
  <2>1. ASSUME NEW s, NEW res, NEW tok, NEW was, Report(s, res, tok, was)
        PROVE  \E r : hist' = Append(hist, r)
    BY <2>1 DEF Report
  <2>2. ASSUME NEW s, NEW res, WorkerEnds(s, res)
        PROVE  \E r : hist' = Append(hist, r)
    BY <2>1, <2>2 DEF WorkerEnds
  <2>3. CASE PrepareFresh \/ RecordLaunch \/ EnableGit \/ ResumeRefused \/ Abandon
    BY <2>2, <2>3 DEF PrepareFresh, RecordLaunch, EnableGit, ResumeRefused, Abandon
  <2>4. ASSUME NEW ok \in BOOLEAN, WorkerSettles(ok)
        PROVE  \E r : hist' = Append(hist, r)
    <3>1. \E s, res : WorkerEnds(s, res)
      BY <2>4 DEF WorkerSettles
    <3> QED BY <2>2, <3>1
  <2>5. ASSUME NEW s \in Sessions, PassReports(s)
        PROVE  hist' = hist \/ \E r : hist' = Append(hist, r)
    BY <2>1, <2>5 DEF PassReports
  <2>6. \A old : ~Rebuild(old)
    BY DEF GitStays, Rebuild
  <2> QED BY <2>3, <2>4, <2>5, <2>6, Footprints DEF HistWriters
<1>4. ASSUME NEW r, hist' = Append(hist, r)
      PROVE  /\ Len(hist) \in Nat /\ Len(hist') = Len(hist) + 1
             /\ \A i \in 1..Len(hist) : hist'[i] = hist[i]
  BY <1>1, <1>4
<1> QED BY <1>1, <1>2, <1>3, <1>4

\* The worker of a session goes with the record of its run.
LEMMA WorkerGone ==
  ASSUME JournalInv, [Next]_vars, wk # None, wk.s \in Sessions, wk' = None
  PROVE  /\ Len(hist') = Len(hist) + 1 /\ Len(hist) \in Nat
         /\ hist'[Len(hist) + 1].was = wk.s
<1>1. \E x, res : WorkerEnds(x, res)
  <2>1. /\ wk \in Workers(1..MaxRuns) /\ None \notin Workers(1..MaxRuns)
        /\ None \notin Sessions /\ (wk.at = "bound" => wk.s = None)
    BY Scene DEF JournalInv, Types, GitTypes, RunTypes
  <2>2. [wk EXCEPT !.at = "live"] # None /\ [wk EXCEPT !.up = FALSE] # None
    <3>1. /\ [wk EXCEPT !.at = "live"] \in Workers(1..MaxRuns)
          /\ [wk EXCEPT !.up = FALSE] \in Workers(1..MaxRuns)
      BY <2>1 DEF Workers
    <3> QED BY <2>1, <3>1
  <2>3. CASE EnableGit \/ ResumeKnown \/ ResumeRefused \/ Abandon \/ WorkerDies
    BY <2>2, <2>3 DEF EnableGit, ResumeKnown, ResumeRefused, Abandon, WorkerDies
  <2>4. /\ ~PrepareFresh /\ ~RecordLaunch /\ (PassDecides => wk' = wk)
        /\ \A s \in Sessions : ~Register(s)
    BY <2>1 DEF PrepareFresh, RecordLaunch, WorkerUp, PassDecides, Dispatch,
       Register
  <2>5. ASSUME NEW ok \in BOOLEAN, WorkerSettles(ok)
        PROVE  \E x, res : WorkerEnds(x, res)
    BY <2>5 DEF WorkerSettles
  <2> QED BY <2>3, <2>4, <2>5, Footprints DEF WorkerWriters
<1>2. PICK x, res : WorkerEnds(x, res)
  BY <1>1
<1>3. hist \in Seq(Reports)
  BY DEF JournalInv, Types, RegistryTypes
<1> QED BY <1>2, <1>3 DEF WorkerEnds, Report

\* A session that has its journal keeps its worker or gets its record.
LEMMA RunsRecordedStep ==
  ASSUME JournalInv, GitStays, AllManaged, RunsRecorded, [Next]_vars
  PROVE  RunsRecorded'
<1>1. SUFFICES ASSUME NEW s \in Sessions, jr'[s] # None
               PROVE  (wk' # None /\ wk'.s = s) \/ Had(s)'
  BY DEF RunsRecorded
<1>2. /\ wk \in Workers(1..MaxRuns) \cup {None} /\ s # None
      /\ jr \in [Sessions -> Journals \cup {None}]
  BY Scene DEF JournalInv, Types, GitTypes, RegistryTypes, RunTypes
<1>3. CASE jr[s] = None
  <2>1. JState(s) = "none"
    BY <1>3 DEF JState
  <2>2. ~Binds(s) /\ ~Rotates(s) /\ ~Advances(s) /\ ~Retires(s)
    BY <1>3, <2>1 DEF Binds, Rotates, Advances, Retires
  <2>3. Opens(s)
    BY <1>1, <1>3, <2>2, JournalMoves DEF JournalMove
  <2>4. Register(s)
    BY <2>3, NoLateJournal DEF Opens
  <2>5. wk' = [wk EXCEPT !.s = s] /\ wk \in Workers(1..MaxRuns)
    BY <1>2, <2>4 DEF Register, WorkerUp
  <2>6. wk'.s = s /\ wk' \in Workers(1..MaxRuns)
    BY <2>5 DEF Workers
  <2> QED BY <2>6, Scene DEF JournalInv, Types, GitTypes
<1>4. CASE Had(s)
  BY <1>4, HistGrows DEF Had
<1>5. CASE wk # None /\ wk.s = s /\ wk' = None
  <2>1. Len(hist) + 1 \in 1..Len(hist')
    BY <1>5, WorkerGone
  <2> QED BY <1>5, <2>1, WorkerGone DEF Had
<1>6. CASE wk # None /\ wk.s = s /\ wk' # None
  <2>1. ~(PassDecides /\ wk' # wk)
    BY <1>6 DEF PassDecides, Dispatch
  <2>2. \A x : ~Register(x)
    BY <1>2, <1>6 DEF Register
  <2>3. ~PrepareFresh
    BY <1>2, <1>6 DEF PrepareFresh
  <2>4. wk'.s = wk.s
    BY <1>2, <1>6, <2>1, <2>2, <2>3, WorkerMoves DEF Workers
  <2> QED BY <1>6, <2>4
<1> QED BY <1>1, <1>3, <1>4, <1>5, <1>6 DEF RunsRecorded

\* The token of a recovery comes from a recovery.
LEMMA RecTokens ==
  ASSUME JournalInv, GitStays, [Next]_vars, NEW s \in Sessions,
         NEW i \in 1..MaxHist, ctl'[s].tok = RecTok(i)
  PROVE  \/ ctl'[s].tok = ctl[s].tok
         \/ \E w \in {"user", "pass"} :
              /\ Executes(w) /\ CanExecute(plan[w]) /\ plan[w] # None
              /\ plan[w].s = s /\ plan[w].run = i
<1> DEFINE tok == ctl'[s].tok
<1>0. /\ MaxRuns \in Nat /\ MaxHist \in Nat /\ None \notin Nat
      /\ ctl \in [Sessions -> Rows]
      /\ wk # None => wk.run \in 1..MaxRuns
  BY Scene DEF JournalInv, Types, GitTypes, RegistryTypes, RunTypes, Workers
<1>1. /\ tok \notin {None, Queue} /\ tok \notin 1..MaxRuns
      /\ tok # NoRow.tok
  BY <1>0 DEF RecTok, Queue, NoRow
<1>2. ASSUME NEW x, NEW st, NEW k, Row(x, st, k) PROVE tok \in {k, ctl[s].tok}
  BY <1>0, <1>2 DEF Row
<1>3. ASSUME NEW x, ClearRow(x) PROVE tok = ctl[s].tok
  BY <1>0, <1>1, <1>3 DEF ClearRow
<1>4. CASE ResumeKnown
  BY <1>0, <1>1, <1>2, <1>4 DEF ResumeKnown, WorkerUp
<1>5. CASE PassRetires \/ PassReconciles \/ PassGates
  BY <1>0, <1>1, <1>5 DEF PassRetires, PassReconciles, PassGates, Requeued
<1>6. CASE PassDecides
  <2>1. \/ \E x \in Sessions : Row(x, "resume", Queue) \/ ClearRow(x)
        \/ ctl' = ctl
    BY <1>6 DEF PassDecides, GitFirst, Sealed, Queued
  <2> QED BY <1>1, <1>2, <1>3, <2>1
<1>7. CASE Ends
  BY <1>1, <1>2, <1>3, <1>7 DEF Ends, UserEnds
<1>8. ASSUME NEW ok \in BOOLEAN, WorkerSettles(ok) PROVE tok = ctl[s].tok
  <2>1. \/ \E x, st : Row(x, st, wk.run)
        \/ \E x : ClearRow(x)
        \/ ctl' = ctl
    BY <1>8 DEF WorkerSettles
  <2>2. wk # None
    BY <1>8 DEF WorkerSettles, WorkerUp
  <2> QED BY <1>0, <1>1, <1>2, <1>3, <2>1, <2>2
<1>9. ASSUME NEW x \in Sessions, UserStops(x) \/ UserResumes(x) \/ RowRecovered(x)
      PROVE  tok = ctl[s].tok
  BY <1>0, <1>9 DEF UserStops, UserResumes, RowRecovered, Row
<1>10. ASSUME NEW x \in Sessions, Register(x) \/ CancelOrphan(x)
       PROVE  tok = ctl[s].tok
  BY <1>0, <1>1, <1>2, <1>3, <1>10 DEF Register, CancelOrphan, WorkerUp
<1>11. ASSUME NEW w \in {"user", "pass"}, Executes(w), tok # ctl[s].tok
       PROVE  /\ CanExecute(plan[w]) /\ plan[w] # None
              /\ plan[w].s = s /\ plan[w].run = i
  <2>1. /\ CanExecute(plan[w]) /\ plan[w] # None
        /\ ctl' = [ctl EXCEPT ![plan[w].s] =
                     [st |-> "stopped", tok |-> RecTok(plan[w].run)]]
    BY <1>11 DEF Executes, Row
  <2>2. plan[w].s = s /\ tok = RecTok(plan[w].run)
    BY <1>0, <1>11, <2>1
  <2>3. plan[w].run \in 1..Len(hist) /\ Len(hist) \in Nat
    BY <2>1 DEF CanExecute, BeginRun, JournalInv, Types, RegistryTypes
  <2> QED BY <1>0, <2>1, <2>2, <2>3 DEF RecTok
<1>12. \A old : ~Rebuild(old)
  BY DEF GitStays, Rebuild
<1> QED
  BY <1>4, <1>5, <1>6, <1>7, <1>8, <1>9, <1>10, <1>11, <1>12, Footprints
     DEF RowWriters, Recovers

\* A retired journal stays what it is until a recovery of its session.
LEMMA RetiredStays ==
  ASSUME JournalInv, GitStays, [Next]_vars, NEW s \in Sessions,
         JState(s) = "cancelled", ~Executed(s)
  PROVE  jr'[s] = jr[s]
<1>0. /\ jr \in [Sessions -> Journals \cup {None}] /\ jr[s] # None
      /\ jr[s].st = "cancelled"
  BY DEF JournalInv, Types, RegistryTypes, JState
<1>1. ASSUME NEW x, NEW j, jr' = [jr EXCEPT ![x] = j], x # s \/ j = jr[s]
      PROVE  jr'[s] = jr[s]
  BY <1>0, <1>1
<1>2. ~Unbound(s) /\ ~Replaced(s)
  BY DEF Unbound, Replaced
<1>3. CASE EnableGit
  <2>1. jr' = jr \/ \E j : jr' = [jr EXCEPT ![wk.s] = j]
    BY <1>3 DEF EnableGit
  <2>2. jr[wk.s] = None
    BY <1>3 DEF EnableGit
  <2> QED BY <1>0, <1>1, <2>1, <2>2
<1>4. CASE ResumeKnown
  <2>1. jr' = jr \/ (JState(wk.s) = "working" /\ \E o : jr' = [jr EXCEPT ![wk.s].own = o])
    BY <1>4 DEF ResumeKnown
  <2> QED BY <1>0, <2>1
<1>5. CASE PassRetires
  BY <1>0, <1>2, <1>5 DEF PassRetires, Abandoned, Superseded
<1>6. CASE PassReconciles
  <2>1. jr'[s] \in Reconciled(jr[s])
    BY <1>6 DEF PassReconciles
  <2> QED BY <1>0, <2>1, ReconciledFacts
<1>7. CASE Ends
  <2>1. \E t \in Tasks : \E e \in board[t] :
          UserEnds("complete", t, e) \/ UserEnds("delete", t, e)
    BY <1>7 DEF Ends
  <2>2. \E e : jr' = jr \/ (JState(e.link) = "working" /\ \E j : jr' = [jr EXCEPT ![e.link] = j])
    BY <2>1 DEF UserEnds
  <2> QED BY <1>1, <2>2
<1>8. CASE Activates
  <2>1. \E c \in codex : \E t \in Tasks : \E e \in board[t] :
          AgentActivates(c, t, e)
    BY <1>8 DEF Activates
  <2>2. \E c, t : jr' = jr \/ (JState(c.s) = "working" /\ jr' = [jr EXCEPT ![c.s].task = t])
    BY <2>1 DEF AgentActivates
  <2> QED BY <1>0, <2>2
<1>9. CASE Seals
  <2>1. PICK c \in codex : AgentSeals(c)
    BY <1>9 DEF Seals
  <2>2. jr' = jr \/ (JState(c.s) = "working" /\ jr' = [jr EXCEPT ![c.s].st = "sealed"])
    BY <2>1 DEF AgentSeals
  <2> QED BY <1>0, <2>2
<1>10. ASSUME NEW w \in {"user", "pass"}, Executes(w) PROVE jr'[s] = jr[s]
  <2>1. CASE CanExecute(plan[w])
    <3>1. plan[w].s # s
      BY <1>10, <2>1 DEF Executed, Executes
    <3>2. jr' = jr \/ \E j : jr' = [jr EXCEPT ![plan[w].s] = j]
      BY <1>10, <2>1 DEF Executes
    <3> QED BY <1>1, <3>1, <3>2
  <2>2. CASE ~CanExecute(plan[w])
    BY <1>10, <2>2 DEF Executes
  <2> QED BY <2>1, <2>2
<1>11. ASSUME NEW ok \in BOOLEAN, WorkerSettles(ok) PROVE jr'[s] = jr[s]
  <2>1. CASE jr' = jr
    BY <2>1
  <2>2. CASE \E j \in Reconciled(jr[wk.s]) :
               jr' = [jr EXCEPT ![wk.s] = Settlement(wk.s, j, ok).j]
    <3>1. PICK j \in Reconciled(jr[wk.s]) :
            jr' = [jr EXCEPT ![wk.s] = Settlement(wk.s, j, ok).j]
      BY <2>2
    <3>2. wk.s = s => j = jr[s]
      BY <1>0, <3>1, ReconciledFacts
    <3>3. wk.s = s => Settlement(wk.s, j, ok).j = jr[s]
      BY <1>0, <3>2, SettlementFacts
    <3> QED BY <1>1, <3>1, <3>3
  <2> QED BY <1>11, <2>1, <2>2 DEF WorkerSettles
<1>12. ASSUME NEW x \in Sessions, Register(x) PROVE jr'[s] = jr[s]
  <2>1. jr[x] = None /\ (jr' = jr \/ \E j : jr' = [jr EXCEPT ![x] = j])
    BY <1>12 DEF Register
  <2> QED BY <1>0, <1>1, <2>1
<1>13. ASSUME NEW x \in Sessions, CancelOrphan(x) PROVE jr'[s] = jr[s]
  <2>1. Unbound(x) /\ \E j : jr' = [jr EXCEPT ![x] = j]
    BY <1>13 DEF CancelOrphan
  <2> QED BY <1>1, <1>2, <2>1
<1>14. \A old : ~Rebuild(old)
  BY DEF GitStays, Rebuild
<1> QED
  BY <1>3, <1>4, <1>5, <1>6, <1>7, <1>8, <1>9, <1>10, <1>11, <1>12, <1>13,
     <1>14, Footprints DEF JournalWriters, Recovers

\* What a recovery does to the journal of its session.
LEMMA ExecutedJournal ==
  ASSUME JournalInv, [Next]_vars, NEW w \in {"user", "pass"}, Executes(w),
         CanExecute(plan[w]), plan[w] # None
  PROVE  LET p == plan[w] IN
         /\ p.s \in Sessions /\ jr[p.s] = p.j /\ hist' = hist
         /\ ctl'[p.s] = [st |-> "stopped", tok |-> RecTok(p.run)]
         /\ IF p.j = None \/ (p.restart /\ p.j.st = "cancelled")
            THEN jr'[p.s] = jr[p.s]
            ELSE jr'[p.s] = Cancelled(p.j, IF p.restart THEN "restart" ELSE "branch")
<1> DEFINE p == plan[w]
<1>1. p.s \in Sessions
  BY DEF JournalInv, Types, PassTypes, PlanTyped
<1>2. jr \in [Sessions -> Journals \cup {None}] /\ ctl \in [Sessions -> Rows]
  BY DEF JournalInv, Types, RegistryTypes
<1>3. jr[p.s] = p.j
  BY DEF CanExecute, BeginJournal
<1>4. /\ hist' = hist
      /\ ctl' = [ctl EXCEPT ![p.s] = [st |-> "stopped", tok |-> RecTok(p.run)]]
      /\ jr' = IF p.j = None \/ (p.restart /\ p.j.st = "cancelled") THEN jr
               ELSE [jr EXCEPT ![p.s] = Cancelled(jr[p.s], IF p.restart THEN "restart"
                                                           ELSE "branch")]
  BY DEF Executes, Row
<1> QED BY <1>1, <1>2, <1>3, <1>4

LEMMA RetiredFreedStep ==
  ASSUME JournalInv, GitStays, RetiredFreed, [Next]_vars
  PROVE  RetiredFreed'
<1>1. SUFFICES ASSUME NEW s \in Sessions, jr'[s] # None, jr'[s].st = "cancelled",
                      jr'[s] # jr[s]
               PROVE  jr'[s].own = None
  BY DEF RetiredFreed, JState
<1>2. jr[s] \in Journals \cup {None}
  BY DEF JournalInv, Types, RegistryTypes
<1>3. \A j \in Journals : \A why : Cancelled(j, why).own = None
  BY DEF Cancelled, Journals, JournalRows
<1>4. CASE Executed(s)
  <2>1. PICK w \in {"user", "pass"} : /\ Executes(w) /\ CanExecute(plan[w])
                                      /\ plan[w] # None /\ plan[w].s = s
    BY <1>4 DEF Executed
  <2> QED BY <1>1, <1>2, <1>3, <2>1, ExecutedJournal
<1>5. CASE ~Executed(s) /\ JState(s) = "cancelled"
  BY <1>1, <1>5, RetiredStays
<1>6. CASE JState(s) = "none"
  <2>1. jr[s] = None
    BY <1>2, <1>6 DEF JState, Journals, JournalRows, Pending
  <2>2. Opens(s)
    BY <1>1, <1>6, <2>1, JournalMoves
       DEF JournalMove, Binds, Rotates, Advances, Retires
  <2> QED BY <1>1, <2>2 DEF Opens
<1>7. CASE JState(s) \notin {"none", "cancelled"}
  <2>1. Retires(s)
    BY <1>1, <1>7, OnlyRetires
  <2>2. jr[s] # None
    BY <1>7 DEF JState
  <2> QED BY <1>2, <1>3, <2>1, <2>2 DEF Retires
<1> QED BY <1>4, <1>5, <1>6, <1>7

\* A new plan is for the last recorded run, or for a restart.
LEMMA PlansMade ==
  ASSUME JournalInv, [Next]_vars, NEW w \in {"user", "pass"},
         plan'[w] # plan[w], plan'[w] # None
  PROVE  /\ hist' = hist
         /\ \/ plan'[w].restart
            \/ \E s \in Sessions : \E auto \in BOOLEAN : plan'[w] \in GitPlan(s, auto)
<1>0. plan = [x \in {"user", "pass"} |-> plan[x]]
  BY DEF JournalInv, Types, PassTypes
<1>1. ASSUME NEW x \in {"user", "pass"}, NEW p, plan' = [plan EXCEPT ![x] = p]
      PROVE  plan'[w] = plan[w] \/ (plan'[w] = p)
  BY <1>0, <1>1
<1>2. \A s, tok : \A p \in RestartPlan(s, tok) : p.restart
  BY DEF RestartPlan, Plan
<1>3. ASSUME PassDies \/ Recovers \/ UserDeclines PROVE FALSE
  BY <1>1, <1>3 DEF PassDies, Recovers, Executes, UserDeclines
<1>4. CASE PassPlans
  <2>1. \/ plan' = plan
        \/ \E s, tok : \E p \in RestartPlan(s, tok) : plan' = [plan EXCEPT !["pass"] = p]
    BY <1>4 DEF PassPlans, ConflictPlan
  <2> QED BY <1>1, <1>2, <1>4, <2>1 DEF PassPlans
<1>5. CASE PassPlansBranch
  <2>1. left \subseteq Sessions /\ TRUE \in BOOLEAN
    BY DEF JournalInv, Types, PassTypes
  <2>2. \/ plan' = plan
        \/ \E s \in left : \E p \in GitPlan(s, TRUE) : plan' = [plan EXCEPT !["pass"] = p]
    BY <1>5, Chosen DEF PassPlansBranch
  <2> QED BY <1>1, <1>5, <2>1, <2>2 DEF PassPlansBranch
<1>6. ASSUME NEW s \in Sessions, UserPlans(s)
      PROVE  /\ hist' = hist
             /\ plan'[w].restart \/ plan'[w] \in GitPlan(s, FALSE)
  <2> DEFINE P == (IF "recover" \in Inputs THEN GitPlan(s, FALSE) ELSE {})
                  \cup (IF "restart" \in Inputs THEN RestartPlan(s, None) ELSE {})
  <2>0. \E p \in P : plan' = [plan EXCEPT !["user"] = p]
    BY <1>6 DEF UserPlans
  <2>1. \E p \in GitPlan(s, FALSE) \cup RestartPlan(s, None) :
          plan' = [plan EXCEPT !["user"] = p]
    BY <2>0
  <2>2. hist' = hist
    BY <1>6 DEF UserPlans
  <2>3. PICK p \in GitPlan(s, FALSE) \cup RestartPlan(s, None) :
          plan' = [plan EXCEPT !["user"] = p]
    BY <2>1
  <2>4. plan'[w] = p
    BY <1>1, <2>3
  <2>5. p.restart \/ p \in GitPlan(s, FALSE)
    BY <1>2
  <2> QED BY <2>2, <2>4, <2>5
<1> QED BY <1>3, <1>4, <1>5, <1>6, Footprints DEF PlanWriters

LEMMA PlansShownStep ==
  ASSUME JournalInv, GitStays, PlansShown, [Next]_vars
  PROVE  PlansShown'
<1>1. SUFFICES ASSUME NEW w \in {"user", "pass"}, plan'[w] # None, ~plan'[w].restart
               PROVE  /\ plan'[w].run \in 1..Len(hist')
                      /\ hist'[plan'[w].run].s \in {None, plan'[w].s}
  BY DEF PlansShown
<1>2. CASE plan'[w] = plan[w]
  BY <1>1, <1>2, HistGrows DEF PlansShown
<1>3. CASE plan'[w] # plan[w]
  <2>1. PICK s \in Sessions, auto \in BOOLEAN :
          plan'[w] \in GitPlan(s, auto) /\ hist' = hist
    BY <1>1, <1>3, PlansMade
  <2>2. /\ plan'[w].run = Len(hist) /\ plan'[w].s = s
        /\ Len(hist) > 0 /\ hist[Len(hist)].s \in {None, s}
    BY <2>1 DEF GitPlan, Plan
  <2> QED BY <2>1, <2>2, HistGrows
<1> QED BY <1>2, <1>3

\* The newest run of a session is one of its runs.
LEMMA SessionRunFacts ==
  ASSUME JournalInv, NEW s
  PROVE  SessionRun(s) # 0 => /\ SessionRun(s) \in 1..Len(hist)
                              /\ hist[SessionRun(s)].s = s
<1>1. Len(hist) \in Nat
  BY DEF JournalInv, Types, RegistryTypes
<1>2. RunsOf(s) \subseteq 1..Len(hist)
  BY DEF RunsOf
<1> QED BY <1>1, <1>2, NewestFacts DEF SessionRun, RunsOf

\* What a recovery leaves behind can be shown.
LEMMA ExecutedShown ==
  ASSUME JournalInv, RunsRecorded, RetiredFreed, PlansShown, [Next]_vars,
         NEW w \in {"user", "pass"}, Executes(w), CanExecute(plan[w]),
         plan[w] # None, NEW s, plan[w].s = s
  PROVE  LET p == plan[w] IN
         /\ p.run \in 1..Len(hist)
         /\ JState(s)' \in {"none", "cancelled"}
         /\ jr'[s] # None => Had(s)
         /\ JState(s)' = "cancelled" /\ jr'[s].why = "branch" => Shows(s, p.run)
<1> DEFINE p == plan[w]
<1>1. p.run \in 1..Len(hist)
  BY DEF CanExecute, BeginRun
<1>2. s \in Sessions /\ jr[s] = p.j /\ (p.j = None \/ p.j \in Journals)
  BY ExecutedJournal DEF JournalInv, Types, RegistryTypes
<1>3. CASE p.j = None
  <2>1. jr'[s] = None
    BY <1>2, <1>3, ExecutedJournal
  <2> QED BY <1>1, <2>1 DEF JState
<1>6. p.j # None => Had(s)
  BY <1>2 DEF CanExecute, BeginIdle, RunsRecorded
<1>4. CASE p.j # None /\ p.restart /\ p.j.st = "cancelled"
  <2>1. jr'[s] = jr[s]
    BY <1>4, ExecutedJournal
  <2>2. p.j.own = None
    BY <1>2, <1>4 DEF RetiredFreed, JState
  <2>3. p.run = SessionRun(s)
    <3>1. p.run = IF SessionRun(s) # 0 THEN SessionRun(s) ELSE OwnerRun(p.j)
      BY <1>4 DEF CanExecute, BeginRun
    <3>2. OwnerRun(p.j) = 0
      BY <2>2 DEF OwnerRun
    <3>3. p.run # 0
      BY <1>1
    <3> QED BY <3>1, <3>2, <3>3
  <2>4. hist[p.run].s = s
    <3>1. SessionRun(s) # 0
      BY <1>1, <2>3
    <3> QED BY <2>3, <3>1, SessionRunFacts
  <2> QED BY <1>1, <1>2, <1>4, <1>6, <2>1, <2>4 DEF JState, Shows
<1>5. CASE p.j # None /\ ~(p.restart /\ p.j.st = "cancelled")
  <2>1. jr'[s] = Cancelled(p.j, IF p.restart THEN "restart" ELSE "branch")
    BY <1>5, ExecutedJournal
  <2>2. /\ jr'[s] \in Journals /\ jr'[s].st = "cancelled"
        /\ jr'[s].why = "branch" => ~p.restart
    BY <1>2, <1>5, <2>1, RetiredFields DEF Whys
  <2>3. ~p.restart => Shows(s, p.run)
    <3>1. ~p.restart => hist[p.run].res \in Failed
      BY DEF CanExecute, BeginRun
    <3>2. ~p.restart => hist[p.run].s \in {None, s}
      BY DEF PlansShown
    <3> QED BY <3>1, <3>2 DEF Shows
  <2>4. JState(s)' = "cancelled"
    <3>1. jr'[s] # None
      BY <2>2, Scene DEF JournalInv, Types, GitTypes
    <3> QED BY <2>2, <3>1 DEF JState
  <2> QED BY <1>1, <1>5, <1>6, <2>2, <2>3, <2>4
<1> QED BY <1>3, <1>4, <1>5

LEMMA RecoveryShownStep ==
  ASSUME JournalInv, GitStays, AllManaged, RunsRecorded, RecoveryShown,
         RetiredFreed, PlansShown, [Next]_vars
  PROVE  RecoveryShown'
<1>1. MaxHist' = MaxHist /\ MaxRuns' = MaxRuns
  BY SceneKept
<1>2. SUFFICES ASSUME NEW s \in Sessions, NEW i \in 1..MaxHist,
                      ctl'[s].tok = RecTok(i)
               PROVE  /\ i <= Len(hist') /\ JState(s)' \in {"none", "cancelled"}
                      /\ jr'[s] # None => Had(s)'
                      /\ JState(s)' = "cancelled" /\ jr'[s].why = "branch" => Shows(s, i)'
  BY <1>1 DEF RecoveryShown, RecTok
<1>3. /\ \A k \in 1..Len(hist) : Shows(s, k) => Shows(s, k)'
      /\ Had(s) => Had(s)'
  BY HistGrows DEF Shows, Had
<1>4. CASE Executed(s)
  <2>1. PICK w \in {"user", "pass"} : /\ Executes(w) /\ CanExecute(plan[w])
                                      /\ plan[w] # None /\ plan[w].s = s
    BY <1>4 DEF Executed
  <2>2. plan[w].run \in 1..Len(hist) /\ ctl'[s].tok = RecTok(plan[w].run)
    BY <2>1, ExecutedShown, ExecutedJournal
  <2>3. plan[w].run = i
    BY <1>2, <2>2, Scene, HistGrows DEF RecTok, JournalInv, Types, GitTypes
  <2> QED BY <1>3, <2>1, <2>2, <2>3, ExecutedShown, HistGrows
<1>5. CASE ~Executed(s)
  <2>1. ctl[s].tok = RecTok(i)
    BY <1>2, <1>5, RecTokens DEF Executed
  <2>2. /\ i <= Len(hist) /\ JState(s) \in {"none", "cancelled"}
        /\ jr[s] # None => Had(s)
        /\ JState(s) = "cancelled" /\ jr[s].why = "branch" => Shows(s, i)
    BY <2>1 DEF RecoveryShown
  <2>3. i \in 1..Len(hist) /\ i <= Len(hist')
    BY <2>2, HistGrows
  <2>4. jr'[s] = jr[s]
    <3>1. CASE JState(s) = "cancelled"
      BY <1>5, <3>1, RetiredStays
    <3>2. CASE JState(s) = "none" /\ jr'[s] # jr[s]
      <4>1. jr[s] = None
        BY <3>2 DEF JState, JournalInv, Types, RegistryTypes, Journals,
           JournalRows, Pending
      <4>2. Register(s)
        BY <3>2, <4>1, JournalMoves, NoLateJournal
           DEF JournalMove, Opens, Binds, Rotates, Advances, Retires
      <4>3. ctl \in [Sessions -> Rows] /\ wk.run \in 1..MaxRuns /\ MaxRuns \in Nat
        BY <4>2, Scene DEF Register, WorkerUp, JournalInv, Types, GitTypes,
           RegistryTypes, RunTypes, Workers
      <4>4. ctl'[s].tok = wk.run
        BY <4>2, <4>3 DEF Register, Row
      <4> QED BY <1>2, <4>3, <4>4 DEF RecTok
    <3> QED BY <2>2, <3>1, <3>2
  <2> QED BY <1>3, <2>2, <2>3, <2>4 DEF JState
<1> QED BY <1>4, <1>5

-----------------------------------------------------------------------------
(* The theorem.                                                            *)

LEMMA RecoveryInit ==
  ASSUME Init, GitStays
  PROVE  RecoveryInv
<1>0. /\ MaxRuns \in Nat /\ None \notin Nat
  BY Scene DEF Init
<1>1. AllManaged
  BY DEF Init, AllManaged, GitStays
<1>2. Boards = {board}
  <2>1. tree = <<board>>
    BY DEF Init
  <2>2. Len(<<board>>) = 1 /\ <<board>>[1] = board
    OBVIOUS
  <2>3. \A c \in 1..Len(tree) : tree[c] = board
    BY <2>1, <2>2
  <2> QED BY <2>3 DEF Boards
<1>3. LinksNamed /\ OneEntry
  <2>1. ASSUME NEW t \in Tasks, NEW e \in board[t]
        PROVE  e = Entry("todo", None, FALSE)
    BY <2>1 DEF Init
  <2>2. Entry("todo", None, FALSE).link = None
    BY DEF Entry
  <2>3. OneEntry
    BY <1>2, <2>1 DEF OneEntry
  <2> QED BY <1>2, <2>1, <2>2, <2>3 DEF LinksNamed, NamesTask
<1>4. OnEntry /\ CommandNamed
  BY DEF Init, OnEntry, CommandNamed
<1>5. RecoveryShown
  BY <1>0 DEF Init, RecoveryShown, NoRow, RecTok
<1>6. RetiredFreed
  BY DEF Init, RetiredFreed, JState
<1>7. PlansShown /\ RunsRecorded
  BY DEF Init, PlansShown, RunsRecorded
<1> QED BY <1>1, <1>3, <1>4, <1>5, <1>6, <1>7 DEF RecoveryInv

LEMMA RecoveryStep ==
  ASSUME AttemptInv, GitStays, RecoveryInv, [Next]_vars
  PROVE  RecoveryInv'
<1>1. JournalInv /\ QuietInv
  BY DEF AttemptInv
<1>2. /\ AllManaged /\ LinksNamed /\ CommandNamed /\ RunsRecorded
      /\ RecoveryShown /\ RetiredFreed /\ PlansShown
  BY DEF RecoveryInv
<1>3. AllManaged' /\ LinksNamed' /\ CommandNamed' /\ RunsRecorded'
  BY <1>1, <1>2, AllManagedStep, LinksNamedStep, CommandNamedStep,
     RunsRecordedStep
<1>4. RecoveryShown' /\ RetiredFreed' /\ PlansShown'
  BY <1>1, <1>2, RecoveryShownStep, RetiredFreedStep, PlansShownStep
<1>5. Folder' => OneEntry' /\ OnEntry'
  <2>1. Folder' = Folder
    BY SceneKept DEF Folder
  <2> QED BY <1>1, <1>2, <2>1, OneEntryStep, OnEntryStep DEF RecoveryInv
<1> QED BY <1>3, <1>4, <1>5 DEF RecoveryInv

\* Whatever links a session is an entry of the task of its journal.
LEMMA LinkedToTask ==
  ASSUME JournalInv, LinksNamed, NEW s \in Sessions, NEW x \in Linked(s)
  PROVE  /\ x = <<x[1], x[2]>> /\ x[1] \in Tasks /\ x[2] \in board[x[1]]
         /\ jr[s] # None /\ jr[s].task = x[1]
<1>1. /\ x = <<x[1], x[2]>> /\ x[1] \in Tasks /\ x[2] \in board[x[1]]
      /\ x[2].link = s
  BY LinkedFacts DEF JournalInv
<1>2. s # None
  BY Scene DEF JournalInv, Types, GitTypes
<1> QED BY <1>1, <1>2 DEF LinksNamed, NamesTask, Boards

\* With a file per task a session that is linked is linked once.
LEMMA LinkedOnce ==
  ASSUME JournalInv, LinksNamed, OneEntry, NEW s \in Sessions, Linked(s) # {}
  PROVE  One(Linked(s))
<1>1. PICK x \in Linked(s) : TRUE
  OBVIOUS
<1>2. ASSUME NEW y \in Linked(s) PROVE y = x
  BY <1>1, <1>2, LinkedToTask DEF OneEntry, Boards
<1>3. Linked(s) = {x}
  BY <1>2
<1> QED BY <1>3, FS_Singleton DEF One

LEMMA ShownRetries ==
  ASSUME AttemptInv, RecoveryInv
  PROVE  Retryable
<1>0. JournalInv /\ LinksNamed /\ RecoveryShown /\ (Folder => OneEntry)
  BY DEF AttemptInv, RecoveryInv
<1>1. SUFFICES ASSUME NEW s \in Sessions, InterruptedRecovery(s)
               PROVE  /\ \A x, y \in Linked(s) : x[1] = y[1]
                      /\ Folder => One(Linked(s))
                      /\ One(Linked(s)) /\ (~LostRun(s) \/ Interrupted(s, Len(hist)))
                           => CanRetry(s)
  BY DEF Retryable
<1>2. /\ \E x \in Linked(s) : TRUE
      /\ ctl[s].tok \in {RecTok(i) : i \in 1..MaxHist}
  BY <1>1 DEF InterruptedRecovery
<1>3. PICK i \in 1..MaxHist : ctl[s].tok = RecTok(i)
  BY <1>2
<1>4. /\ i <= Len(hist) /\ JState(s) \in {"none", "cancelled"}
      /\ jr[s] # None => Had(s)
      /\ JState(s) = "cancelled" /\ jr[s].why = "branch" => Shows(s, i)
  BY <1>0, <1>3 DEF RecoveryShown
<1>5. \A x, y \in Linked(s) : x[1] = y[1]
  BY <1>0, LinkedToTask
<1>6. Folder => One(Linked(s))
  BY <1>0, <1>2, LinkedOnce
<1>7. Had(s) /\ jr[s] # None
  BY <1>0, <1>2, <1>4, LinkedToTask
<1>8. Len(hist) \in Nat /\ MaxRuns \in Nat /\ MaxHist \in Nat
  BY <1>0, Scene DEF JournalInv, Types, GitTypes, RegistryTypes
<1>9. RunsOf(s) \subseteq 1..Len(hist)
  BY DEF RunsOf
<1>10. SUFFICES ASSUME One(Linked(s)), ~LostRun(s) \/ Interrupted(s, Len(hist))
                PROVE  CanRetry(s)
  BY <1>5, <1>6
<1>11. CASE SessionRun(s) # 0
  <2>1. Plan(s, SessionRun(s), TRUE, FALSE, None) \in RestartPlan(s, None)
    BY <1>4, <1>10, <1>11 DEF RestartPlan
  <2> QED BY <2>1 DEF CanRetry
<1>12. ~LostRun(s) => SessionRun(s) # 0
  <2>1. PICK k \in 1..Len(hist) : hist[k].was = s
    BY <1>7 DEF Had
  <2>2. ~LostRun(s) => k \in RunsOf(s)
    BY <2>1 DEF LostRun, RunsOf
  <2> QED BY <1>8, <1>9, <2>2, NewestFacts DEF SessionRun
<1>13. CASE SessionRun(s) = 0 /\ Interrupted(s, Len(hist))
  <2>1. Len(hist) = i
    BY <1>3, <1>8, <1>13 DEF Interrupted, RecTok
  <2>2. Shows(s, i)
    BY <1>4, <1>13 DEF Interrupted
  <2>3. hist[i].s # s
    <3>1. RunsOf(s) = {}
      BY <1>8, <1>9, <1>13, NewestFacts DEF SessionRun
    <3>2. i \in 1..Len(hist)
      BY <1>8, <2>1
    <3> QED BY <3>1, <3>2 DEF RunsOf
  <2>4. Plan(s, Len(hist), FALSE, FALSE, None) \in GitPlan(s, FALSE)
    BY <1>2, <1>7, <1>8, <1>10, <1>13, <2>1, <2>2, <2>3 DEF GitPlan, Shows
  <2> QED BY <2>4 DEF CanRetry
<1> QED BY <1>10, <1>11, <1>12, <1>13

\* What an interrupted recovery leaves, whatever died, is one task, of one entry
\* on a board with a file per task, and an only entry can be recovered again or
\* restarted unless a dead worker's run lost the name of the conversation
\* (git_recovery.rs).  A project that is given its Git mode late and a rebuilt
\* registry are left to the runs.
THEOREM RecoveryRetryable == Spec => [](GitStays => Retryable)
<1>1. Init => (GitStays => RecoveryInv)
  BY RecoveryInit
<1>2. AttemptInv /\ (GitStays => RecoveryInv) /\ [Next]_vars
        => (GitStays => RecoveryInv)'
  <2>1. [Next]_vars => env' = env
    BY SceneKept
  <2>2. [Next]_vars /\ GitStays' => GitStays
    BY <2>1 DEF GitStays, GitOn, Inputs
  <2> QED BY <2>2, RecoveryStep
<1>3. AttemptInv /\ (GitStays => RecoveryInv) => (GitStays => Retryable)
  BY ShownRetries
<1> QED BY <1>1, <1>2, <1>3, AttemptInvariant, PTL DEF Spec

=============================================================================
