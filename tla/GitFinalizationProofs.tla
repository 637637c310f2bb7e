------------------------ MODULE GitFinalizationProofs ------------------------
(***************************************************************************)
(* Proofs about GitFinalization, for any sessions, schedulers, changes and *)
(* scenarios.  The inductive invariant is FinalizationInv; the refinement  *)
(* of TaskDelivery follows from it step by step.                           *)
(***************************************************************************)
EXTENDS GitFinalization, TLAPS

JStates == Pending \cup {"completed", "absent"}
Commits == [parent : Nat, line : SUBSET Nat, by : {"user", "agent"},
            claim : Managed \cup {None}, tree : Trees]
Seals   == [parent : Nat, tree : Trees]
Places  == {"idle", "sealed", "tracked", "written", "rewritten", "moved",
            "resealed"}
Cmds    == [at : Places, s : Managed \cup {None}, fresh : BOOLEAN,
            owner : BOOLEAN, seal : Seals \cup {None}]

\* Where a process is when it works on a journal, by the state of its copy.
Publishing == {"fetch", "push", "refetch", "prove", "proven"}
Finding    == {"found", "repair"} \cup Repairing
Working    == {"loop", "moved"} \cup Finding \cup Publishing
Labels     == {"idle", "leased", "released", "chosen", "settle"} \cup Working

-----------------------------------------------------------------------------
(* The inductive invariant.                                                *)

GitTypes ==
  /\ env \in Scenarios
  /\ object \in Seq(Commits) /\ Base \in CommitIds
  /\ tip \in CommitIds /\ remote \in CommitIds /\ published \subseteq CommitIds
  /\ onBranch \in BOOLEAN /\ upstream \in BOOLEAN
  /\ index \subseteq Works /\ lock \in Finalizers \cup {None, "left"}

JournalTypes ==
  /\ jstate \in [Managed -> JStates] /\ seal \in [Managed -> Seals \cup {None}]
  /\ oid \in [Managed -> CommitIds \cup {None}]
  /\ \A s \in Managed : seal[s] # None => seal[s].parent \in CommitIds
  /\ acked \in [Managed -> BOOLEAN] /\ wins \in [Managed -> {0, 1}]
  /\ board \in [Managed -> {"doing", "both", "twice", "done"}]

RegistryTypes ==
  /\ ctl \in [Sessions -> {"none", "running", "resume", "queued", "stopped"}]
  /\ run \in Sessions \cup {None} /\ child \in BOOLEAN
  /\ wk \in {"none", "live", "dead"}
  /\ lease \in Processes \cup {None, "dead"} /\ flock \in Processes \cup {None}
  /\ cmd \in Cmds

ProcessTypes ==
  /\ pc \in [Processes -> Labels] /\ todo \in [Processes -> SUBSET Managed]
  /\ ps \in [Processes -> Sessions \cup {None}]
  /\ pstate \in [Processes -> JStates \cup {None}]
  /\ pfresh \in [Processes -> BOOLEAN] /\ pfirst \in [Processes -> BOOLEAN]
  /\ poid \in [Processes -> CommitIds \cup {None}]
  /\ pnew \in [Processes -> CommitIds \cup {None}]

\* Every commit has its ancestors, and only those, in its line.
History ==
  /\ object[Base].by = "user" /\ object[Base].claim = None
  /\ object[Base].line = {Base}
  /\ \A c \in CommitIds :
       Base \in Line(c) /\ c \in Line(c) /\ Line(c) \subseteq CommitIds
  /\ \A c \in CommitIds \ {Base} :
       object[c].parent \in CommitIds /\ Line(c) = Line(object[c].parent) \cup {c}

\* What the remote has now it has had.
RemoteKept == Line(remote) \subseteq published

\* Every agent commit up to c is the proven commit of another session.
Vetted(s, c) ==
  \A d \in Line(c) \ {Base} :
    object[d].by = "agent" =>
      \E t \in Managed \ {s} : oid[t] = d /\ jstate[t] = "completed"

\* A seal was taken on a vetted branch, and a proof fits its seal.
JournalsSound ==
  \A s \in Managed :
    /\ seal[s] # None => Vetted(s, seal[s].parent)
    /\ jstate[s] \in Finalizing \cup {"completed"} => seal[s] # None
    /\ oid[s] # None <=> jstate[s] \in {"push_pending", "completed"}
    /\ oid[s] # None => /\ MatchesSeal(oid[s], s)
                        /\ object[oid[s]].claim = s
                        /\ object[oid[s]].by = "agent"

\* The journal state at which each part of `clt done' read its generation.
CmdReads ==
  CASE cmd.at = "sealed"   -> "working"
    [] cmd.at = "resealed" -> "commit_pending"
    [] OTHER               -> "tracking"

\* A command with the current generation knows the journal's state.
CommandCurrent ==
  /\ cmd.at # "idle" => cmd.s \in Managed /\ cmd.seal # None
  /\ cmd.fresh => cmd.at # "idle" /\ jstate[cmd.s] = CmdReads
  /\ cmd.at \in {"sealed", "resealed"} =>
       cmd.seal.parent \in CommitIds /\ Vetted(cmd.s, cmd.seal.parent)

\* A process with the current generation knows the journal's state, and the
\* state of its copy is the one its place in the loop is for.
CopyCurrent(p) ==
  /\ pfresh[p] => pc[p] \in Working /\ pstate[p] = jstate[ps[p]]
  /\ pc[p] \in Working => ps[p] \in Managed
  /\ pc[p] = "chosen" => ps[p] \in Sessions
  /\ pc[p] = "moved" => pstate[p] = "tracking"
  /\ pc[p] \in Finding => pstate[p] = "commit_pending"
  /\ pc[p] \in Publishing => pstate[p] = "push_pending"
  /\ pc[p] \in Working /\ pstate[p] = "push_pending" => oid[ps[p]] # None

\* What a process has established of the commit at hand.
ProofHeld(p) ==
  /\ pc[p] \in Finding => /\ poid[p] \in CommitIds \ {Base}
                          /\ seal[ps[p]] # None
  /\ pc[p] \in Finding \ {"found"} => p # Worker
  /\ pc[p] = "found" => /\ object[poid[p]].claim = ps[p]
                        /\ object[poid[p]].by = "agent"
                        /\ pfresh[p] => MatchesSeal(poid[p], ps[p])
  /\ pc[p] \in {"swap", "ref"} =>
       /\ pnew[p] \in CommitIds \ {Base}
       /\ object[pnew[p]].parent = object[poid[p]].parent
  /\ pc[p] \in Publishing => poid[p] \in CommitIds
  /\ pc[p] = "prove" => Line(poid[p]) \subseteq published
  /\ pc[p] = "proven" => poid[p] = oid[ps[p]] /\ poid[p] \in published

\* A live Codex has its running row, and keeps the finalizer lease away.
CodexFenced ==
  /\ child => run \in Sessions /\ ctl[run] = "running"
  /\ lease \in Finalizers => ~child

\* A success that was recorded by a worker and not acknowledged belongs to a
\* completed session at rest, so no other run of it can record another.
SuccessKept ==
  \A s \in Managed :
    /\ acked[s] => wins[s] = 1
    /\ wins[s] = 1 /\ ~acked[s] =>
         jstate[s] = "completed" /\ ctl[s] \in {"none", "stopped"} /\ run # s

FinalizationInv ==
  /\ GitTypes /\ JournalTypes /\ RegistryTypes /\ ProcessTypes
  /\ History /\ RemoteKept /\ JournalsSound /\ CommandCurrent
  /\ \A p \in Processes : CopyCurrent(p) /\ ProofHeld(p)
  /\ CodexFenced /\ SuccessKept
-----------------------------------------------------------------------------
(* What steps can touch.                                                   *)

\* A step creates at most one commit, on a parent there is, with its line.
Created(rec) ==
  /\ object' = Append(object, rec)
  /\ rec \in Commits /\ rec.parent \in CommitIds
  /\ rec.line = Line(rec.parent) \cup {Len(object) + 1}

\* The fields of a commit.
LEMMA CommitTypes ==
  ASSUME GitTypes, NEW c \in CommitIds
  PROVE  /\ object[c] \in Commits /\ Len(object) \in Nat /\ c \in Nat
         /\ object[c].parent \in Nat /\ Line(c) \subseteq Nat
         /\ object[c].by \in {"user", "agent"}
         /\ object[c].claim \in Managed \cup {None} /\ Tree(c) \in Trees
<1>1. object[c] \in Commits /\ Len(object) \in Nat /\ c \in Nat
  BY DEF GitTypes, CommitIds
<1> QED BY <1>1 DEF Commits, Line, Tree

\* The three ways a commit is created (git commit by the agent and by the
\* user, and the amended commit of managed_git/repair.rs).
LEMMA CommitFacts ==
  ASSUME GitTypes, History, NEW parent \in CommitIds,
         NEW by \in {"user", "agent"}, NEW claim \in Managed \cup {None},
         NEW tree \in Trees
  PROVE  LET rec == Commit(parent, by, claim, tree) IN
         /\ rec \in Commits /\ rec.parent = parent
         /\ rec.line = Line(parent) \cup {Len(object) + 1}
         /\ rec.by = by /\ rec.claim = claim /\ rec.tree = tree
<1>1. Line(parent) \cup {Len(object) + 1} \subseteq Nat /\ parent \in Nat
  BY CommitTypes
<1> QED BY <1>1 DEF Commit, Commits

USE DEF git, rem, jrn, book, live, procs, world, regs, copy, vars

\* What the agent commits is a commit on the branch.
LEMMA AgentCommitsFacts ==
  ASSUME GitTypes, History, JournalTypes, AgentCommits
  PROVE  \E rec : Created(rec)
<1>1. PICK o \in BOOLEAN \cup {Tree(tip).ord} :
        object' = Append(object, Commit(tip, "agent", run,
         [done |-> Tree(tip).done \cup {s \in {run} : board[s] = "done"},
          work |-> index, ord |-> o]))
  BY DEF AgentCommits
<1> DEFINE tree == [done |-> Tree(tip).done \cup {s \in {run} : board[s] = "done"},
                    work |-> index, ord |-> o]
<1>2. Tree(tip) \in Trees /\ run \in Managed
  BY CommitTypes DEF GitTypes, AgentCommits
<1>3. tree \in Trees
  BY <1>2 DEF Trees, GitTypes
<1> HIDE DEF tree
<1>4. LET rec == Commit(tip, "agent", run, tree) IN
        /\ rec \in Commits /\ rec.parent = tip
        /\ rec.line = Line(tip) \cup {Len(object) + 1}
  BY <1>2, <1>3, CommitFacts DEF GitTypes
<1>5. object' = Append(object, Commit(tip, "agent", run, tree))
  BY <1>1 DEF tree
<1> QED BY <1>4, <1>5 DEF Created, GitTypes

\* A user's commit is one on the branch.
LEMMA UserCommitsFacts ==
  ASSUME GitTypes, History, NEW w \in Works, UserCommits(w)
  PROVE  \E rec : Created(rec)
<1> DEFINE tree == [Tree(tip) EXCEPT !.work = @ \cup {w}]
<1>1. Tree(tip) \in Trees
  BY CommitTypes DEF GitTypes
<1>2. tree \in Trees
  BY <1>1 DEF Trees
<1>3. object' = Append(object, Commit(tip, "user", None, tree))
  BY DEF UserCommits
<1> HIDE DEF tree
<1>4. LET rec == Commit(tip, "user", None, tree) IN
        /\ rec \in Commits /\ rec.parent = tip
        /\ rec.line = Line(tip) \cup {Len(object) + 1}
  BY <1>2, CommitFacts DEF GitTypes
<1> QED BY <1>3, <1>4 DEF Created, GitTypes

\* An amended commit takes the place of the one it amends.
LEMMA RepairAmendsFacts ==
  ASSUME GitTypes, History, JournalTypes, ProcessTypes, NEW p \in Processes,
         CopyCurrent(p), ProofHeld(p), RepairAmends(p)
  PROVE  /\ \E rec : Created(rec) /\ rec.parent = object[poid[p]].parent
         /\ Len(object') = Len(object) + 1
         /\ pnew' = [pnew EXCEPT ![p] = Len(object) + 1]
<1>1. /\ ps[p] \in Managed /\ seal[ps[p]].tree \in Trees
      /\ object[poid[p]].parent \in CommitIds
  BY DEF RepairAmends, CopyCurrent, ProofHeld, JournalTypes, Seals, History,
         Finding, Repairing, Working
<1> DEFINE tree == seal[ps[p]].tree
           parent == object[poid[p]].parent
<1>2. object' = Append(object, Commit(parent, "agent", ps[p], tree))
  BY DEF RepairAmends
<1>3. tree \in Trees /\ parent \in CommitIds
  BY <1>1
<1> HIDE DEF tree, parent
<1>4. LET rec == Commit(parent, "agent", ps[p], tree) IN
        /\ rec \in Commits /\ rec.parent = parent
        /\ rec.line = Line(parent) \cup {Len(object) + 1}
  BY <1>1, <1>3, CommitFacts
<1>5. Len(object') = Len(object) + 1
  BY <1>2, <1>4 DEF GitTypes
<1>6. \E rec : Created(rec) /\ rec.parent = parent
  BY <1>2, <1>3, <1>4 DEF Created
<1> QED BY <1>5, <1>6 DEF RepairAmends, parent

\* Commits are created by those three actions only.
LEMMA ObjectFootprint ==
  ASSUME [Next]_vars
  PROVE  \/ UNCHANGED object
         \/ AgentCommits
         \/ \E w \in Works : UserCommits(w)
         \/ \E p \in Processes : RepairAmends(p)
<1>1. CASE Agent
  BY <1>1 DEF Agent, AgentStages, DoneSeal, DoneTrack, DoneAgain, DoneMove,
     DoneFinish, ResealCapture, ResealStore, CmdDies, CodexExits
<1>2. CASE User
  BY <1>2 DEF User, UserRewinds, UserPublishes, UserSwitches,
     UserReconfigures, UserStops, UserResumes, ResumeWorkerRuns
<1>3. CASE Registry
  BY <1>3 DEF Registry, EnsureResume, ClearPushResume, Acknowledge,
     RetireCompleted, WorkerSettles, WorkerDies, WorkerAbandoned, RowRecovered,
     LeaseLapses, DeadLeaseExpires
<1>4. ASSUME NEW p \in Processes, Reconcile(p)
      PROVE  UNCHANGED object \/ RepairAmends(p)
  BY <1>4 DEF Reconcile, Begin, Skip, RepairBoard, FindCommit, CheckCommit,
     RemoteFails, Fetch, Push, ProvePush, Store, Finish, RepairChecks,
     RepairLocks, RepairIndex, RepairMoves, RepairFails, Stuck
<1>5. ASSUME NEW p \in Finalizers, Scheduler(p) PROVE UNCHANGED object
  BY <1>5 DEF Scheduler, AcquireFinalizer, ReleaseFinalizer, SchedulesPlain,
     SchedulerRuns, PassEnds, FinalizerCrashes
<1> QED BY <1>1, <1>2, <1>3, <1>4, <1>5 DEF Next

\* The scenario is fixed, commits are never changed or lost, and what was
\* published stays published.
LEMMA Growth ==
  ASSUME FinalizationInv, [Next]_vars
  PROVE  /\ env' = env /\ Trees' = Trees /\ Commits' = Commits
         /\ Seals' = Seals /\ Cmds' = Cmds
         /\ object' \in Seq(Commits) /\ CommitIds \subseteq CommitIds'
         /\ \A c \in CommitIds : object'[c] = object[c]
<1>1. env' = env
  <2>1. CASE Agent
    BY <2>1 DEF Agent, AgentStages, DoneSeal, DoneTrack, DoneAgain, DoneMove,
       DoneFinish, ResealCapture, ResealStore, AgentCommits, CmdDies, CodexExits
  <2>2. CASE User
    BY <2>2 DEF User, UserCommits, UserRewinds, UserPublishes, UserSwitches,
       UserReconfigures, UserStops, UserResumes, ResumeWorkerRuns
  <2>3. CASE Registry
    BY <2>3 DEF Registry, EnsureResume, ClearPushResume, Acknowledge,
       RetireCompleted, WorkerSettles, WorkerDies, WorkerAbandoned,
       RowRecovered, LeaseLapses, DeadLeaseExpires
  <2>4. ASSUME NEW p \in Processes, Reconcile(p) PROVE env' = env
    BY <2>4 DEF Reconcile, Begin, Skip, RepairBoard, FindCommit, CheckCommit,
       RemoteFails, Fetch, Push, ProvePush, Store, Finish, RepairChecks,
       RepairLocks, RepairAmends, RepairIndex, RepairMoves, RepairFails, Stuck
  <2>5. ASSUME NEW p \in Finalizers, Scheduler(p) PROVE env' = env
    BY <2>5 DEF Scheduler, AcquireFinalizer, ReleaseFinalizer, SchedulesPlain,
       SchedulerRuns, PassEnds, FinalizerCrashes
  <2> QED BY <2>1, <2>2, <2>3, <2>4, <2>5 DEF Next
<1>2. Trees' = Trees
  BY <1>1 DEF Trees, Works
<1>3. Commits' = Commits /\ Seals' = Seals
  BY <1>2 DEF Commits, Seals
<1>4. Cmds' = Cmds
  BY <1>3 DEF Cmds
<1>5. UNCHANGED object \/ \E rec : Created(rec)
  BY ObjectFootprint, AgentCommitsFacts, UserCommitsFacts, RepairAmendsFacts
     DEF FinalizationInv
<1>6. /\ object' \in Seq(Commits) /\ CommitIds \subseteq CommitIds'
      /\ \A c \in CommitIds : object'[c] = object[c]
  <2>1. object \in Seq(Commits)
    BY DEF FinalizationInv, GitTypes
  <2>2. CASE UNCHANGED object
    BY <2>1, <2>2 DEF CommitIds
  <2>3. ASSUME NEW rec, Created(rec)
        PROVE  /\ object' \in Seq(Commits) /\ CommitIds \subseteq CommitIds'
               /\ \A c \in CommitIds : object'[c] = object[c]
    BY <2>1, <2>3 DEF Created, CommitIds
  <2> QED BY <1>5, <2>2, <2>3
<1> QED BY <1>1, <1>2, <1>3, <1>4, <1>6

\* The remote is moved by the user's push and by a reconciliation's.
LEMMA RemoteFootprint ==
  ASSUME [Next]_vars
  PROVE  \/ UNCHANGED <<remote, published>>
         \/ UserPublishes
         \/ \E p \in Processes : Push(p)
<1>1. CASE Agent
  BY <1>1 DEF Agent, AgentStages, DoneSeal, DoneTrack, DoneAgain, DoneMove,
     DoneFinish, ResealCapture, ResealStore, AgentCommits, CmdDies, CodexExits
<1>2. CASE User
  BY <1>2 DEF User, UserCommits, UserRewinds, UserSwitches,
     UserReconfigures, UserStops, UserResumes, ResumeWorkerRuns
<1>3. CASE Registry
  BY <1>3 DEF Registry, EnsureResume, ClearPushResume, Acknowledge,
     RetireCompleted, WorkerSettles, WorkerDies, WorkerAbandoned, RowRecovered,
     LeaseLapses, DeadLeaseExpires
<1>4. ASSUME NEW p \in Processes, Reconcile(p)
      PROVE  UNCHANGED <<remote, published>> \/ Push(p)
  BY <1>4 DEF Reconcile, Begin, Skip, RepairBoard, FindCommit, CheckCommit,
     RemoteFails, Fetch, ProvePush, Store, Finish, RepairChecks,
     RepairLocks, RepairAmends, RepairIndex, RepairMoves, RepairFails, Stuck
<1>5. ASSUME NEW p \in Finalizers, Scheduler(p)
      PROVE  UNCHANGED <<remote, published>>
  BY <1>5 DEF Scheduler, AcquireFinalizer, ReleaseFinalizer, SchedulesPlain,
     SchedulerRuns, PassEnds, FinalizerCrashes
<1> QED BY <1>1, <1>2, <1>3, <1>4, <1>5 DEF Next

\* A push moves the remote to a commit there is, and publishes its line.
LEMMA RemoteSteps ==
  ASSUME FinalizationInv, [Next]_vars
  PROVE  \/ UNCHANGED <<remote, published>>
         \/ \E c \in CommitIds : /\ remote' = c
                                 /\ published' = published \cup Line(c)
                                 /\ UNCHANGED <<object, jrn>>
<1>1. ASSUME UserPublishes
      PROVE  \E c \in CommitIds : /\ remote' = c
                                  /\ published' = published \cup Line(c)
                                  /\ UNCHANGED <<object, jrn>>
  BY <1>1 DEF UserPublishes, FinalizationInv, GitTypes
<1>2. ASSUME NEW p \in Processes, Push(p)
      PROVE  \/ UNCHANGED <<remote, published>>
             \/ \E c \in CommitIds : /\ remote' = c
                                     /\ published' = published \cup Line(c)
                                     /\ UNCHANGED <<object, jrn>>
  <2>1. poid[p] \in CommitIds
    BY <1>2 DEF Push, FinalizationInv, ProofHeld, Publishing
  <2> QED BY <1>2, <2>1 DEF Push, Stuck
<1> QED BY <1>1, <1>2, RemoteFootprint

\* Journals are written by these four actions only.
LEMMA JournalFootprint ==
  ASSUME [Next]_vars
  PROVE  \/ UNCHANGED jrn
         \/ DoneTrack \/ DoneFinish \/ ResealStore
         \/ \E p \in Processes : Store(p)
<1>1. CASE Agent
  BY <1>1 DEF Agent, AgentStages, DoneSeal, DoneAgain, DoneMove,
     ResealCapture, AgentCommits, CmdDies, CodexExits
<1>2. CASE User
  BY <1>2 DEF User, UserCommits, UserRewinds, UserPublishes, UserSwitches,
     UserReconfigures, UserStops, UserResumes, ResumeWorkerRuns
<1>3. CASE Registry
  BY <1>3 DEF Registry, EnsureResume, ClearPushResume, Acknowledge,
     RetireCompleted, WorkerSettles, WorkerDies, WorkerAbandoned, RowRecovered,
     LeaseLapses, DeadLeaseExpires
<1>4. ASSUME NEW p \in Processes, Reconcile(p) PROVE UNCHANGED jrn \/ Store(p)
  BY <1>4 DEF Reconcile, Begin, Skip, RepairBoard, FindCommit, CheckCommit,
     RemoteFails, Fetch, Push, ProvePush, Finish, RepairChecks,
     RepairLocks, RepairAmends, RepairIndex, RepairMoves, RepairFails, Stuck
<1>5. ASSUME NEW p \in Finalizers, Scheduler(p) PROVE UNCHANGED jrn
  BY <1>5 DEF Scheduler, AcquireFinalizer, ReleaseFinalizer, SchedulesPlain,
     SchedulerRuns, PassEnds, FinalizerCrashes
<1> QED BY <1>1, <1>2, <1>3, <1>4, <1>5 DEF Next

-----------------------------------------------------------------------------
(* The four kinds of journal writes.                                       *)

\* track_git_finalization_with_manifest and reseal: new terms, no proof yet.
WritesSeal(s) ==
  /\ jstate[s] \in {"working", "commit_pending"}
  /\ jstate' = [jstate EXCEPT ![s] = IF @ = "working" THEN "tracking" ELSE @]
  /\ seal' = [seal EXCEPT ![s] = cmd.seal] /\ oid' = oid
  /\ cmd.seal \in Seals /\ cmd.seal # None /\ cmd.seal.parent \in CommitIds
  /\ Vetted(s, cmd.seal.parent)

\* The board move is finished.
WritesMove(s) ==
  /\ jstate[s] = "tracking" /\ jstate' = [jstate EXCEPT ![s] = "commit_pending"]
  /\ UNCHANGED <<seal, oid>>

\* The task commit is proven.
WritesProof(s) ==
  /\ jstate[s] = "commit_pending"
  /\ jstate' = [jstate EXCEPT ![s] = IF s \in PushMode THEN "push_pending"
                                     ELSE "completed"]
  /\ seal' = seal
  /\ \E c \in CommitIds \ {Base} :
       /\ oid' = [oid EXCEPT ![s] = c] /\ MatchesSeal(c, s)
       /\ object[c].claim = s /\ object[c].by = "agent"

\* Its publication is proven.
WritesPublication(s) ==
  /\ jstate[s] = "push_pending" /\ jstate' = [jstate EXCEPT ![s] = "completed"]
  /\ oid[s] \in published /\ UNCHANGED <<seal, oid>>

Writes(s) ==
  WritesSeal(s) \/ WritesMove(s) \/ WritesProof(s) \/ WritesPublication(s)

\* A command that still has the generation it read writes what that state
\* of the journal allows.
LEMMA CommandWrites ==
  ASSUME FinalizationInv, DoneTrack \/ DoneFinish \/ ResealStore
  PROVE  \/ UNCHANGED jrn
         \/ cmd.s \in Managed /\ Writes(cmd.s)
<1>0. /\ cmd \in Cmds /\ jstate \in [Managed -> JStates] /\ CommandCurrent
  BY DEF FinalizationInv, RegistryTypes, JournalTypes
<1>1. cmd.at \in Places /\ cmd.seal \in Seals \cup {None}
  BY <1>0 DEF Cmds
<1>2. CASE DoneTrack
  <2>1. CASE cmd.fresh /\ cmd.owner
    <3>1. /\ cmd.s \in Managed /\ jstate[cmd.s] = "working"
          /\ cmd.seal # None /\ cmd.seal.parent \in CommitIds
          /\ Vetted(cmd.s, cmd.seal.parent)
      BY <1>0, <1>2, <2>1 DEF DoneTrack, CommandCurrent, CmdReads
    <3> QED BY <1>0, <1>1, <1>2, <2>1, <3>1
            DEF DoneTrack, NewState, Writes, WritesSeal
  <2>2. CASE ~(cmd.fresh /\ cmd.owner)
    BY <1>2, <2>2 DEF DoneTrack
  <2> QED BY <2>1, <2>2
<1>3. CASE DoneFinish
  <2>1. CASE cmd.fresh /\ cmd.owner
    <3>1. cmd.s \in Managed /\ jstate[cmd.s] = "tracking"
      BY <1>0, <1>3, <2>1 DEF DoneFinish, CommandCurrent, CmdReads
    <3> QED BY <1>0, <1>3, <2>1, <3>1 DEF DoneFinish, NewState, Writes, WritesMove
  <2>2. CASE ~(cmd.fresh /\ cmd.owner)
    BY <1>3, <2>2 DEF DoneFinish
  <2> QED BY <2>1, <2>2
<1>4. CASE ResealStore
  <2>1. CASE cmd.fresh /\ cmd.owner
    <3>1. /\ cmd.s \in Managed /\ jstate[cmd.s] = "commit_pending"
          /\ cmd.seal # None /\ cmd.seal.parent \in CommitIds
          /\ Vetted(cmd.s, cmd.seal.parent)
      BY <1>0, <1>4, <2>1 DEF ResealStore, CommandCurrent, CmdReads
    <3> QED BY <1>0, <1>1, <1>4, <2>1, <3>1
            DEF ResealStore, Writes, WritesSeal
  <2>2. CASE ~(cmd.fresh /\ cmd.owner)
    BY <1>4, <2>2 DEF ResealStore
  <2> QED BY <2>1, <2>2
<1> QED BY <1>2, <1>3, <1>4

\* A reconciliation with the current generation stores what it has proved.
LEMMA StoreWrites ==
  ASSUME FinalizationInv, NEW p \in Processes, Store(p)
  PROVE  \/ UNCHANGED jrn /\ ~pfresh[p]
         \/ pfresh[p] /\ ps[p] \in Managed /\ Writes(ps[p])
<1>0. /\ jstate \in [Managed -> JStates] /\ oid \in [Managed -> CommitIds \cup {None}]
      /\ CopyCurrent(p) /\ ProofHeld(p) /\ pc[p] \in {"moved", "found", "proven"}
      /\ ps[p] \in Managed /\ pfresh[p] \in BOOLEAN
  BY DEF FinalizationInv, JournalTypes, ProcessTypes, CopyCurrent, Store, Working,
         Finding, Publishing
<1>1. CASE ~pfresh[p]
  BY <1>1 DEF Store, StillCurrent
<1>2. CASE pfresh[p] /\ pc[p] = "moved"
  BY <1>0, <1>2 DEF Store, StillCurrent, NewState, NextOf, CopyCurrent, Writes,
     WritesMove
<1>3. CASE pfresh[p] /\ pc[p] = "found"
  <2>1. /\ jstate[ps[p]] = "commit_pending" /\ poid[p] \in CommitIds \ {Base}
        /\ object[poid[p]].claim = ps[p] /\ object[poid[p]].by = "agent"
        /\ MatchesSeal(poid[p], ps[p])
    BY <1>0, <1>3 DEF CopyCurrent, ProofHeld, Finding
  <2>2. /\ jstate' = [jstate EXCEPT ![ps[p]] = IF ps[p] \in PushMode THEN "push_pending"
                                               ELSE "completed"]
        /\ oid' = [oid EXCEPT ![ps[p]] = poid[p]] /\ seal' = seal
    BY <1>3 DEF Store, StillCurrent, NewState, NextOf
  <2>3. WritesProof(ps[p])
    BY <2>1, <2>2 DEF WritesProof
  <2> QED BY <1>0, <1>3, <2>3 DEF Writes
<1>4. CASE pfresh[p] /\ pc[p] = "proven"
  <2>1. jstate[ps[p]] = "push_pending" /\ poid[p] = oid[ps[p]] /\ poid[p] \in published
    BY <1>0, <1>4 DEF CopyCurrent, ProofHeld, Publishing
  <2>2. /\ jstate' = [jstate EXCEPT ![ps[p]] = "completed"]
        /\ oid' = [oid EXCEPT ![ps[p]] = poid[p]] /\ seal' = seal
    BY <1>4 DEF Store, StillCurrent, NewState, NextOf
  <2>3. WritesPublication(ps[p])
    BY <1>0, <2>1, <2>2 DEF WritesPublication
  <2> QED BY <1>0, <1>4, <2>3 DEF Writes
<1> QED BY <1>0, <1>1, <1>2, <1>3, <1>4

\* Every step writes one journal in one of the four ways, or none.
LEMMA JournalWrites ==
  ASSUME FinalizationInv, [Next]_vars
  PROVE  \/ UNCHANGED jrn
         \/ UNCHANGED <<object, published, remote>> /\ \E s \in Managed : Writes(s)
<1>1. CASE DoneTrack \/ DoneFinish \/ ResealStore
  BY <1>1, CommandWrites DEF DoneTrack, DoneFinish, ResealStore
<1>2. ASSUME NEW p \in Processes, Store(p)
      PROVE  \/ UNCHANGED jrn
             \/ /\ UNCHANGED <<object, published, remote>>
                /\ \E s \in Managed : Writes(s)
  BY <1>2, StoreWrites DEF Store
<1> QED BY <1>1, <1>2, JournalFootprint

\* A line never changes.
LEMMA LinesKept ==
  ASSUME FinalizationInv, [Next]_vars, NEW c \in CommitIds
  PROVE  Line(c)' = Line(c) /\ Tree(c)' = Tree(c) /\ c \in CommitIds'
BY Growth DEF Line, Tree

\* The first-parent history grows at its ends only.
LEMMA HistoryStep ==
  ASSUME FinalizationInv, [Next]_vars
  PROVE  History'
<1>0. History /\ GitTypes /\ object \in Seq(Commits) /\ Base \in CommitIds
  BY DEF FinalizationInv, GitTypes
<1>1. UNCHANGED object \/ \E rec : Created(rec)
  BY ObjectFootprint, AgentCommitsFacts, UserCommitsFacts, RepairAmendsFacts
     DEF FinalizationInv
<1>2. CASE UNCHANGED object
  BY <1>0, <1>2 DEF History, CommitIds, Line, Base
<1>3. ASSUME NEW rec, Created(rec) PROVE History'
  <2>0. PICK n : n = Len(object) + 1
    OBVIOUS
  <2>1. /\ object'[n] = rec /\ CommitIds' = CommitIds \cup {n} /\ n # Base
        /\ n \notin CommitIds
        /\ \A c \in CommitIds : object'[c] = object[c]
    BY <1>0, <1>3, <2>0 DEF Created, CommitIds, Base
  <2>2. /\ rec.parent \in CommitIds /\ rec.line = Line(rec.parent) \cup {n}
    BY <1>3, <2>0 DEF Created
  <2>3. \A c \in CommitIds : Line(c)' = Line(c)
    BY <2>1 DEF Line
  <2>4. Line(n)' = rec.line
    BY <2>1 DEF Line
  <2>5. \A c \in CommitIds : c # Base => object[c].parent \in CommitIds
    BY <1>0 DEF History
  <2> QED BY <1>0, <2>1, <2>2, <2>3, <2>4, <2>5 DEF History
<1> QED BY <1>1, <1>2, <1>3

\* What the remote has is published.
LEMMA RemoteStep ==
  ASSUME FinalizationInv, [Next]_vars
  PROVE  /\ remote' \in CommitIds' /\ published' \subseteq CommitIds'
         /\ published \subseteq published' /\ RemoteKept'
<1>1. /\ remote \in CommitIds /\ published \subseteq CommitIds
      /\ RemoteKept /\ CommitIds \subseteq CommitIds'
      /\ \A c \in CommitIds : Line(c) \subseteq CommitIds
  BY Growth DEF FinalizationInv, GitTypes, History
<1>2. CASE UNCHANGED <<remote, published>>
  <2>0. PICK c \in CommitIds : c = remote
    BY <1>1
  <2>1. Line(remote)' = Line(remote)
    BY <2>0, <1>2, LinesKept DEF Line
  <2> QED BY <1>1, <1>2, <2>1 DEF RemoteKept
<1>3. ASSUME NEW c \in CommitIds, remote' = c, published' = published \cup Line(c)
      PROVE  /\ remote' \in CommitIds' /\ published' \subseteq CommitIds'
             /\ published \subseteq published' /\ RemoteKept'
  <2>1. Line(c)' = Line(c)
    BY LinesKept
  <2>2. Line(remote)' = Line(c)
    BY <1>3, <2>1 DEF Line
  <2> QED BY <1>1, <1>3, <2>2 DEF RemoteKept
<1> QED BY <1>2, <1>3, RemoteSteps

\* Proofs and seals are kept, and completion is final.
LEMMA ProofsKept ==
  ASSUME FinalizationInv, [Next]_vars, NEW s \in Managed
  PROVE  /\ oid[s] # None => oid'[s] = oid[s]
         /\ seal[s] # None => seal'[s] # None
         /\ jstate[s] = "completed" => jstate'[s] = "completed"
         /\ oid[s] # None => seal'[s] = seal[s]
<1>1. /\ jstate \in [Managed -> JStates] /\ seal \in [Managed -> Seals \cup {None}]
      /\ oid \in [Managed -> CommitIds \cup {None}]
      /\ oid[s] # None <=> jstate[s] \in {"push_pending", "completed"}
  BY DEF FinalizationInv, JournalTypes, JournalsSound
<1>2. ASSUME NEW t \in Managed, Writes(t)
      PROVE  /\ oid[s] # None => oid'[s] = oid[s]
             /\ seal[s] # None => seal'[s] # None
             /\ jstate[s] = "completed" => jstate'[s] = "completed"
             /\ oid[s] # None => seal'[s] = seal[s]
  BY <1>1, <1>2 DEF Writes, WritesSeal, WritesMove, WritesProof, WritesPublication
<1> QED BY <1>2, JournalWrites

\* A vetted commit stays vetted.
LEMMA VettedKept ==
  ASSUME FinalizationInv, [Next]_vars, NEW s \in Managed, NEW c \in CommitIds,
         Vetted(s, c)
  PROVE  Vetted(s, c)'
<1>1. Line(c)' = Line(c) /\ Line(c) \subseteq CommitIds
  BY LinesKept DEF FinalizationInv, History
<1>2. \A d \in CommitIds : object'[d] = object[d]
  BY Growth
<1>3. \A t \in Managed, d \in CommitIds :
        oid[t] = d /\ jstate[t] = "completed" => oid'[t] = d /\ jstate'[t] = "completed"
  <2> TAKE t \in Managed, d \in CommitIds
  <2>1. jstate[t] = "completed" => oid[t] # None
    BY DEF FinalizationInv, JournalsSound
  <2> QED BY <2>1, ProofsKept
<1> QED BY <1>1, <1>2, <1>3 DEF Vetted

\* The types of the journals.
LEMMA JournalColumns ==
  ASSUME FinalizationInv, [Next]_vars
  PROVE  /\ jstate' \in [Managed -> JStates]
         /\ seal' \in [Managed -> Seals' \cup {None}]
         /\ oid' \in [Managed -> CommitIds' \cup {None}]
         /\ \A s \in Managed : seal'[s] # None => seal'[s].parent \in CommitIds'
<1>1. /\ jstate \in [Managed -> JStates] /\ seal \in [Managed -> Seals \cup {None}]
      /\ oid \in [Managed -> CommitIds \cup {None}]
      /\ \A s \in Managed : seal[s] # None => seal[s].parent \in CommitIds
      /\ CommitIds \subseteq CommitIds' /\ Seals' = Seals
  BY Growth DEF FinalizationInv, JournalTypes
<1>2. ASSUME NEW t \in Managed, Writes(t)
      PROVE  /\ jstate' \in [Managed -> JStates]
             /\ seal' \in [Managed -> Seals \cup {None}]
             /\ oid' \in [Managed -> CommitIds \cup {None}]
             /\ \A s \in Managed : seal'[s] # None => seal'[s].parent \in CommitIds
  BY <1>1, <1>2 DEF Writes, WritesSeal, WritesMove, WritesProof, WritesPublication,
     JStates, Pending, Finalizing
<1>3. /\ jstate' \in [Managed -> JStates]
      /\ seal' \in [Managed -> Seals \cup {None}]
      /\ oid' \in [Managed -> CommitIds \cup {None}]
      /\ \A s \in Managed : seal'[s] # None => seal'[s].parent \in CommitIds
  BY <1>1, <1>2, JournalWrites
<1> QED BY <1>1, <1>3

\* Seals stay vetted and proofs keep fitting their seals.
LEMMA JournalsStep ==
  ASSUME FinalizationInv, [Next]_vars
  PROVE  JournalsSound'
<1> SUFFICES ASSUME NEW s \in Managed
             PROVE  /\ seal'[s] # None => Vetted(s, seal[s].parent)'
                    /\ jstate'[s] \in Finalizing \cup {"completed"} => seal'[s] # None
                    /\ oid'[s] # None <=> jstate'[s] \in {"push_pending", "completed"}
                    /\ oid'[s] # None => /\ MatchesSeal(oid[s], s)'
                                         /\ object'[oid'[s]].claim = s
                                         /\ object'[oid'[s]].by = "agent"
  BY DEF JournalsSound
<1>1. /\ jstate \in [Managed -> JStates] /\ seal \in [Managed -> Seals \cup {None}]
      /\ oid \in [Managed -> CommitIds \cup {None}]
      /\ seal[s] # None => seal[s].parent \in CommitIds
      /\ \A c \in CommitIds : object'[c] = object[c]
      /\ None \notin CommitIds
  BY Growth, GitConstants DEF FinalizationInv, JournalTypes, CommitIds
<1>2. /\ seal[s] # None => Vetted(s, seal[s].parent)
      /\ jstate[s] \in Finalizing \cup {"completed"} => seal[s] # None
      /\ oid[s] # None <=> jstate[s] \in {"push_pending", "completed"}
      /\ oid[s] # None => /\ MatchesSeal(oid[s], s)
                          /\ object[oid[s]].claim = s /\ object[oid[s]].by = "agent"
  BY DEF FinalizationInv, JournalsSound
<1>3. CASE seal'[s] = seal[s] /\ oid'[s] = oid[s] /\ jstate'[s] = jstate[s]
  <2>1. seal[s] # None => Vetted(s, seal[s].parent)'
    <3> SUFFICES ASSUME seal[s] # None PROVE Vetted(s, seal[s].parent)'
      OBVIOUS
    <3>1. PICK c \in CommitIds : c = seal[s].parent /\ Vetted(s, c)
      BY <1>1, <1>2
    <3>2. Vetted(s, c)'
      BY <3>1, VettedKept
    <3> QED BY <1>3, <3>1, <3>2 DEF Vetted, Line
  <2>2. oid[s] # None => MatchesSeal(oid[s], s)'
    BY <1>1, <1>2, <1>3 DEF MatchesSeal, Tree
  <2> QED BY <1>1, <1>2, <1>3, <2>1, <2>2
<1>4. CASE UNCHANGED <<object, published, remote>> /\ Writes(s)
  <2>1. CASE WritesSeal(s)
    <3>1. PICK c \in CommitIds : Vetted(s, c) /\ seal'[s].parent = c
      BY <1>1, <2>1 DEF WritesSeal
    <3>2. Vetted(s, c)'
      BY <3>1, VettedKept
    <3>3. Vetted(s, seal[s].parent)'
      BY <3>1, <3>2 DEF Vetted, Line
    <3> QED BY <1>1, <1>2, <2>1, <3>3 DEF WritesSeal, Finalizing
  <2>2. CASE WritesMove(s) \/ WritesProof(s) \/ WritesPublication(s)
    <3>1. seal'[s] = seal[s] /\ seal[s] # None
      BY <1>2, <2>2 DEF WritesMove, WritesProof, WritesPublication, Finalizing
    <3>2. PICK c \in CommitIds : Vetted(s, c) /\ seal'[s].parent = c
      BY <1>1, <1>2, <3>1
    <3>3. Vetted(s, c)'
      BY <3>2, VettedKept
    <3>4. Vetted(s, seal[s].parent)'
      BY <3>2, <3>3 DEF Vetted, Line
    <3>5. /\ oid'[s] # None <=> jstate'[s] \in {"push_pending", "completed"}
          /\ oid'[s] # None => /\ MatchesSeal(oid[s], s)'
                               /\ object'[oid'[s]].claim = s
                               /\ object'[oid'[s]].by = "agent"
      BY <1>1, <1>2, <1>4, <2>2, <3>1 DEF WritesMove, WritesProof, WritesPublication,
         MatchesSeal, Tree
    <3> QED BY <3>1, <3>4, <3>5
  <2> QED BY <1>4, <2>1, <2>2 DEF Writes
<1>5. ASSUME NEW t \in Managed, t # s, Writes(t)
      PROVE  seal'[s] = seal[s] /\ oid'[s] = oid[s] /\ jstate'[s] = jstate[s]
  BY <1>1, <1>5 DEF Writes, WritesSeal, WritesMove, WritesProof, WritesPublication
<1> QED BY <1>3, <1>4, <1>5, JournalWrites

-----------------------------------------------------------------------------
(* The types.                                                              *)

\* The branch always has a commit there is: a rewind goes to a parent, a
\* repair to the amended commit.
LEMMA TipStep ==
  ASSUME FinalizationInv, [Next]_vars
  PROVE  tip' \in CommitIds'
<1>0. /\ tip \in CommitIds /\ CommitIds \subseteq CommitIds' /\ GitTypes
      /\ History /\ JournalTypes
  BY Growth DEF FinalizationInv, GitTypes
<1>1. CASE AgentCommits
  <2>1. Len(object') \in CommitIds'
    BY <1>0, <1>1, AgentCommitsFacts DEF Created, GitTypes, CommitIds
  <2> QED BY <1>1, <2>1 DEF AgentCommits
<1>2. ASSUME NEW w \in Works, UserCommits(w) PROVE tip' \in CommitIds'
  <2>1. Len(object') \in CommitIds'
    BY <1>0, <1>2, UserCommitsFacts DEF Created, GitTypes, CommitIds
  <2> QED BY <1>2, <2>1 DEF UserCommits
<1>3. CASE UserRewinds
  BY <1>0, <1>3 DEF UserRewinds, History
<1>4. ASSUME NEW p \in Processes, RepairMoves(p) PROVE tip' \in CommitIds'
  BY <1>0, <1>4 DEF RepairMoves, FinalizationInv, ProofHeld
<1>5. CASE Agent
  BY <1>0, <1>1, <1>5 DEF Agent, AgentStages, DoneSeal, DoneTrack, DoneAgain,
     DoneMove, DoneFinish, ResealCapture, ResealStore, CmdDies, CodexExits
<1>6. CASE User
  BY <1>0, <1>2, <1>3, <1>6 DEF User, UserPublishes, UserSwitches,
     UserReconfigures, UserStops, UserResumes, ResumeWorkerRuns
<1>7. CASE Registry
  BY <1>0, <1>7 DEF Registry, EnsureResume, ClearPushResume, Acknowledge,
     RetireCompleted, WorkerSettles, WorkerDies, WorkerAbandoned, RowRecovered,
     LeaseLapses, DeadLeaseExpires
<1>8. ASSUME NEW p \in Processes, Reconcile(p) PROVE tip' = tip \/ RepairMoves(p)
  BY <1>8 DEF Reconcile, Begin, Skip, RepairBoard, FindCommit, CheckCommit,
     RemoteFails, Fetch, Push, ProvePush, Store, Finish, RepairChecks,
     RepairLocks, RepairAmends, RepairIndex, RepairFails, Stuck
<1>9. ASSUME NEW p \in Finalizers, Scheduler(p) PROVE tip' = tip
  BY <1>9 DEF Scheduler, AcquireFinalizer, ReleaseFinalizer, SchedulesPlain,
     SchedulerRuns, PassEnds, FinalizerCrashes
<1>10. CASE UNCHANGED vars
  BY <1>0, <1>10
<1> QED BY <1>0, <1>4, <1>5, <1>6, <1>7, <1>8, <1>9, <1>10 DEF Next

\* Only a repair, by a scheduler, creates index.lock; the rest of the checkout.
LEMMA GitStep ==
  ASSUME FinalizationInv, [Next]_vars
  PROVE  GitTypes'
<1>0. GitTypes
  BY DEF FinalizationInv
<1>1. Works' = Works
  BY Growth DEF Works
<1> DEFINE Rest == /\ onBranch' \in BOOLEAN /\ upstream' \in BOOLEAN
                   /\ index' \subseteq Works
                   /\ lock' \in Finalizers \cup {None, "left"}
<1>2. ASSUME Agent PROVE Rest
  BY <1>0, <1>2 DEF Agent, AgentStages, DoneSeal, DoneTrack, DoneAgain,
     DoneMove, DoneFinish, ResealCapture, ResealStore, AgentCommits, CmdDies,
     CodexExits, GitTypes
<1>3. ASSUME User PROVE Rest
  BY <1>0, <1>3 DEF User, UserCommits, UserRewinds, UserPublishes, UserSwitches,
     UserReconfigures, UserStops, UserResumes, ResumeWorkerRuns, GitTypes
<1>4. ASSUME Registry PROVE Rest
  BY <1>0, <1>4 DEF Registry, EnsureResume, ClearPushResume, Acknowledge,
     RetireCompleted, WorkerSettles, WorkerDies, WorkerAbandoned, RowRecovered,
     LeaseLapses, DeadLeaseExpires, GitTypes
<1>5. ASSUME NEW p \in Processes, Reconcile(p) PROVE Rest
  <2>1. pc[p] = "unpublished" => p \in Finalizers
    BY DEF FinalizationInv, ProofHeld, Finding, Repairing, Processes
  <2>2. RepairLocks(p) => Rest
    BY <1>0, <2>1 DEF RepairLocks, RepairStep, GitTypes
  <2>3. Leave(p) => lock' \in Finalizers \cup {None, "left"}
    BY <1>0 DEF Leave, GitTypes
  <2>4. Stuck(p) => Rest
    BY <1>0, <2>3 DEF Stuck, GiveUp, GitTypes
  <2> QED BY <1>0, <1>5, <2>2, <2>3, <2>4 DEF Reconcile, Begin, Skip, RepairBoard,
       FindCommit, CheckCommit, RemoteFails, Fetch, Push, ProvePush, Store, Finish,
       RepairChecks, RepairAmends, RepairIndex, RepairMoves, RepairFails, GiveUp,
       GitTypes
<1>6. ASSUME NEW p \in Finalizers, Scheduler(p) PROVE Rest
  BY <1>0, <1>6 DEF Scheduler, AcquireFinalizer, ReleaseFinalizer, SchedulesPlain,
     SchedulerRuns, PassEnds, FinalizerCrashes, GitTypes
<1>7. ASSUME UNCHANGED vars PROVE Rest
  BY <1>0, <1>7 DEF GitTypes
<1>8. Rest
  BY <1>2, <1>3, <1>4, <1>5, <1>6, <1>7 DEF Next
<1> HIDE DEF Rest
<1>9. Base \in CommitIds' /\ env' \in Scenarios /\ object' \in Seq(Commits')
  BY Growth DEF FinalizationInv, GitTypes
<1> QED BY <1>1, <1>8, <1>9, TipStep, RemoteStep DEF GitTypes, Rest, Base

\* The journals' other columns.
LEMMA JournalTypesStep ==
  ASSUME FinalizationInv, [Next]_vars
  PROVE  JournalTypes'
<1> DEFINE Spots == {"doing", "both", "twice", "done"}
           Rest == /\ acked' \in [Managed -> BOOLEAN] /\ wins' \in [Managed -> {0, 1}]
                   /\ board' \in [Managed -> Spots]
<1>0. /\ acked \in [Managed -> BOOLEAN] /\ wins \in [Managed -> {0, 1}]
      /\ board \in [Managed -> Spots] /\ SuccessKept
  BY DEF FinalizationInv, JournalTypes
<1>1. ASSUME Agent PROVE Rest
  BY <1>0, <1>1 DEF Agent, AgentStages, DoneSeal, DoneTrack, DoneAgain,
     DoneMove, DoneFinish, ResealCapture, ResealStore, AgentCommits, CmdDies,
     CodexExits
<1>2. ASSUME User PROVE Rest
  BY <1>0, <1>2 DEF User, UserCommits, UserRewinds, UserPublishes, UserSwitches,
     UserReconfigures, UserStops, UserResumes, ResumeWorkerRuns
<1>3. ASSUME Registry PROVE Rest
  <2>1. ASSUME WorkerSettles PROVE Rest
    BY <1>0, <2>1 DEF WorkerSettles, SuccessKept
  <2>2. ASSUME NEW s \in Managed, Acknowledge(s) PROVE Rest
    BY <1>0, <2>2 DEF Acknowledge
  <2> QED BY <1>0, <1>3, <2>1, <2>2 DEF Registry, EnsureResume, ClearPushResume,
       RetireCompleted, WorkerDies, WorkerAbandoned, RowRecovered,
       LeaseLapses, DeadLeaseExpires
<1>4. ASSUME NEW p \in Processes, Reconcile(p) PROVE Rest
  BY <1>0, <1>4 DEF Reconcile, Begin, Skip, RepairBoard, FindCommit, CheckCommit,
     RemoteFails, Fetch, Push, ProvePush, Store, Finish, RepairChecks,
     RepairLocks, RepairAmends, RepairIndex, RepairMoves, RepairFails, Stuck
<1>5. ASSUME NEW p \in Finalizers, Scheduler(p) PROVE Rest
  BY <1>0, <1>5 DEF Scheduler, AcquireFinalizer, ReleaseFinalizer, SchedulesPlain,
     SchedulerRuns, PassEnds, FinalizerCrashes
<1>6. ASSUME UNCHANGED vars PROVE Rest
  BY <1>0, <1>6
<1>7. Rest
  BY <1>1, <1>2, <1>3, <1>4, <1>5, <1>6 DEF Next
<1> QED BY <1>7, JournalColumns DEF JournalTypes

-----------------------------------------------------------------------------
(* The `clt done' command.                                                 *)

\* A range that was audited is vetted.
LEMMA RangeIsVetted ==
  ASSUME FinalizationInv, NEW s \in Managed, RangeSafe(s, tip)
  PROVE  Vetted(s, tip)
BY DEF RangeSafe, Vetted, Compatible, ProvenOther

\* No seal is mistaken for a missing one.
LEMMA SealIsThere ==
  ASSUME GitTypes, NEW sl \in Seals
  PROVE  sl # None
<1>1. Works \subseteq Changes
  BY GitScenarios DEF GitTypes, Works
<1>2. sl \in [parent : Nat, tree : [done : SUBSET Managed, work : SUBSET Changes,
                                   ord : BOOLEAN]]
  BY <1>1 DEF Seals, Trees
<1> QED BY <1>2, GitConstants

\* A command that begins with a seal: what it took from the branch.
LEMMA CaptureFacts ==
  ASSUME FinalizationInv, [Next]_vars, NEW o \in BOOLEAN, NEW at \in {"sealed", "resealed"},
         run \in Managed, RangeSafe(run, tip),
         jstate[run] = IF at = "sealed" THEN "working" ELSE "commit_pending",
         cmd' = [at |-> at, s |-> run, fresh |-> TRUE, owner |-> TRUE,
                 seal |-> [parent |-> tip, tree |-> StagedTree(run, o)]],
         UNCHANGED <<object, jrn>>
  PROVE  cmd' \in Cmds /\ CommandCurrent'
<1>1. /\ tip \in CommitIds /\ tip \in Nat /\ Tree(tip) \in Trees
      /\ index \subseteq Works /\ CommitIds' = CommitIds
  BY CommitTypes DEF FinalizationInv, GitTypes, CommitIds
<1>2. StagedTree(run, o) \in Trees
  BY <1>1 DEF StagedTree, Trees
<1> DEFINE sl == [parent |-> tip, tree |-> StagedTree(run, o)]
<1>3. sl \in Seals /\ sl.parent = tip
  BY <1>1, <1>2 DEF Seals
<1>4. sl # None
  BY <1>3, SealIsThere DEF FinalizationInv
<1> HIDE DEF sl
<1>5. /\ cmd'.at = at /\ cmd'.s = run /\ cmd'.fresh = TRUE /\ cmd'.seal = sl
      /\ cmd' \in Cmds
  BY <1>3 DEF sl, Cmds, Places
<1>6. Vetted(run, tip)
  BY RangeIsVetted
<1>7. Vetted(cmd.s, cmd.seal.parent)'
  BY <1>3, <1>5, <1>6 DEF Vetted, Line
<1> QED BY <1>1, <1>3, <1>4, <1>5, <1>7 DEF CommandCurrent, CmdReads

\* Nothing of a command but that its generation went stale.
CmdKept ==
  /\ cmd' \in Cmds /\ cmd'.at = cmd.at /\ cmd'.s = cmd.s /\ cmd'.seal = cmd.seal
  /\ cmd'.fresh => cmd.fresh /\ jstate'[cmd.s] = jstate[cmd.s]

\* Such a step keeps what is known of the command.
LEMMA CommandFrame ==
  ASSUME FinalizationInv, [Next]_vars, CmdKept
  PROVE  CommandCurrent'
<1>0. CommandCurrent /\ CommitIds \subseteq CommitIds'
  BY Growth DEF FinalizationInv
<1>1. ASSUME cmd.at \in {"sealed", "resealed"}
      PROVE  cmd'.seal.parent \in CommitIds' /\ Vetted(cmd.s, cmd.seal.parent)'
  <2>1. PICK c \in CommitIds, s \in Managed :
          c = cmd.seal.parent /\ s = cmd.s /\ Vetted(s, c)
    BY <1>0, <1>1 DEF CommandCurrent
  <2>2. Vetted(s, c)'
    BY <2>1, VettedKept
  <2> QED BY <1>0, <2>1, <2>2 DEF CmdKept, Vetted, Line
<1> QED BY <1>0, <1>1 DEF CmdKept, CommandCurrent, CmdReads

\* A command that is over.
LEMMA CommandEnds ==
  ASSUME cmd' = NoCmd
  PROVE  cmd' \in Cmds /\ CommandCurrent'
BY DEF NoCmd, Cmds, Places, CommandCurrent

\* Each part of `clt done', and whatever others do meanwhile.
LEMMA CommandStep ==
  ASSUME FinalizationInv, [Next]_vars
  PROVE  cmd' \in Cmds' /\ CommandCurrent'
<1> SUFFICES cmd' \in Cmds /\ CommandCurrent'
  BY Growth
<1>0. /\ cmd \in Cmds /\ CommandCurrent /\ jstate \in [Managed -> JStates]
      /\ seal \in [Managed -> Seals \cup {None}]
      /\ CommitIds \subseteq CommitIds' /\ Tree(tip).ord \in BOOLEAN
  <2>1. Tree(tip) \in Trees
    BY CommitTypes DEF FinalizationInv, GitTypes
  <2> QED BY <2>1, Growth DEF FinalizationInv, RegistryTypes, JournalTypes, Trees
<1>00. /\ cmd = [at |-> cmd.at, s |-> cmd.s, fresh |-> cmd.fresh,
                 owner |-> cmd.owner, seal |-> cmd.seal]
       /\ cmd.at \in Places /\ cmd.s \in Managed \cup {None}
       /\ cmd.fresh \in BOOLEAN /\ cmd.owner \in BOOLEAN
       /\ cmd.seal \in Seals \cup {None}
  BY <1>0 DEF Cmds
<1>1. CASE cmd' = cmd /\ UNCHANGED jstate
  BY <1>0, <1>1, CommandFrame DEF CmdKept
<1>2. CASE cmd' = NoCmd
  BY <1>2, CommandEnds
<1>3. CASE Disown /\ UNCHANGED jstate
  BY <1>0, <1>00, <1>3, CommandFrame DEF CmdKept, Disown, Cmds
<1>4. CASE DoneSeal
  BY <1>0, <1>4, CaptureFacts DEF DoneSeal
<1>5. CASE ResealCapture
  <2>1. PICK o \in BOOLEAN :
          cmd' = [at |-> "resealed", s |-> run, fresh |-> TRUE, owner |-> TRUE,
                  seal |-> [parent |-> tip, tree |-> StagedTree(run, o)]]
    BY <1>0, <1>5 DEF ResealCapture
  <2> QED BY <1>5, <2>1, CaptureFacts DEF ResealCapture
<1>6. CASE DoneTrack
  <2>1. CASE cmd.fresh /\ cmd.owner
    <3>1. cmd.s \in Managed /\ cmd.seal # None
      BY <1>0, <1>6 DEF DoneTrack, CommandCurrent
    <3>2. /\ cmd'.at = "tracked" /\ cmd'.s = cmd.s /\ cmd'.seal = cmd.seal
          /\ cmd' \in Cmds
      BY <1>00, <1>6, <2>1 DEF DoneTrack, Cmds, Places
    <3>3. jstate'[cmd.s] = "tracking"
      BY <1>0, <1>6, <2>1, <3>1 DEF DoneTrack, NewState
    <3> QED BY <3>1, <3>2, <3>3 DEF CommandCurrent, CmdReads
  <2> QED BY <1>2, <1>6, <2>1 DEF DoneTrack
<1>7. CASE DoneAgain
  <2>1. run \in Managed /\ jstate'[run] = "tracking" /\ seal[run] # None
    BY <1>7 DEF DoneAgain, FinalizationInv, JournalsSound, Finalizing
  <2>2. /\ cmd'.at = "tracked" /\ cmd'.s = run /\ cmd'.seal = seal[run]
        /\ cmd' \in Cmds
    BY <1>0, <1>7, <2>1 DEF DoneAgain, Cmds, Places
  <2> QED BY <2>1, <2>2 DEF CommandCurrent, CmdReads
<1>8. CASE DoneMove
  <2>1. /\ cmd'.at \in {"written", "rewritten", "moved"} /\ cmd'.s = cmd.s
        /\ cmd'.seal = cmd.seal /\ cmd'.fresh = cmd.fresh /\ cmd' \in Cmds
    BY <1>00, <1>8 DEF DoneMove, Cmds, Places
  <2>2. /\ cmd.s \in Managed /\ cmd.seal # None
        /\ cmd.fresh => jstate'[cmd.s] = "tracking"
    BY <1>0, <1>8 DEF DoneMove, CommandCurrent, CmdReads
  <2> QED BY <2>1, <2>2 DEF CommandCurrent, CmdReads
<1>9. ASSUME NEW s, cmd' = [cmd EXCEPT !.fresh = @ /\ cmd.s # s],
             UNCHANGED jstate \/ \E st : NewState(s, st)
      PROVE  cmd' \in Cmds /\ CommandCurrent'
  <2>1. /\ cmd' \in Cmds /\ cmd'.at = cmd.at /\ cmd'.s = cmd.s
        /\ cmd'.seal = cmd.seal /\ cmd'.fresh => cmd.fresh /\ cmd.s # s
    BY <1>00, <1>9 DEF Cmds
  <2>2. cmd.fresh => cmd.s \in Managed
    BY <1>0 DEF CommandCurrent
  <2>3. CmdKept
    BY <1>0, <1>9, <2>1, <2>2 DEF CmdKept, NewState
  <2> QED BY <2>3, CommandFrame DEF CmdKept
<1>10. CASE Agent
  BY <1>1, <1>2, <1>4, <1>5, <1>6, <1>7, <1>8, <1>10 DEF Agent, AgentStages,
     DoneFinish, ResealStore, AgentCommits, CmdDies, CodexExits
<1>11. CASE User
  BY <1>1, <1>11 DEF User, UserCommits, UserRewinds, UserPublishes, UserSwitches,
     UserReconfigures, UserStops, UserResumes, ResumeWorkerRuns
<1>12. CASE Registry
  BY <1>1, <1>3, <1>12 DEF Registry, EnsureResume, ClearPushResume, Acknowledge,
     RetireCompleted, WorkerSettles, WorkerDies, WorkerAbandoned, RowRecovered,
     LeaseLapses, DeadLeaseExpires
<1>13. ASSUME NEW p \in Processes, Reconcile(p)
       PROVE  cmd' \in Cmds /\ CommandCurrent'
  <2>1. CASE Store(p)
    BY <1>1, <1>9, <2>1 DEF Store
  <2>2. CASE UNCHANGED jstate /\ GiveUp(p)
    BY <1>1, <1>9, <2>2 DEF GiveUp
  <2> QED BY <1>1, <1>13, <2>1, <2>2 DEF Reconcile, Begin, Skip, RepairBoard,
       FindCommit, CheckCommit, RemoteFails, Fetch, Push, ProvePush, Finish,
       RepairChecks, RepairLocks, RepairAmends, RepairIndex, RepairMoves,
       RepairFails, Stuck
<1>14. ASSUME NEW p \in Finalizers, Scheduler(p)
       PROVE  cmd' \in Cmds /\ CommandCurrent'
  BY <1>1, <1>14 DEF Scheduler, AcquireFinalizer, ReleaseFinalizer, SchedulesPlain,
     SchedulerRuns, PassEnds, FinalizerCrashes
<1>15. CASE UNCHANGED vars
  BY <1>1, <1>15
<1> QED BY <1>10, <1>11, <1>12, <1>13, <1>14, <1>15 DEF Next

-----------------------------------------------------------------------------
(* The registry: control rows, runs and leases.                            *)

\* A step starts the run of a session that was waiting for one, under the
\* worker's lease, or starts none.
LEMMA RunStarts ==
  ASSUME FinalizationInv, [Next]_vars
  PROVE  \/ \E s \in Sessions : Launch(s) /\ ctl[s] \in {"resume", "queued"}
         \/ /\ child' \in BOOLEAN /\ (child' => child) /\ run' \in {run, None}
            /\ (child' => run' = run) /\ wk' \in {wk, "none", "dead"}
<1>0. child \in BOOLEAN /\ CodexFenced
  BY DEF FinalizationInv, RegistryTypes
<1>1. CASE Agent
  BY <1>0, <1>1 DEF Agent, AgentStages, DoneSeal, DoneTrack, DoneAgain,
     DoneMove, DoneFinish, ResealCapture, ResealStore, AgentCommits, CmdDies,
     CodexExits
<1>2. CASE User
  BY <1>0, <1>2 DEF User, UserCommits, UserRewinds, UserPublishes, UserSwitches,
     UserReconfigures, UserStops, UserResumes, ResumeWorkerRuns
<1>3. CASE Registry
  BY <1>0, <1>3 DEF Registry, EnsureResume, ClearPushResume, Acknowledge,
     RetireCompleted, WorkerSettles, WorkerDies, WorkerAbandoned, RowRecovered,
     LeaseLapses, DeadLeaseExpires
<1>4. ASSUME NEW p \in Processes, Reconcile(p) PROVE UNCHANGED live
  BY <1>4 DEF Reconcile, Begin, Skip, RepairBoard, FindCommit, CheckCommit,
     RemoteFails, Fetch, Push, ProvePush, Store, Finish, RepairChecks,
     RepairLocks, RepairAmends, RepairIndex, RepairMoves, RepairFails, Stuck
<1>5. ASSUME NEW p \in Finalizers, Scheduler(p)
      PROVE  \/ \E s \in Sessions : Launch(s) /\ ctl[s] \in {"resume", "queued"}
             \/ UNCHANGED live
  <2>1. pc[p] = "chosen" => ps[p] \in Sessions
    BY DEF FinalizationInv, CopyCurrent, Processes
  <2> QED BY <1>5, <2>1 DEF Scheduler, AcquireFinalizer, ReleaseFinalizer,
       SchedulesPlain, SchedulerRuns, PassEnds, FinalizerCrashes
<1> QED BY <1>0, <1>1, <1>2, <1>3, <1>4, <1>5 DEF Next

\* Where the control row of a session may go: a launch apart, a row that is
\* running ends with its run, and the row of a completed session is not asked
\* to run again.
RowStep(s) ==
  \/ ctl'[s] = ctl[s]
  \/ Launch(s) /\ ctl[s] \in {"resume", "queued"}
  \/ run = s /\ ~child
  \/ ctl[s] \in {"resume", "queued"} /\ ctl'[s] \in {"none", "stopped"}
  \/ /\ ctl[s] # "running" /\ ctl'[s] \in {"resume", "queued"}
     /\ s \in Managed => jstate[s] \in Pending

\* Every step takes each control row where its guards let it.
LEMMA RowSteps ==
  ASSUME FinalizationInv, [Next]_vars
  PROVE  /\ ctl' \in [Sessions -> {"none", "running", "resume", "queued", "stopped"}]
         /\ \A s \in Sessions : RowStep(s)
<1> DEFINE Rows == {"none", "running", "resume", "queued", "stopped"}
           Goal == ctl' \in [Sessions -> Rows] /\ \A s \in Sessions : RowStep(s)
<1>0. ctl \in [Sessions -> Rows] /\ Managed \subseteq Sessions
  BY DEF FinalizationInv, RegistryTypes, Sessions
<1>1. ASSUME UNCHANGED ctl PROVE Goal
  BY <1>0, <1>1 DEF RowStep
<1>2. ASSUME NEW t \in Sessions, Launch(t), ctl[t] \in {"resume", "queued"}
      PROVE  Goal
  BY <1>0, <1>2 DEF Launch, RowStep
<1>3. ASSUME Agent PROVE Goal
  BY <1>1, <1>3 DEF Agent, AgentStages, DoneSeal, DoneTrack, DoneAgain,
     DoneMove, DoneFinish, ResealCapture, ResealStore, AgentCommits, CmdDies,
     CodexExits
<1>4. ASSUME User PROVE Goal
  <2>1. ASSUME NEW t \in Sessions, UserStops(t) \/ UserResumes(t) PROVE Goal
    BY <1>0, <2>1 DEF UserStops, UserResumes, RowStep
  <2> QED BY <1>1, <1>2, <1>4, <2>1 DEF User, UserCommits, UserRewinds,
       UserPublishes, UserSwitches, UserReconfigures, ResumeWorkerRuns
<1>5. ASSUME Registry PROVE Goal
  <2>1. ASSUME NEW t \in Managed, EnsureResume(t) \/ ClearPushResume(t)
                                  \/ Acknowledge(t) \/ RetireCompleted(t)
        PROVE  Goal
    BY <1>0, <2>1 DEF EnsureResume, ClearPushResume, Acknowledge, RetireCompleted,
       RowStep
  <2>2. ASSUME WorkerSettles \/ RowRecovered PROVE Goal
    BY <1>0, <2>2 DEF WorkerSettles, RowRecovered, RowStep
  <2> QED BY <1>1, <1>5, <2>1, <2>2 DEF Registry, WorkerDies, WorkerAbandoned,
       LeaseLapses, DeadLeaseExpires
<1>6. ASSUME NEW p \in Processes, Reconcile(p) PROVE Goal
  <2>1. ASSUME NEW t, NEW st, FollowQueue(t, st) PROVE Goal
    BY <1>0, <2>1 DEF FollowQueue, RowStep
  <2> QED BY <1>1, <1>6, <2>1 DEF Reconcile, Begin, Skip, RepairBoard, FindCommit,
       CheckCommit, RemoteFails, Fetch, Push, ProvePush, Store, Finish, RepairChecks,
       RepairLocks, RepairAmends, RepairIndex, RepairMoves, RepairFails, Stuck
<1>7. ASSUME NEW p \in Finalizers, Scheduler(p) PROVE Goal
  <2>1. pc[p] = "chosen" => ps[p] \in Sessions
    BY DEF FinalizationInv, CopyCurrent, Processes
  <2> QED BY <1>1, <1>2, <1>7, <2>1 DEF Scheduler, AcquireFinalizer,
       ReleaseFinalizer, SchedulesPlain, SchedulerRuns, PassEnds, FinalizerCrashes
<1> QED BY <1>1, <1>3, <1>4, <1>5, <1>6, <1>7 DEF Next

\* The project lease goes to a scheduler only when no session has a running
\* row, and to a worker at a launch.
LEMMA LeaseSteps ==
  ASSUME FinalizationInv, [Next]_vars
  PROVE  /\ lease' \in Processes \cup {None, "dead"}
         /\ flock' \in Processes \cup {None}
         /\ \/ lease' \in {lease, None, "dead"}
            \/ \E s \in Sessions : Launch(s)
            \/ (\A s \in Sessions : ctl[s] # "running") /\ UNCHANGED <<ctl, live>>
<1> DEFINE Goal == /\ lease' \in Processes \cup {None, "dead"}
                   /\ flock' \in Processes \cup {None}
                   /\ \/ lease' \in {lease, None, "dead"}
                      \/ \E s \in Sessions : Launch(s)
                      \/ /\ \A s \in Sessions : ctl[s] # "running"
                         /\ UNCHANGED <<ctl, live>>
<1>0. /\ lease \in Processes \cup {None, "dead"} /\ flock \in Processes \cup {None}
      /\ Worker \in Processes /\ Finalizers \subseteq Processes
  BY DEF FinalizationInv, RegistryTypes, Processes
<1>1. ASSUME UNCHANGED <<lease, flock>> PROVE Goal
  BY <1>0, <1>1
<1>2. ASSUME NEW t \in Sessions, Launch(t), UNCHANGED flock PROVE Goal
  BY <1>0, <1>2 DEF Launch
<1>3. ASSUME Agent PROVE Goal
  BY <1>1, <1>3 DEF Agent, AgentStages, DoneSeal, DoneTrack, DoneAgain,
     DoneMove, DoneFinish, ResealCapture, ResealStore, AgentCommits, CmdDies,
     CodexExits
<1>4. ASSUME User PROVE Goal
  BY <1>1, <1>2, <1>4 DEF User, UserCommits, UserRewinds, UserPublishes,
     UserSwitches, UserReconfigures, ResumeWorkerRuns, UserStops, UserResumes
<1>5. ASSUME Registry PROVE Goal
  BY <1>0, <1>1, <1>5 DEF Registry, EnsureResume, ClearPushResume, Acknowledge,
     RetireCompleted, WorkerSettles, WorkerDies, WorkerAbandoned, RowRecovered,
     LeaseLapses, DeadLeaseExpires
<1>6. ASSUME NEW p \in Processes, Reconcile(p) PROVE Goal
  <2>1. ASSUME Leave(p), UNCHANGED lease PROVE Goal
    BY <1>0, <2>1 DEF Leave
  <2>2. ASSUME NEW s, Begin(p, s) PROVE Goal
    BY <1>0, <2>2 DEF Begin
  <2> QED BY <1>1, <1>6, <2>1, <2>2 DEF Reconcile, Skip, RepairBoard, FindCommit,
       CheckCommit, RemoteFails, Fetch, Push, ProvePush, Store, Finish, RepairChecks,
       RepairLocks, RepairAmends, RepairIndex, RepairMoves, RepairFails, Stuck, GiveUp
<1>7. ASSUME NEW p \in Finalizers, Scheduler(p) PROVE Goal
  <2>1. ASSUME AcquireFinalizer(p) PROVE Goal
    BY <1>0, <2>1 DEF AcquireFinalizer, Nonblocking
  <2>2. pc[p] = "chosen" => ps[p] \in Sessions
    BY DEF FinalizationInv, CopyCurrent, Processes
  <2> QED BY <1>0, <1>1, <1>2, <1>7, <2>1, <2>2 DEF Scheduler, ReleaseFinalizer,
       SchedulesPlain, SchedulerRuns, PassEnds, FinalizerCrashes
<1> QED BY <1>1, <1>3, <1>4, <1>5, <1>6, <1>7 DEF Next

\* The types of the registry.
LEMMA RegistryStep ==
  ASSUME FinalizationInv, [Next]_vars
  PROVE  RegistryTypes'
<1>0. /\ run \in Sessions \cup {None} /\ wk \in {"none", "live", "dead"}
      /\ child \in BOOLEAN
      /\ ctl \in [Sessions -> {"none", "running", "resume", "queued", "stopped"}]
  BY DEF FinalizationInv, RegistryTypes
<1>1. run' \in Sessions \cup {None} /\ wk' \in {"none", "live", "dead"} /\ child' \in BOOLEAN
  BY <1>0, RunStarts DEF Launch
<1>2. ctl' \in [Sessions -> {"none", "running", "resume", "queued", "stopped"}]
  BY RowSteps
<1> QED BY <1>1, <1>2, LeaseSteps, CommandStep DEF RegistryTypes

\* No Codex runs beside a scheduler's finalizer lease.
LEMMA CodexStep ==
  ASSUME FinalizationInv, [Next]_vars
  PROVE  CodexFenced'
<1>0. /\ CodexFenced /\ run \in Sessions \cup {None}
      /\ ctl \in [Sessions -> {"none", "running", "resume", "queued", "stopped"}]
      /\ None \notin Finalizers /\ "dead" \notin Finalizers /\ Worker \notin Finalizers
  BY GitConstants DEF FinalizationInv, RegistryTypes, Processes
<1>1. ASSUME NEW s \in Sessions, Launch(s) PROVE CodexFenced'
  BY <1>0, <1>1 DEF Launch, CodexFenced
<1>2. ASSUME \A s \in Sessions : ~Launch(s) PROVE CodexFenced'
  <2>1. (child' => child) /\ (child' => run' = run)
    BY <1>2, RunStarts
  <2>2. child' => ctl'[run] = "running"
    <3>1. child => run \in Sessions /\ ctl[run] = "running"
      BY <1>0 DEF CodexFenced
    <3> QED BY <1>2, <2>1, <3>1, RowSteps DEF RowStep
  <2>3. lease' \in Finalizers => ~child'
    BY <1>0, <1>2, <2>1, LeaseSteps DEF CodexFenced
  <2> QED BY <1>0, <2>1, <2>2, <2>3 DEF CodexFenced
<1> QED BY <1>1, <1>2

\* Successes are written by the worker at the end of its run and by the
\* acknowledgement.
LEMMA SuccessWrites ==
  ASSUME FinalizationInv, [Next]_vars
  PROVE  UNCHANGED book \/ WorkerSettles \/ \E s \in Managed : Acknowledge(s)
<1>1. CASE Agent
  BY <1>1 DEF Agent, AgentStages, DoneSeal, DoneTrack, DoneAgain,
     DoneMove, DoneFinish, ResealCapture, ResealStore, AgentCommits, CmdDies,
     CodexExits
<1>2. CASE User
  BY <1>2 DEF User, UserCommits, UserRewinds, UserPublishes, UserSwitches,
     UserReconfigures, UserStops, UserResumes, ResumeWorkerRuns
<1>3. CASE Registry
  BY <1>3 DEF Registry, EnsureResume, ClearPushResume, RetireCompleted,
     WorkerDies, WorkerAbandoned, RowRecovered, LeaseLapses, DeadLeaseExpires
<1>4. ASSUME NEW p \in Processes, Reconcile(p) PROVE UNCHANGED book
  BY <1>4 DEF Reconcile, Begin, Skip, RepairBoard, FindCommit, CheckCommit,
     RemoteFails, Fetch, Push, ProvePush, Store, Finish, RepairChecks,
     RepairLocks, RepairAmends, RepairIndex, RepairMoves, RepairFails, Stuck
<1>5. ASSUME NEW p \in Finalizers, Scheduler(p) PROVE UNCHANGED book
  BY <1>5 DEF Scheduler, AcquireFinalizer, ReleaseFinalizer, SchedulesPlain,
     SchedulerRuns, PassEnds, FinalizerCrashes
<1> QED BY <1>1, <1>2, <1>3, <1>4, <1>5 DEF Next

\* A task is a success once: a second run of a completed session that has its
\* success is never started, and an acknowledgement finds it.
LEMMA SuccessStep ==
  ASSUME FinalizationInv, [Next]_vars
  PROVE  SuccessKept'
<1> SUFFICES ASSUME NEW s \in Managed
             PROVE  /\ acked'[s] => wins'[s] = 1
                    /\ wins'[s] = 1 /\ ~acked'[s] =>
                         /\ jstate'[s] = "completed"
                         /\ ctl'[s] \in {"none", "stopped"} /\ run' # s
  BY DEF SuccessKept
<1>0. /\ acked[s] => wins[s] = 1
      /\ wins[s] = 1 /\ ~acked[s] =>
           jstate[s] = "completed" /\ ctl[s] \in {"none", "stopped"} /\ run # s
      /\ acked \in [Managed -> BOOLEAN] /\ wins \in [Managed -> {0, 1}]
      /\ s \in Sessions /\ s # None
      /\ ctl \in [Sessions -> {"none", "running", "resume", "queued", "stopped"}]
  BY GitConstants DEF FinalizationInv, SuccessKept, JournalTypes, RegistryTypes, Sessions
<1>1. jstate[s] = "completed" => jstate'[s] = "completed"
  BY ProofsKept
<1>2. CASE UNCHANGED book
  <2>1. ASSUME jstate[s] = "completed", ctl[s] \in {"none", "stopped"}, run # s
        PROVE  ctl'[s] \in {"none", "stopped"} /\ run' # s
    <3>1. RowStep(s)
      BY <1>0, RowSteps
    <3>2. ctl'[s] = ctl[s]
      BY <2>1, <3>1 DEF RowStep, Pending, Finalizing
    <3>3. ASSUME NEW t \in Sessions, Launch(t), ctl[t] \in {"resume", "queued"}
          PROVE  run' # s
      BY <2>1, <3>3 DEF Launch
    <3> QED BY <1>0, <2>1, <3>2, <3>3, RunStarts
  <2> QED BY <1>0, <1>1, <1>2, <2>1
<1>3. CASE WorkerSettles
  <2>1. /\ acked' = acked /\ jstate' = jstate /\ run' = None
        /\ wins'[s] = IF run = s /\ jstate[s] = "completed" /\ ~acked[s]
                      THEN wins[s] + 1 ELSE wins[s]
        /\ ctl'[s] = IF run # s THEN ctl[s]
                     ELSE IF jstate[s] \in Pending \ {"push_pending"} THEN "resume"
                     ELSE "none"
    BY <1>0, <1>3 DEF WorkerSettles
  <2> QED BY <1>0, <2>1 DEF Pending, Finalizing
<1>4. ASSUME NEW t \in Managed, Acknowledge(t)
      PROVE  /\ acked'[s] => wins'[s] = 1
             /\ wins'[s] = 1 /\ ~acked'[s] =>
                  /\ jstate'[s] = "completed"
                  /\ ctl'[s] \in {"none", "stopped"} /\ run' # s
  BY <1>0, <1>4 DEF Acknowledge
<1> QED BY <1>2, <1>3, <1>4, SuccessWrites

-----------------------------------------------------------------------------
(* The reconciling processes.                                              *)

\* What find_agent_git_task_commit_with_policy finds.
LEMMA TaskCommitFacts ==
  ASSUME FinalizationInv, NEW s \in Managed, NEW c \in TaskCommits(s)
  PROVE  /\ c \in CommitIds \ {Base} /\ seal[s] # None
         /\ object[c].claim = s /\ object[c].by = "agent"
<1>1. tip \in CommitIds /\ Line(tip) \subseteq CommitIds /\ object[Base].by = "user"
  BY DEF FinalizationInv, GitTypes, History
<1>2. /\ c \in Line(tip) /\ object[c].claim = s /\ object[c].by = "agent"
      /\ seal[s] # None
  BY DEF TaskCommits, After
<1> QED BY <1>1, <1>2

\* The types of the processes.
LEMMA ProcessTypesStep ==
  ASSUME FinalizationInv, [Next]_vars
  PROVE  ProcessTypes'
<1> DEFINE Ids == CommitIds \cup {None}
           Copies == /\ ps' \in [Processes -> Sessions \cup {None}]
                     /\ pstate' \in [Processes -> JStates \cup {None}]
                     /\ pfirst' \in [Processes -> BOOLEAN]
                     /\ poid' \in [Processes -> Ids]
           Goal == /\ pc' \in [Processes -> Labels]
                   /\ todo' \in [Processes -> SUBSET Managed]
                   /\ Copies /\ pfresh' \in [Processes -> BOOLEAN]
                   /\ pnew' \in [Processes -> CommitIds' \cup {None}]
<1>0. /\ pc \in [Processes -> Labels] /\ todo \in [Processes -> SUBSET Managed]
      /\ ps \in [Processes -> Sessions \cup {None}]
      /\ pstate \in [Processes -> JStates \cup {None}]
      /\ pfresh \in [Processes -> BOOLEAN] /\ pfirst \in [Processes -> BOOLEAN]
      /\ poid \in [Processes -> Ids] /\ pnew \in [Processes -> Ids]
      /\ CommitIds \subseteq CommitIds' /\ Managed \subseteq Sessions
      /\ jstate \in [Managed -> JStates] /\ Finalizers \subseteq Processes
      /\ oid \in [Managed -> Ids] /\ remote \in CommitIds
  BY Growth DEF FinalizationInv, ProcessTypes, JournalTypes, GitTypes, Sessions,
     Processes
<1>1. Labels = {"idle", "leased", "released", "chosen", "settle", "loop", "moved",
                "found", "repair", "unpublished", "amend", "swap", "ref", "fetch",
                "push", "refetch", "prove", "proven"}
  BY DEF Labels, Working, Finding, Repairing, Publishing
<1> HIDE DEF Ids
<1>2. \A s : Staled(s) \in [Processes -> BOOLEAN]
  BY <1>0 DEF Staled
<1>3. ASSUME UNCHANGED <<pc, todo, ps, pstate, pfirst, poid, pnew>>,
             pfresh' \in [Processes -> BOOLEAN]
      PROVE  Goal
  BY <1>0, <1>3 DEF Ids
<1>4. ASSUME Agent PROVE Goal
  BY <1>0, <1>2, <1>3, <1>4 DEF Agent, AgentStages, DoneSeal, DoneTrack, DoneAgain,
     DoneMove, DoneFinish, ResealCapture, ResealStore, AgentCommits, CmdDies,
     CodexExits
<1>5. ASSUME User PROVE Goal
  BY <1>0, <1>3, <1>5 DEF User, UserCommits, UserRewinds, UserPublishes,
     UserSwitches, UserReconfigures, UserStops, UserResumes, ResumeWorkerRuns
<1>6. ASSUME NEW p \in Processes, Forget(p)
      PROVE  Copies /\ pnew' \in [Processes -> CommitIds' \cup {None}]
  BY <1>0, <1>6 DEF Forget, Ids
<1>7. ASSUME Registry PROVE Goal
  <2>1. ASSUME WorkerDies PROVE Goal
    <3>1. Forget(Worker) /\ Worker \in Processes
      BY <2>1 DEF WorkerDies, Processes
    <3>2. Copies /\ pnew' \in [Processes -> CommitIds' \cup {None}]
      BY <1>6, <3>1
    <3> QED BY <1>0, <1>1, <2>1, <3>2 DEF WorkerDies
  <2>2. ASSUME WorkerSettles PROVE Goal
    BY <1>0, <1>1, <2>2 DEF WorkerSettles, Ids
  <2> QED BY <1>0, <1>3, <1>7, <2>1, <2>2 DEF Registry, EnsureResume,
       ClearPushResume, Acknowledge, RetireCompleted, WorkerAbandoned,
       RowRecovered, LeaseLapses, DeadLeaseExpires
<1>8. ASSUME NEW p \in Finalizers, Scheduler(p) PROVE Goal
  <2>1. ASSUME Forget(p), pc' = [pc EXCEPT ![p] = "idle"],
               pfresh' \in [Processes -> BOOLEAN],
               todo' \in [Processes -> SUBSET Managed]
        PROVE  Goal
    BY <1>0, <1>1, <1>6, <2>1
  <2>2. ASSUME AcquireFinalizer(p) PROVE Goal
    BY <1>0, <1>1, <2>2 DEF AcquireFinalizer, Ids
  <2>3. ASSUME ReleaseFinalizer(p) PROVE Goal
    BY <1>0, <1>1, <2>3 DEF ReleaseFinalizer, Ids
  <2>4. ASSUME SchedulesPlain(p) PROVE Goal
    BY <1>0, <1>1, <2>4 DEF SchedulesPlain, Ids, Sessions
  <2>5. ASSUME FinalizerCrashes(p) PROVE Goal
    BY <1>0, <2>1, <2>5 DEF FinalizerCrashes
  <2> QED BY <1>0, <1>8, <2>1, <2>2, <2>3, <2>4, <2>5 DEF Scheduler, SchedulerRuns,
       PassEnds
<1>9. ASSUME NEW p \in Processes, Reconcile(p) PROVE Goal
  <2>0. /\ pc[p] \in Working => ps[p] \in Managed
        /\ pc[p] \in Working /\ pstate[p] = "push_pending" => oid[ps[p]] \in CommitIds
        /\ pc[p] \in Publishing => pstate[p] = "push_pending"
        /\ Publishing \subseteq Working /\ "loop" \in Working
    BY <1>0 DEF FinalizationInv, CopyCurrent, Ids, Working
  <2>1. ASSUME Leave(p), UNCHANGED todo, pfresh' \in [Processes -> BOOLEAN] PROVE Goal
    <3>1. Copies /\ pnew' \in [Processes -> CommitIds' \cup {None}]
      BY <1>6, <2>1 DEF Leave
    <3> QED BY <1>0, <1>1, <2>1, <3>1 DEF Leave
  <2>2. ASSUME GiveUp(p), UNCHANGED todo PROVE Goal
    BY <1>0, <1>2, <2>1, <2>2 DEF GiveUp
  <2>3. ASSUME NEW l \in Labels, pc' = [pc EXCEPT ![p] = l],
               UNCHANGED <<todo, ps, pstate, pfirst, pfresh, pnew>>,
               poid' = poid \/ \E c \in CommitIds : poid' = [poid EXCEPT ![p] = c]
        PROVE  Goal
    BY <1>0, <2>3 DEF Ids
  <2>4. ASSUME NEW s \in Managed, Begin(p, s) \/ Skip(p, s) PROVE Goal
    <3>1. jstate[s] \in JStates /\ s \in Sessions /\ todo[p] \ {s} \subseteq Managed
      BY <1>0
    <3>2. ASSUME Begin(p, s) PROVE Goal
      BY <1>0, <1>1, <3>1, <3>2 DEF Begin, Ids
    <3>3. ASSUME Skip(p, s) PROVE Goal
      BY <1>0, <3>1, <3>3 DEF Skip, Ids
    <3> QED BY <2>4, <3>2, <3>3
  <2>5. ASSUME Store(p) PROVE Goal
    <3>1. /\ pc[p] \in {"moved", "found", "proven"} /\ ps[p] \in Managed
      BY <2>0, <2>5 DEF Store, Working, Finding, Publishing
    <3>2. NextOf(p) \in JStates /\ jstate[ps[p]] \in JStates
      BY <1>0, <3>1 DEF NextOf, JStates, Pending, Finalizing
    <3>3. \E f \in [Processes -> BOOLEAN] : pfresh' = [f EXCEPT ![p] = TRUE]
      BY <1>0, <1>2, <2>5 DEF Store
    <3>4. pfresh' \in [Processes -> BOOLEAN]
      BY <3>3
    <3>5. ASSUME NEW st \in JStates, Reread(p, st) PROVE Goal
      BY <1>0, <1>1, <2>5, <3>4, <3>5 DEF Reread, Store, Ids
    <3> QED BY <2>5, <3>2, <3>5 DEF Store
  <2>6. ASSUME RepairAmends(p) PROVE Goal
    <3>1. Len(object) + 1 \in CommitIds'
      BY <2>6, RepairAmendsFacts DEF FinalizationInv, GitTypes, CommitIds
    <3>2. pnew' = [pnew EXCEPT ![p] = Len(object) + 1]
      BY <2>6, RepairAmendsFacts DEF FinalizationInv
    <3>3. pnew' \in [Processes -> CommitIds' \cup {None}]
      BY <1>0, <3>1, <3>2 DEF Ids
    <3> QED BY <1>0, <1>1, <2>6, <3>3 DEF RepairAmends, Ids
  <2>7. ASSUME FindCommit(p) PROVE Goal
    <3>1. \A c \in TaskCommits(ps[p]) : c \in CommitIds
      BY <2>0, <2>7, TaskCommitFacts DEF FindCommit, InLoop
    <3> QED BY <1>1, <2>2, <2>3, <2>7, <3>1 DEF FindCommit, Stuck
  <2>8. ASSUME CheckCommit(p) \/ RemoteFails(p) \/ Fetch(p) \/ Push(p) \/ ProvePush(p)
        PROVE  Goal
    <3>1. ASSUME CheckCommit(p) PROVE Goal
      BY <1>1, <2>0, <2>2, <2>3, <3>1 DEF CheckCommit, InLoop, Stuck
    <3>2. ASSUME Fetch(p) PROVE Goal
      BY <1>0, <1>1, <2>2, <2>3, <3>2 DEF Fetch, Stuck
    <3>3. ASSUME ProvePush(p) PROVE Goal
      <4>1. oid[ps[p]] \in CommitIds
        BY <2>0, <3>3 DEF ProvePush, Publishing
      <4> QED BY <1>1, <2>2, <2>3, <3>3, <4>1 DEF ProvePush, Stuck
    <3>4. ASSUME Push(p) PROVE Goal
      BY <1>1, <2>2, <2>3, <3>4 DEF Push, Stuck
    <3> QED BY <2>2, <2>8, <3>1, <3>2, <3>3, <3>4 DEF RemoteFails, Stuck
  <2>9. ASSUME Finish(p) PROVE Goal
    BY <1>0, <2>1, <2>9 DEF Finish
  <2>10. ASSUME RepairBoard(p) \/ RepairChecks(p) \/ RepairLocks(p) \/ RepairIndex(p)
                \/ RepairMoves(p) \/ RepairFails(p)
         PROVE  Goal
    BY <1>1, <2>2, <2>3, <2>10 DEF RepairBoard, RepairChecks, RepairLocks, RepairIndex,
       RepairMoves, RepairFails, RepairStep, Stuck
  <2> QED BY <1>9, <2>4, <2>5, <2>6, <2>7, <2>8, <2>9, <2>10 DEF Reconcile
<1>10. Goal
  BY <1>0, <1>3, <1>4, <1>5, <1>7, <1>8, <1>9 DEF Next
<1> QED BY <1>0, <1>10 DEF ProcessTypes, Ids

\* A process the step is not about: its copy of the journal is as it was, or
\* has gone stale.
Still(p) ==
  /\ pc'[p] = pc[p] /\ ps'[p] = ps[p] /\ pstate'[p] = pstate[p]
  /\ poid'[p] = poid[p] /\ pnew'[p] = pnew[p]
  /\ pfresh'[p] => /\ pfresh[p] /\ jstate'[ps[p]] = jstate[ps[p]]
                   /\ seal'[ps[p]] = seal[ps[p]]

\* A process at no journal.
Resting(p) ==
  /\ pc'[p] \notin Working /\ ~pfresh'[p]
  /\ pc'[p] = "chosen" => ps'[p] \in Sessions

\* Only its own steps, and those of the run's end for the worker, are about a
\* process: every write of another to its journal makes its copy stale.
LEMMA ProcessFrame ==
  ASSUME FinalizationInv, [Next]_vars, NEW p \in Processes
  PROVE  \/ Still(p) \/ Resting(p) \/ Reconcile(p)
         \/ p \in Finalizers /\ Scheduler(p)
<1>0. /\ pc \in [Processes -> Labels] /\ ps \in [Processes -> Sessions \cup {None}]
      /\ pstate \in [Processes -> JStates \cup {None}]
      /\ pfresh \in [Processes -> BOOLEAN] /\ pfirst \in [Processes -> BOOLEAN]
      /\ poid \in [Processes -> CommitIds \cup {None}]
      /\ pnew \in [Processes -> CommitIds \cup {None}]
      /\ jstate \in [Managed -> JStates]
      /\ seal \in [Managed -> Seals \cup {None}]
      /\ pfresh[p] => pc[p] \in Working /\ ps[p] \in Managed
  BY DEF FinalizationInv, ProcessTypes, JournalTypes, CopyCurrent
<1>1. ASSUME UNCHANGED <<jrn, procs>> PROVE Still(p)
  BY <1>1 DEF Still
<1>2. ASSUME NEW s, UNCHANGED <<pc, ps, pstate, poid, pnew>>, pfresh' = Staled(s),
             \/ UNCHANGED jstate
             \/ \E st : NewState(s, st),
             \/ UNCHANGED seal
             \/ \E sl : seal' = [seal EXCEPT ![s] = sl]
      PROVE  Still(p)
  BY <1>0, <1>2 DEF Still, Staled, NewState
<1>3. CASE Agent
  <2>1. CASE DoneTrack \/ DoneFinish \/ ResealStore
    BY <1>1, <1>2, <2>1 DEF DoneTrack, DoneFinish, ResealStore
  <2> QED BY <1>1, <1>2, <1>3, <2>1 DEF Agent, AgentStages, DoneSeal, DoneAgain,
       DoneMove, ResealCapture, AgentCommits, CmdDies, CodexExits
<1>4. CASE User
  BY <1>1, <1>4 DEF User, UserCommits, UserRewinds, UserPublishes, UserSwitches,
     UserReconfigures, UserStops, UserResumes, ResumeWorkerRuns
<1>5. CASE Registry
  <2>1. CASE WorkerSettles
    <3>1. pc[Worker] \notin Working
      BY <2>1 DEF WorkerSettles, Working, Finding, Repairing, Publishing
    <3> QED BY <1>0, <2>1, <3>1 DEF WorkerSettles, Still, Resting, Working, Finding,
         Repairing, Publishing
  <2>2. CASE WorkerDies
    BY <1>0, <2>2 DEF WorkerDies, Forget, Still, Resting, Working, Finding,
       Repairing, Publishing
  <2> QED BY <1>1, <1>5, <2>1, <2>2 DEF Registry, EnsureResume, ClearPushResume,
       Acknowledge, RetireCompleted, WorkerAbandoned, RowRecovered, LeaseLapses,
       DeadLeaseExpires
<1>6. ASSUME NEW q \in Processes, q # p, Reconcile(q) PROVE Still(p)
  <2> DEFINE Own == /\ pc'[p] = pc[p] /\ ps'[p] = ps[p] /\ pstate'[p] = pstate[p]
                    /\ poid'[p] = poid[p] /\ pnew'[p] = pnew[p]
  <2>1. ASSUME Own, UNCHANGED jrn, pfresh'[p] => pfresh[p] PROVE Still(p)
    BY <2>1 DEF Still
  <2>2. ASSUME Leave(q) PROVE Own
    BY <1>0, <1>6, <2>2 DEF Leave, Forget
  <2>3. ASSUME GiveUp(q), UNCHANGED jrn PROVE Still(p)
    <3>1. pfresh'[p] => pfresh[p]
      BY <1>0, <1>6, <2>3 DEF GiveUp, Staled
    <3> QED BY <2>1, <2>2, <2>3, <3>1 DEF GiveUp
  <2>4. CASE Store(q)
    <3>1. Own
      BY <1>0, <1>6, <2>4 DEF Store, Reread
    <3>2. CASE pfresh[q]
      <4>1. /\ jstate' = [jstate EXCEPT ![ps[q]] = NextOf(q)] /\ seal' = seal
            /\ pfresh' = [Staled(ps[q]) EXCEPT ![q] = TRUE]
        BY <2>4, <3>2 DEF Store, StillCurrent, NewState
      <4>2. pfresh'[p] => pfresh[p] /\ ps[p] # ps[q]
        BY <1>0, <1>6, <4>1 DEF Staled
      <4> QED BY <1>0, <3>1, <4>1, <4>2 DEF Still
    <3>3. CASE ~pfresh[q]
      <4>1. UNCHANGED jrn /\ pfresh' = [pfresh EXCEPT ![q] = TRUE]
        BY <2>4, <3>3 DEF Store, StillCurrent
      <4> QED BY <1>0, <1>6, <2>1, <3>1, <4>1
    <3> QED BY <3>2, <3>3
  <2>5. ASSUME NEW s, Begin(q, s) \/ Skip(q, s) PROVE Still(p)
    BY <1>0, <1>6, <2>1, <2>5 DEF Begin, Skip
  <2>6. CASE FindCommit(q) \/ CheckCommit(q) \/ Fetch(q) \/ Push(q) \/ ProvePush(q)
             \/ RemoteFails(q)
    BY <1>0, <1>6, <2>1, <2>3, <2>6 DEF FindCommit, CheckCommit, Fetch, Push,
       ProvePush, RemoteFails, Stuck
  <2>7. CASE Finish(q)
    BY <1>0, <1>6, <2>1, <2>2, <2>7 DEF Finish
  <2>8. CASE RepairBoard(q) \/ RepairChecks(q) \/ RepairLocks(q) \/ RepairAmends(q)
             \/ RepairIndex(q) \/ RepairMoves(q) \/ RepairFails(q)
    BY <1>0, <1>6, <2>1, <2>3, <2>8 DEF RepairBoard, RepairChecks, RepairLocks,
       RepairAmends, RepairIndex, RepairMoves, RepairFails, RepairStep, Stuck
  <2> QED BY <1>6, <2>4, <2>5, <2>6, <2>7, <2>8 DEF Reconcile
<1>7. ASSUME NEW q \in Finalizers, q # p, Scheduler(q) PROVE Still(p)
  BY <1>0, <1>7 DEF Scheduler, AcquireFinalizer, ReleaseFinalizer, SchedulesPlain,
     SchedulerRuns, PassEnds, FinalizerCrashes, Forget, Still
<1>8. CASE UNCHANGED vars
  BY <1>1, <1>8
<1> QED BY <1>3, <1>4, <1>5, <1>6, <1>7, <1>8 DEF Next

\* What a process knows it still knows after the steps of others.
LEMMA StillKeeps ==
  ASSUME FinalizationInv, [Next]_vars, NEW p \in Processes, Still(p)
  PROVE  CopyCurrent(p)' /\ ProofHeld(p)'
<1>0. /\ CopyCurrent(p) /\ ProofHeld(p) /\ Finding \subseteq Working
      /\ Publishing \subseteq Working
      /\ \A c \in CommitIds : object'[c] = object[c] /\ c \in CommitIds'
      /\ published \subseteq published'
  BY Growth, RemoteStep DEF FinalizationInv, Working
<1>1. pc[p] \in Working => /\ ps[p] \in Managed
                           /\ oid[ps[p]] # None => oid'[ps[p]] = oid[ps[p]]
                           /\ seal[ps[p]] # None => seal'[ps[p]] # None
  BY <1>0, ProofsKept DEF CopyCurrent
<1>2. CopyCurrent(p)'
  BY <1>0, <1>1 DEF CopyCurrent, Still
<1>3. pc[p] \in Finding => /\ poid'[p] \in CommitIds' \ {Base} /\ seal'[ps'[p]] # None
                           /\ object'[poid'[p]] = object[poid[p]]
  BY <1>0, <1>1 DEF ProofHeld, Still
<1>4. pc[p] = "found" /\ pfresh'[p] => MatchesSeal(poid[p], ps[p])'
  BY <1>0, <1>3 DEF ProofHeld, Still, MatchesSeal, Tree, Finding
<1>5. pc[p] \in {"swap", "ref"} =>
        /\ pnew'[p] \in CommitIds' \ {Base}
        /\ object'[pnew'[p]].parent = object'[poid'[p]].parent
  BY <1>0, <1>3 DEF ProofHeld, Still, Finding, Repairing
<1>6. pc[p] \in Publishing => poid'[p] \in CommitIds' /\ Line(poid[p])' = Line(poid[p])
  BY <1>0 DEF ProofHeld, Still, Line
<1>7. pc[p] = "proven" => poid'[p] = oid'[ps'[p]] /\ poid'[p] \in published'
  BY <1>0, <1>1 DEF ProofHeld, CopyCurrent, Still, Publishing
<1>8. pc[p] = "prove" => Line(poid[p])' \subseteq published'
  BY <1>0, <1>6 DEF ProofHeld, Publishing
<1>9. pc[p] = "found" => object'[poid'[p]].claim = ps'[p] /\ object'[poid'[p]].by = "agent"
  BY <1>0, <1>3 DEF ProofHeld, Still, Finding
<1>10. ProofHeld(p)'
  BY <1>0, <1>3, <1>4, <1>5, <1>6, <1>7, <1>8, <1>9 DEF ProofHeld, Still
<1> QED BY <1>2, <1>10

\* A process at no journal has nothing to keep.
LEMMA RestingKeeps ==
  ASSUME NEW p \in Processes, Resting(p)
  PROVE  CopyCurrent(p)' /\ ProofHeld(p)'
BY DEF Resting, CopyCurrent, ProofHeld, Working, Finding, Repairing, Publishing

\* A process that leaves the loop is at no journal.
LEMMA LeavingRests ==
  ASSUME FinalizationInv, NEW p \in Processes,
         GiveUp(p) \/ Finish(p)
  PROVE  Resting(p)
<1>0. /\ pc \in [Processes -> Labels] /\ pfresh \in [Processes -> BOOLEAN]
  BY DEF FinalizationInv, ProcessTypes
<1>1. Leave(p) /\ pfresh'[p] = FALSE
  BY <1>0 DEF GiveUp, Finish, Staled
<1>2. pc'[p] \in {"settle", "leased"}
  BY <1>0, <1>1 DEF Leave
<1> QED BY <1>1, <1>2 DEF Resting, Working, Finding, Repairing, Publishing

\* A step of the loop to another place, with the same copy of the journal.
LEMMA PlaceKeeps ==
  ASSUME FinalizationInv, NEW p \in Processes, NEW l \in Working,
         pc[p] \in Working, pc'[p] = l, ps'[p] = ps[p], pstate'[p] = pstate[p],
         pfresh'[p] = pfresh[p], UNCHANGED jrn,
         l = "moved" => pstate[p] = "tracking",
         l \in Finding => pstate[p] = "commit_pending",
         l \in Publishing => pstate[p] = "push_pending"
  PROVE  CopyCurrent(p)'
<1>1. CopyCurrent(p) /\ "chosen" \notin Working
  BY DEF FinalizationInv, Working, Finding, Repairing, Publishing
<1> QED BY <1>1 DEF CopyCurrent

\* A stored proof, or somebody else's: back in the loop with the journal as it
\* is now.
LEMMA StoreKeeps ==
  ASSUME FinalizationInv, [Next]_vars, NEW p \in Processes, Store(p)
  PROVE  CopyCurrent(p)' /\ ProofHeld(p)'
<1>0. /\ pc \in [Processes -> Labels] /\ ps \in [Processes -> Sessions \cup {None}]
      /\ pstate \in [Processes -> JStates \cup {None}]
      /\ pfresh \in [Processes -> BOOLEAN] /\ jstate \in [Managed -> JStates]
      /\ oid \in [Managed -> CommitIds \cup {None}]
      /\ CopyCurrent(p) /\ ProofHeld(p) /\ None \notin CommitIds
  BY GitConstants DEF FinalizationInv, ProcessTypes, JournalTypes, CommitIds
<1>1. pc[p] \in {"moved", "found", "proven"} /\ ps[p] \in Managed
  BY <1>0 DEF Store, CopyCurrent, Working, Finding, Publishing
<1>2. pc'[p] = "loop" /\ ps'[p] = ps[p]
  BY <1>0 DEF Store, Reread
<1>3. pstate'[p] = jstate'[ps[p]] /\ (pstate'[p] = "push_pending" => oid'[ps[p]] # None)
  <2>1. CASE pfresh[p]
    <3>1. /\ pstate'[p] = NextOf(p) /\ jstate'[ps[p]] = NextOf(p)
          /\ pc[p] # "moved" => oid'[ps[p]] = poid[p]
      BY <1>0, <1>1, <2>1 DEF Store, StillCurrent, NewState, Reread
    <3>2. NextOf(p) = "push_pending" => pc[p] # "moved"
      BY <1>1 DEF NextOf
    <3>3. pc[p] # "moved" => poid[p] # None
      BY <1>0, <1>1 DEF ProofHeld, Finding, Publishing
    <3> QED BY <3>1, <3>2, <3>3
  <2>2. CASE ~pfresh[p]
    <3>1. pstate'[p] = jstate[ps[p]] /\ UNCHANGED jrn
      BY <1>0, <2>2 DEF Store, StillCurrent, Reread
    <3> QED BY <1>1, <3>1 DEF FinalizationInv, JournalsSound
  <2> QED BY <2>1, <2>2
<1> QED BY <1>1, <1>2, <1>3 DEF CopyCurrent, ProofHeld, Working, Finding, Repairing,
     Publishing

\* COMMIT-PENDING: the commit that was found is the task's, and when the copy
\* is current it is as sealed.
LEMMA FindKeeps ==
  ASSUME FinalizationInv, [Next]_vars, NEW p \in Processes, FindCommit(p)
  PROVE  CopyCurrent(p)' /\ ProofHeld(p)'
<1>0. /\ pc \in [Processes -> Labels] /\ poid \in [Processes -> CommitIds \cup {None}]
      /\ CopyCurrent(p) /\ ProofHeld(p) /\ pc[p] = "loop" /\ ps[p] \in Managed
      /\ pstate[p] = "commit_pending"
  BY DEF FinalizationInv, ProcessTypes, CopyCurrent, FindCommit, InLoop, Working
<1>1. CASE Stuck(p)
  BY <1>1, LeavingRests, RestingKeeps DEF Stuck
<1>2. CASE ~Stuck(p)
  <2>1. PICK c \in TaskCommits(ps[p]) :
          /\ poid' = [poid EXCEPT ![p] = c]
          /\ \/ Accepted(ps[p], c) /\ pc' = [pc EXCEPT ![p] = "found"]
             \/ p # Worker /\ pc' = [pc EXCEPT ![p] = "repair"]
          /\ UNCHANGED <<env, world, ps, pstate, pfresh>>
    BY <1>2 DEF FindCommit
  <2>2. /\ c \in CommitIds \ {Base} /\ seal[ps[p]] # None
        /\ object[c].claim = ps[p] /\ object[c].by = "agent"
    BY <1>0, TaskCommitFacts
  <2>3. /\ poid'[p] = c /\ pc'[p] \in {"found", "repair"} /\ CommitIds' = CommitIds
    BY <1>0, <2>1 DEF CommitIds
  <2>4. pc'[p] = "found" => MatchesSeal(poid[p], ps[p])'
    BY <1>0, <2>1, <2>3 DEF Accepted, MatchesSeal, Tree
  <2>5. CopyCurrent(p)'
    BY <1>0, <2>1, <2>3, PlaceKeeps DEF Working, Finding, Publishing
  <2>6. pc'[p] = "repair" => p # Worker
    BY <1>0, <2>1
  <2> QED BY <1>0, <2>1, <2>2, <2>3, <2>4, <2>5, <2>6
          DEF ProofHeld, Finding, Repairing, Publishing
<1> QED BY <1>1, <1>2

\* PUSH-PENDING: the tip that proves a publication was the remote's.
LEMMA PublishKeeps ==
  ASSUME FinalizationInv, [Next]_vars, NEW p \in Processes,
         CheckCommit(p) \/ Fetch(p) \/ Push(p) \/ ProvePush(p)
  PROVE  CopyCurrent(p)' /\ ProofHeld(p)'
<1>0. /\ pc \in [Processes -> Labels] /\ poid \in [Processes -> CommitIds \cup {None}]
      /\ CopyCurrent(p) /\ ProofHeld(p) /\ pc[p] \in Working /\ ps[p] \in Managed
      /\ pstate[p] = "push_pending" /\ remote \in CommitIds /\ RemoteKept
      /\ oid[ps[p]] \in CommitIds
  <2>1. pc[p] \in Working /\ pstate[p] = "push_pending" /\ CopyCurrent(p)
    BY DEF FinalizationInv, CopyCurrent, CheckCommit, Fetch, Push, ProvePush, InLoop,
       Working, Publishing
  <2>2. ps[p] \in Managed /\ oid[ps[p]] # None
    BY <2>1 DEF CopyCurrent
  <2> QED BY <2>1, <2>2 DEF FinalizationInv, ProcessTypes, GitTypes, JournalTypes
<1>1. CASE GiveUp(p)
  BY <1>1, LeavingRests, RestingKeeps
<1>2. CASE ~GiveUp(p)
  <2>1. /\ UNCHANGED <<object, jrn, ps, pstate, pfresh>> /\ published \subseteq published'
        /\ CommitIds' = CommitIds
    BY <1>2 DEF CheckCommit, Fetch, Push, ProvePush, Stuck, CommitIds
  <2>2. CASE CheckCommit(p)
    <3>1. pc'[p] = "fetch" /\ poid'[p] = oid[ps[p]]
      BY <1>0, <1>2, <2>2 DEF CheckCommit, Stuck
    <3> QED BY <1>0, <2>1, <3>1, PlaceKeeps DEF ProofHeld, Working, Finding, Repairing,
         Publishing
  <2>3. CASE Fetch(p)
    <3>1. /\ pc[p] \in Publishing /\ UNCHANGED <<remote, published>>
          /\ \/ pc'[p] = "prove" /\ poid'[p] = remote
             \/ pc'[p] = "push" /\ poid'[p] = poid[p]
      BY <1>0, <1>2, <2>3 DEF Fetch, Stuck, Publishing
    <3>2. pc'[p] = "prove" => Line(poid[p])' \subseteq published'
      BY <1>0, <2>1, <3>1 DEF RemoteKept, Line
    <3> QED BY <1>0, <2>1, <3>1, <3>2, PlaceKeeps DEF ProofHeld, Working, Finding,
         Repairing, Publishing
  <2>4. CASE Push(p)
    <3>1. pc[p] \in Publishing /\ pc'[p] = "refetch" /\ poid'[p] = poid[p]
      BY <1>0, <1>2, <2>4 DEF Push, Stuck, Publishing
    <3> QED BY <1>0, <2>1, <3>1, PlaceKeeps DEF ProofHeld, Working, Finding, Repairing,
         Publishing
  <2>5. CASE ProvePush(p)
    <3>1. /\ pc'[p] = "proven" /\ poid'[p] = oid[ps[p]] /\ pc[p] = "prove"
          /\ Proves(poid[p], ps[p])
      BY <1>0, <1>2, <2>5 DEF ProvePush, Stuck
    <3>2. oid[ps[p]] \in published
      BY <1>0, <3>1 DEF ProofHeld, Proves
    <3> QED BY <1>0, <2>1, <3>1, <3>2, PlaceKeeps DEF ProofHeld, Working, Finding,
         Repairing, Publishing
  <2> QED BY <2>2, <2>3, <2>4, <2>5
<1> QED BY <1>1, <1>2

\* A repair holds on to the commit it repairs and amends that one.
LEMMA RepairKeeps ==
  ASSUME FinalizationInv, [Next]_vars, NEW p \in Processes,
         RepairChecks(p) \/ RepairLocks(p) \/ RepairAmends(p) \/ RepairIndex(p)
         \/ RepairMoves(p)
  PROVE  CopyCurrent(p)' /\ ProofHeld(p)'
<1>0. /\ pc \in [Processes -> Labels] /\ poid \in [Processes -> CommitIds \cup {None}]
      /\ pnew \in [Processes -> CommitIds \cup {None}]
      /\ CopyCurrent(p) /\ ProofHeld(p)
      /\ pc[p] \in {"repair", "unpublished", "amend", "swap", "ref"}
      /\ UNCHANGED <<jrn, ps, pstate, pfresh, poid>>
  BY DEF FinalizationInv, ProcessTypes, RepairChecks, RepairLocks, RepairAmends,
     RepairIndex, RepairMoves, RepairStep
<1>1. /\ pc[p] \in Finding \ {"found"} /\ pc[p] \in Working
      /\ pstate[p] = "commit_pending" /\ poid[p] \in CommitIds \ {Base}
      /\ seal[ps[p]] # None /\ p # Worker
  BY <1>0 DEF CopyCurrent, ProofHeld, Finding, Repairing, Working
<1>2. pc'[p] \in {"unpublished", "amend", "swap", "ref", "loop"}
  BY <1>0 DEF RepairChecks, RepairLocks, RepairAmends, RepairIndex, RepairMoves,
     RepairStep
<1>3. CopyCurrent(p)'
  BY <1>0, <1>1, <1>2, PlaceKeeps DEF Finding, Repairing, Working, Publishing
<1>4. poid'[p] \in CommitIds' /\ object'[poid[p]] = object[poid[p]]
  BY <1>0, <1>1, Growth
<1>5. pc'[p] \in {"swap", "ref"} =>
        /\ pnew'[p] \in CommitIds' \ {Base}
        /\ object'[pnew'[p]].parent = object'[poid'[p]].parent
  <2>1. CASE RepairAmends(p)
    <3>1. PICK rec : Created(rec) /\ rec.parent = object[poid[p]].parent
      BY <2>1, RepairAmendsFacts DEF FinalizationInv
    <3>2. pnew'[p] = Len(object) + 1
      BY <1>0, <2>1, RepairAmendsFacts DEF FinalizationInv
    <3>3. object'[Len(object) + 1] = rec /\ Len(object) + 1 \in CommitIds' \ {Base}
      BY <3>1 DEF Created, FinalizationInv, GitTypes, CommitIds, Base
    <3> QED BY <1>0, <1>4, <3>1, <3>2, <3>3
  <2>2. CASE ~RepairAmends(p)
    <3>1. (pc'[p] \in {"swap", "ref"} => pc[p] = "swap") /\ UNCHANGED <<object, pnew>>
      BY <1>0, <2>2 DEF RepairChecks, RepairLocks, RepairIndex, RepairMoves, RepairStep
    <3> QED BY <1>0, <3>1 DEF ProofHeld, CommitIds
  <2> QED BY <2>1, <2>2
<1> QED BY <1>0, <1>1, <1>2, <1>3, <1>4, <1>5 DEF ProofHeld, Finding, Repairing,
     Publishing

\* Every process, after every step.
LEMMA ProcessStep ==
  ASSUME FinalizationInv, [Next]_vars, NEW p \in Processes
  PROVE  CopyCurrent(p)' /\ ProofHeld(p)'
<1>0. /\ pc \in [Processes -> Labels] /\ ps \in [Processes -> Sessions \cup {None}]
      /\ pstate \in [Processes -> JStates \cup {None}]
      /\ pfresh \in [Processes -> BOOLEAN]
      /\ CopyCurrent(p) /\ ProofHeld(p)
  BY DEF FinalizationInv, ProcessTypes
<1>1. CASE Reconcile(p)
  <2>1. ASSUME NEW s \in Managed, Begin(p, s) PROVE CopyCurrent(p)' /\ ProofHeld(p)'
    <3>1. /\ pc'[p] = "loop" /\ ps'[p] = s /\ pstate'[p] = jstate[s] /\ UNCHANGED jrn
      BY <1>0, <2>1 DEF Begin
    <3>2. jstate[s] = "push_pending" => oid[s] # None
      BY DEF FinalizationInv, JournalsSound
    <3> QED BY <3>1, <3>2 DEF CopyCurrent, ProofHeld, Working, Finding, Repairing,
         Publishing
  <2>2. ASSUME NEW s \in Managed, Skip(p, s) PROVE CopyCurrent(p)' /\ ProofHeld(p)'
    BY <2>2, StillKeeps DEF Skip, Still
  <2>3. CASE RepairBoard(p)
    <3>1. CASE Stuck(p)
      BY <3>1, LeavingRests, RestingKeeps DEF Stuck
    <3>2. CASE ~Stuck(p)
      <4>1. /\ pc'[p] = "moved" /\ UNCHANGED <<jrn, ps, pstate, pfresh>>
            /\ pc[p] = "loop" /\ pstate[p] = "tracking"
        BY <1>0, <2>3, <3>2 DEF RepairBoard, InLoop
      <4> QED BY <4>1, PlaceKeeps DEF ProofHeld, Working, Finding, Repairing, Publishing
    <3> QED BY <3>1, <3>2
  <2>4. CASE RemoteFails(p) \/ RepairFails(p) \/ Finish(p)
    BY <2>4, LeavingRests, RestingKeeps DEF RemoteFails, RepairFails, Stuck
  <2> QED BY <1>1, <2>1, <2>2, <2>3, <2>4, FindKeeps, PublishKeeps, StoreKeeps, RepairKeeps
          DEF Reconcile
<1>2. CASE p \in Finalizers /\ Scheduler(p)
  <2>1. /\ pfresh'[p] => pfresh[p]
        /\ pc'[p] \in {"idle", "leased", "released", "chosen"}
        /\ pc'[p] = "chosen" => ps'[p] \in Sessions
        /\ FinalizerCrashes(p) \/ pc[p] \in {"idle", "leased", "released", "chosen"}
    BY <1>0, <1>2 DEF Scheduler, AcquireFinalizer, ReleaseFinalizer, SchedulesPlain,
       SchedulerRuns, PassEnds, FinalizerCrashes, Sessions
  <2>2. ~pfresh'[p]
    BY <1>0, <2>1 DEF CopyCurrent, FinalizerCrashes, Working, Finding, Repairing,
       Publishing
  <2>3. Resting(p)
    BY <2>1, <2>2 DEF Resting, Working, Finding, Repairing, Publishing
  <2> QED BY <2>3, RestingKeeps
<1> QED BY <1>1, <1>2, ProcessFrame, StillKeeps, RestingKeeps

-----------------------------------------------------------------------------
(* The invariant and what follows from it.                                 *)

\* The invariant holds at the start.
LEMMA InitFinalization == Init => FinalizationInv
<1> SUFFICES ASSUME Init PROVE FinalizationInv
  OBVIOUS
<1>0. env \in Scenarios /\ Managed \subseteq Sessions /\ Worker \in Processes
  BY DEF Init, Sessions, Processes
<1> DEFINE first == [parent |-> 0, line |-> {Base}, by |-> "user", claim |-> None,
                     tree |-> [done |-> {}, work |-> {}, ord |-> FALSE]]
<1>1. object = <<first>> /\ first \in Commits
  BY DEF Init, Commits, Trees, Base
<1>2. /\ object \in Seq(Commits) /\ Len(object) = 1 /\ object[1] = first
  BY <1>1
<1>3. CommitIds = {1} /\ Base = 1
  BY <1>2 DEF CommitIds, Base
<1>4. /\ object[Base].by = "user" /\ object[Base].claim = None
      /\ object[Base].line = {Base}
  BY <1>2, <1>3
<1> HIDE DEF first
<1>5. GitTypes
  BY <1>0, <1>2, <1>3 DEF Init, GitTypes
<1>6. JournalTypes
  BY DEF Init, JournalTypes, JStates, Pending, Finalizing
<1>7. RegistryTypes
  <2>1. cmd \in Cmds
    BY DEF Init, NoCmd, Cmds, Places
  <2>2. ctl \in [Sessions -> {"none", "running", "resume", "queued", "stopped"}]
    BY DEF Init
  <2> QED BY <2>1, <2>2 DEF Init, RegistryTypes
<1>8. ProcessTypes
  BY DEF Init, ProcessTypes, Labels
<1>9. History /\ RemoteKept
  BY <1>3, <1>4 DEF Init, History, RemoteKept, Line
<1>10. JournalsSound
  BY DEF Init, JournalsSound, Finalizing
<1>11. CommandCurrent
  BY DEF Init, CommandCurrent, NoCmd
<1>12. ASSUME NEW p \in Processes PROVE CopyCurrent(p) /\ ProofHeld(p)
  <2>1. pc[p] = "idle" /\ pfresh[p] = FALSE
    BY DEF Init
  <2> QED BY <2>1 DEF CopyCurrent, ProofHeld, Working, Finding, Repairing, Publishing
<1>13. CodexFenced /\ SuccessKept
  BY GitConstants DEF Init, CodexFenced, SuccessKept, Processes
<1> QED BY <1>5, <1>6, <1>7, <1>8, <1>9, <1>10, <1>11, <1>12, <1>13 DEF FinalizationInv

\* Every step of the agent, the user, the registry, the workers and the
\* schedulers keeps it.
LEMMA StepFinalization == FinalizationInv /\ [Next]_vars => FinalizationInv'
<1> SUFFICES ASSUME FinalizationInv, [Next]_vars PROVE FinalizationInv'
  OBVIOUS
<1> QED BY GitStep, JournalTypesStep, RegistryStep, ProcessTypesStep, HistoryStep,
     RemoteStep, JournalsStep, CommandStep, ProcessStep, CodexStep, SuccessStep
     DEF FinalizationInv

\* FinalizationInv is an invariant of the finalization of Git tasks.
THEOREM FinalizationInvariant == Spec => []FinalizationInv
BY InitFinalization, StepFinalization, PTL DEF Spec

\* The branch, the remote, seals and proofs always name commits there are
\* (managed_git.rs), whoever rewinds, amends or pushes.
THEOREM FinalizationTypes == Spec => []TypeOK
<1>1. FinalizationInv => TypeOK
  <2> SUFFICES ASSUME FinalizationInv PROVE TypeOK
    OBVIOUS
  <2>1. /\ tip \in CommitIds /\ remote \in CommitIds /\ published \subseteq CommitIds
        /\ index \subseteq Works /\ lock \in Finalizers \cup {None, "left"}
    BY DEF FinalizationInv, GitTypes
  <2>2. \A c \in CommitIds : Tree(c) \in Trees /\ Line(c) \subseteq CommitIds
    BY CommitTypes DEF FinalizationInv, History
  <2>3. ASSUME NEW s \in Managed
        PROVE  /\ jstate[s] \in Pending \cup {"completed", "absent"}
               /\ seal[s] # None => /\ seal[s].parent \in CommitIds
                                    /\ seal[s].tree \in Trees
               /\ oid[s] \in CommitIds \cup {None}
               /\ board[s] \in {"doing", "both", "twice", "done"}
    BY DEF FinalizationInv, JournalTypes, JStates, Seals
  <2> QED BY <2>1, <2>2, <2>3 DEF TypeOK, FinalizationInv, RegistryTypes
<1> QED BY <1>1, FinalizationInvariant, PTL

\* A stored proof names the agent's commit of the task with the parent and the
\* tree of the stored seal (reconcile_agent_git_finalization and `clt done
\* done' race for both), and every agent commit below it is the proven one of
\* another completed session (agent_git_range_is_safe_before_manifest).
THEOREM ProofsAreSound == Spec => []ProofIsSound
<1>1. FinalizationInv => ProofIsSound
  <2> SUFFICES ASSUME FinalizationInv PROVE ProofIsSound
    OBVIOUS
  <2>1. ProofMatchesSeal
    BY DEF FinalizationInv, JournalsSound, ProofMatchesSeal
  <2>2. ASSUME NEW s \in Managed, oid[s] # None,
               NEW c \in Line(oid[s]) \ {Base, oid[s]}, object[c].by = "agent"
        PROVE  \E t \in Managed \ {s} : oid[t] = c /\ jstate[t] = "completed"
    <3>1. /\ MatchesSeal(oid[s], s) /\ object[oid[s]].by = "agent"
          /\ seal[s] # None => Vetted(s, seal[s].parent)
          /\ oid[s] \in CommitIds /\ object[Base].by = "user"
      BY <2>2 DEF FinalizationInv, JournalsSound, JournalTypes, History
    <3>2. Line(oid[s]) = Line(object[oid[s]].parent) \cup {oid[s]}
      BY <3>1 DEF FinalizationInv, History
    <3> QED BY <2>2, <3>1, <3>2 DEF MatchesSeal, Vetted
  <2> QED BY <2>1, <2>2 DEF ProofIsSound, NoUnprovenWorkBelow
<1> QED BY <1>1, FinalizationInvariant, PTL

\* A finished task is one success: the worker's record and the acknowledgement
\* (acknowledge_completed_git_finalization_session) never both write one.
THEOREM SuccessOnce == Spec => []OneSuccess
<1>1. FinalizationInv => OneSuccess
  BY DEF FinalizationInv, JournalTypes, SuccessKept, OneSuccess
<1> QED BY <1>1, FinalizationInvariant, PTL

\* While a scheduler holds the finalizer lease no Codex of the project is alive
\* (try_acquire_git_finalization_lease and acquire_agent_job_stage).
THEOREM CheckoutToItself == Spec => []NoFinalizerOverCodex
<1>1. FinalizationInv => NoFinalizerOverCodex
  BY DEF FinalizationInv, CodexFenced, NoFinalizerOverCodex
<1> QED BY <1>1, FinalizationInvariant, PTL

\* A repair of the Done list (managed_git/repair.rs) takes one commit out of
\* the branch, the one it repairs: what others committed meanwhile stays.
THEOREM RepairsKeepOthers == Spec => RepairKeepsOthers
<1> DEFINE Step == \A p \in Finalizers :
                     pc[p] = "ref" /\ tip' # tip /\ pc'[p] = "loop" =>
                       Line(tip) \ {poid[p]} \subseteq object'[tip'].line
<1>1. FinalizationInv /\ [Next]_vars => Step
  <2> SUFFICES ASSUME FinalizationInv, [Next]_vars, NEW p \in Finalizers,
                      pc[p] = "ref", pc'[p] = "loop"
               PROVE  Line(tip) \ {poid[p]} \subseteq object'[tip'].line
    OBVIOUS
  <2>0. p \in Processes /\ pc \in [Processes -> Labels]
    BY DEF Processes, FinalizationInv, ProcessTypes
  <2>1. ~Still(p) /\ ~Resting(p)
    BY DEF Still, Resting, Working
  <2>2. ~Scheduler(p)
    BY <2>0 DEF Scheduler, AcquireFinalizer, ReleaseFinalizer, SchedulesPlain,
       SchedulerRuns, PassEnds, FinalizerCrashes
  <2>3. ~GiveUp(p)
    BY <2>0, <2>1, LeavingRests
  <2>4. RepairMoves(p)
    <3>1. Reconcile(p)
      BY <2>0, <2>1, <2>2, ProcessFrame
    <3> QED BY <2>3, <3>1 DEF Reconcile, Begin, Skip, MayReconcile, RepairBoard,
         FindCommit, CheckCommit, RemoteFails, Fetch, Push, ProvePush, Store, Finish,
         InLoop, RepairChecks, RepairLocks, RepairAmends, RepairIndex, RepairFails,
         RepairStep, Stuck
  <2>5. tip = poid[p] /\ tip' = pnew[p] /\ object' = object
    BY <2>4 DEF RepairMoves, SameTip
  <2>6. /\ poid[p] \in CommitIds \ {Base} /\ pnew[p] \in CommitIds \ {Base}
        /\ object[pnew[p]].parent = object[poid[p]].parent
    BY <2>0 DEF FinalizationInv, ProofHeld, Finding, Repairing
  <2>7. /\ Line(poid[p]) = Line(object[poid[p]].parent) \cup {poid[p]}
        /\ Line(pnew[p]) = Line(object[pnew[p]].parent) \cup {pnew[p]}
    BY <2>6 DEF FinalizationInv, History
  <2>8. Line(tip) \ {poid[p]} \subseteq Line(pnew[p])
    BY <2>5, <2>6, <2>7
  <2> QED BY <2>5, <2>8 DEF Line
<1>2. FinalizationInv /\ [Next]_vars => [Step]_vars
  BY <1>1
<1> QED BY <1>2, FinalizationInvariant, PTL DEF Spec, RepairKeepsOthers

-----------------------------------------------------------------------------
(* The refinement of TaskDelivery.                                         *)

Offers == {[id |-> c, claim |-> object[c].claim,
            terms |-> [parent |-> object[c].parent, tree |-> object[c].tree]] :
             c \in 1 .. Len(object)}
Accepteds == {s \in Managed : jstate[s] = "completed"}

\* Every commit is an offer, known by its number.
LEMMA OfferIds == 1 .. Len(object) \subseteq {o.id : o \in Offers}
<1> SUFFICES ASSUME NEW c \in 1 .. Len(object) PROVE \E o \in Offers : o.id = c
  OBVIOUS
<1> DEFINE o == [id |-> c, claim |-> object[c].claim,
                 terms |-> [parent |-> object[c].parent, tree |-> object[c].tree]]
<1>1. o \in Offers
  BY DEF Offers
<1>2. o.id = c
  OBVIOUS
<1> QED BY <1>1, <1>2

\* A commit is an offer that was not there.
LEMMA CommitIsOffer ==
  ASSUME FinalizationInv, NEW rec, Created(rec), UNCHANGED <<jrn, published>>
  PROVE  Delivery!Next
<1> DEFINE n == Len(object) + 1
           new == [id |-> n, claim |-> rec.claim,
                   terms |-> [parent |-> rec.parent, tree |-> rec.tree]]
<1>1. /\ Len(object) \in Nat /\ Len(object') = n /\ object'[n] = rec
      /\ \A c \in 1 .. Len(object) : object'[c] = object[c]
  BY DEF FinalizationInv, GitTypes, Created
<1>2. 1 .. n = (1 .. Len(object)) \cup {n} /\ n \notin 1 .. Len(object)
  BY <1>1
<1> HIDE DEF n
<1>3. Offers' = Offers \cup {new}
  BY <1>1, <1>2 DEF Offers
<1>4. \A q \in Offers : q.id # new.id
  BY <1>2 DEF Offers
<1>5. Accepteds' = Accepteds
  BY DEF Accepteds
<1> HIDE DEF new
<1> QED BY <1>3, <1>4, <1>5 DEF Delivery!Next, Delivery!Offer, Offers, Accepteds

\* A journal write is a revision, a delivery, an acceptance or none of them.
LEMMA WriteIsDelivery ==
  ASSUME FinalizationInv, NEW s \in Managed, Writes(s),
         UNCHANGED <<object, published>>
  PROVE  [Delivery!Next]_(Delivery!vars)
<1>0. /\ jstate \in [Managed -> JStates] /\ seal \in [Managed -> Seals \cup {None}]
      /\ oid \in [Managed -> CommitIds \cup {None}] /\ None \notin CommitIds
      /\ oid[s] # None <=> jstate[s] \in {"push_pending", "completed"}
  BY GitConstants DEF FinalizationInv, JournalTypes, JournalsSound, CommitIds
<1>1. Offers' = Offers
  BY DEF Offers
<1>2. CASE WritesSeal(s)
  <2>1. /\ oid[s] = None /\ seal'[s] # None /\ seal' = [seal EXCEPT ![s] = seal'[s]]
        /\ oid' = oid
    BY <1>0, <1>2 DEF WritesSeal
  <2>2. Accepteds' = Accepteds
    BY <1>0, <1>2 DEF WritesSeal, Accepteds
  <2> QED BY <1>1, <2>1, <2>2 DEF Delivery!Next, Delivery!Revise, Offers, Accepteds
<1>3. CASE WritesMove(s)
  <2>1. Accepteds' = Accepteds
    BY <1>0, <1>3 DEF WritesMove, Accepteds
  <2> QED BY <1>1, <1>3, <2>1 DEF WritesMove, Delivery!vars, Offers, Accepteds
<1>4. CASE WritesProof(s)
  <2>1. PICK c \in CommitIds \ {Base} :
          /\ oid' = [oid EXCEPT ![s] = c] /\ MatchesSeal(c, s) /\ object[c].claim = s
    BY <1>4 DEF WritesProof
  <2>2. oid[s] = None /\ seal[s] # None /\ seal' = seal
    BY <1>0, <1>4, <2>1 DEF WritesProof, MatchesSeal
  <2> DEFINE o == [id |-> c, claim |-> object[c].claim,
                   terms |-> [parent |-> object[c].parent, tree |-> object[c].tree]]
  <2>3. o \in Offers
    BY DEF Offers, CommitIds
  <2>4. seal[s] = [parent |-> seal[s].parent, tree |-> seal[s].tree]
    BY <1>0, <2>2 DEF Seals
  <2>5. o.id = c /\ o.claim = s /\ o.terms = seal[s]
    BY <2>1, <2>4 DEF MatchesSeal, Tree
  <2>6. Accepteds' = IF s \in PushMode THEN Accepteds ELSE Accepteds \cup {s}
    BY <1>0, <1>4 DEF WritesProof, Accepteds
  <2> HIDE DEF o
  <2>7. \E q \in Offers : /\ q.claim = s /\ q.terms = seal[s]
                          /\ oid' = [oid EXCEPT ![s] = q.id]
    BY <2>1, <2>3, <2>5
  <2> QED BY <1>1, <2>2, <2>6, <2>7 DEF Delivery!Next, Delivery!Deliver, Offers, Accepteds
<1>5. CASE WritesPublication(s)
  <2>1. oid[s] # None /\ oid[s] \in published /\ UNCHANGED <<seal, oid>>
    BY <1>0, <1>5 DEF WritesPublication
  <2>2. Accepteds' = Accepteds \cup {s}
    BY <1>0, <1>5 DEF WritesPublication, Accepteds
  <2> QED BY <1>1, <2>1, <2>2 DEF Delivery!Next, Delivery!Accept, Offers, Accepteds
<1> QED BY <1>2, <1>3, <1>4, <1>5 DEF Writes

\* Every step of the finalization is a step of a delivery, or none.
LEMMA StepIsDelivery ==
  ASSUME FinalizationInv, [Next]_vars
  PROVE  [Delivery!Next]_(Delivery!vars)
<1>1. CASE UNCHANGED <<object, published, remote>> /\ \E s \in Managed : Writes(s)
  BY <1>1, WriteIsDelivery
<1>2. ASSUME NEW c \in CommitIds, published' = published \cup Line(c),
             UNCHANGED <<object, jrn>>
      PROVE  Delivery!Next
  <2>1. published' \subseteq 1 .. Len(object)
    BY <1>2 DEF FinalizationInv, GitTypes, History, CommitIds
  <2>2. published' \subseteq {o.id : o \in Offers}
    BY <2>1, OfferIds
  <2>3. Offers' = Offers /\ Accepteds' = Accepteds
    BY <1>2 DEF Offers, Accepteds
  <2> QED BY <1>2, <2>2, <2>3 DEF Delivery!Next, Delivery!Publish, Offers, Accepteds
<1>3. CASE UNCHANGED <<jrn, object, published>>
  BY <1>3 DEF Delivery!vars
<1>4. UNCHANGED object \/ \E rec : Created(rec)
  BY ObjectFootprint, AgentCommitsFacts, UserCommitsFacts, RepairAmendsFacts
     DEF FinalizationInv
<1> QED BY <1>1, <1>2, <1>3, <1>4, JournalWrites, RemoteSteps, CommitIsOffer

\* Finalization implements TaskDelivery: terms are revised only before the
\* proof (reseal_git_finalization_manifest), a commit that meets the terms in
\* force is delivered once, and completion is final and, in commit-and-push
\* mode, follows the publication (compare_and_set_git_finalization).
THEOREM FinalizationIsDelivery == Spec => IsDelivery
<1>1. Init => Delivery!Init
  <2> SUFFICES ASSUME Init PROVE Delivery!Init
    OBVIOUS
  <2>1. published = {1} /\ Len(object) = 1
    BY DEF Init, Base
  <2>2. published \subseteq {o.id : o \in Offers}
    BY <2>1, OfferIds
  <2>3. Accepteds = {}
    BY DEF Init, Accepteds
  <2> QED BY <2>2, <2>3 DEF Init, Delivery!Init, Offers, Accepteds
<1>2. FinalizationInv /\ [Next]_vars => [Delivery!Next]_(Delivery!vars)
  BY StepIsDelivery
<1> QED BY <1>1, <1>2, FinalizationInvariant, PTL DEF Spec, IsDelivery, Delivery!Spec

=============================================================================
