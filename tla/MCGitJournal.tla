---------------------------- MODULE MCGitJournal -----------------------------
(* Instances of GitJournal: two conversations, one or two tasks.            *)
EXTENDS GitJournal, TLC

CONSTANTS s1, s2, t1, t2

Base(inputs) ==
  [inputs |-> inputs, tasks |-> {t1}, first |-> {t1}, gitOn |-> TRUE,
   folder |-> FALSE, runs |-> 2, hist |-> 3, commits |-> 2]

Attempts   == Base({"die", "stop", "resume", "delete", "crash"})
Completion == Base({"stop", "resume", "complete", "crash"})
Recovery   == [Base({"switch", "recover", "restart", "crash"})
                 EXCEPT !.folder = TRUE]
Widowed    == [Base({"switch", "recover", "die", "crash"})
                 EXCEPT !.folder = TRUE, !.hist = 2]
Restarted  == [Base({"recover", "restart", "die", "crash"})
                 EXCEPT !.folder = TRUE]
Conflict   == [Base({"conflict", "restart", "unlink", "die"})
                 EXCEPT !.runs = 3, !.hist = 4]
GitEnabled == [Base({"add", "mode", "conflict"})
                 EXCEPT !.first = {}, !.gitOn = FALSE, !.folder = TRUE,
                        !.runs = 3, !.hist = 4, !.commits = 3]
Rebuilt    == [Base({"mode", "rebuild", "reconcile", "stop"})
                 EXCEPT !.folder = TRUE]
Boards     == [Base({"add", "commit", "unlink", "switch"})
                 EXCEPT !.tasks = {t1, t2}, !.folder = TRUE, !.hist = 2]

\* A Markdown board, where a killed move leaves the task in both columns.
Copies     == [Base({"switch", "recover", "restart", "delete", "crash"})
                 EXCEPT !.hist = 2]

Safety == {Attempts, Completion, Recovery, Widowed, Restarted, Conflict,
           GitEnabled, Rebuilt, Boards, Copies}

\* No scenario and no operator tells one conversation from the other.
Conversations == Permutations({s1, s2})

\* A boundary that no session consumed beside a journal without a task.
Fenced   == [Base({"die", "stop", "resume"})
               EXCEPT !.runs = 3, !.commits = 4, !.folder = TRUE]
Lost     == [Base({"die", "mode"}) EXCEPT !.runs = 3, !.commits = 4]
Relinked == [Base({"stop", "unlink", "resume"}) EXCEPT !.folder = TRUE]
Progress == {Fenced, Lost, Relinked}

\* What the documentation promises without exception.
Markdown == {Base({"switch", "recover", "crash"})}
Orphan   == {[Base({"restart", "die", "crash"}) EXCEPT !.folder = TRUE]}
Boundary == {Fenced}
=============================================================================
