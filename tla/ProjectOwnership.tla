-------------------------- MODULE ProjectOwnership ---------------------------
(***************************************************************************)
(* What the registry promises of the jobs of a project, without leases,    *)
(* processes, clocks or observations: a project belongs to one job at a    *)
(* time, from its reservation to its end; Codex executes in it only for    *)
(* that job; and a job ends once, with its Codex gone, with one outcome    *)
(* that is recorded as the project becomes free and stays for good.        *)
(***************************************************************************)
CONSTANTS Projects, Jobs, ProjectOf, Outcomes, None

VARIABLES
  owner,     \* the job a project belongs to, or None
  working,   \* the jobs whose Codex is executing
  outcome,   \* of a job, or "none"
  finished   \* the jobs that ended themselves; the others were given up

vars == <<owner, working, outcome, finished>>

Init ==
  /\ owner = [p \in Projects |-> None] /\ working = {}
  /\ outcome = [j \in Jobs |-> "none"] /\ finished = {}

Owns(j) == owner[ProjectOf[j]] = j

Take(j) ==
  /\ owner[ProjectOf[j]] = None /\ outcome[j] = "none"
  /\ owner' = [owner EXCEPT ![ProjectOf[j]] = j]
  /\ UNCHANGED <<working, outcome, finished>>

Start(j) ==
  /\ Owns(j)
  /\ working' = working \cup {j}
  /\ UNCHANGED <<owner, outcome, finished>>

Pause ==
  /\ working' \subseteq working
  /\ UNCHANGED <<outcome, finished, owner>>

\* The project becomes free with the outcome.
End(j, o) ==
  /\ Owns(j) /\ j \notin working
  /\ owner' = [owner EXCEPT ![ProjectOf[j]] = None]
  /\ outcome' = [outcome EXCEPT ![j] = o]
  /\ UNCHANGED working

Finish(j) == \E o \in Outcomes : End(j, o) /\ finished' = finished \cup {j}

GiveUp(j) == End(j, "failure") /\ UNCHANGED finished

Next == \/ Pause
        \/ \E j \in Jobs : Take(j) \/ Start(j) \/ Finish(j) \/ GiveUp(j)

Spec == Init /\ [][Next]_vars
=============================================================================
