--------------------------- MODULE MCSessionControl ---------------------------
(* SessionControl with the holder names of small instances.                 *)
EXTENDS SessionControl, TLC

CONSTANTS r1, r2, u1, u2, g1, g2, s1, s2, x1, x2, c1, c2

MCGuardian == u1 :> g1 @@ u2 :> g2

Scene(cast, inline, modes, mortal, stall) ==
  [cast |-> cast, inline |-> inline, modes |-> modes, mortal |-> mortal,
   stall |-> stall]

\* One of each on one session.
Takeover == Scene({s1, r1, u1, x1, c1}, {}, {"interrupt", "idle"},
                  {r1, u1, g1, x1}, {r1, u1, g1, x1})
\* A service worker and a resume worker launch for the same session.
Resume == Scene({s1, r1, r2, u1}, {r2}, {"interrupt", "idle"},
                {r1, r2, u1, g1}, {r1, u1, g1})
\* Two replacement supervisors race for an orphan beside a second run.
Rescue == Scene({s1, r1, r2, x1, x2, c1}, {r1}, {}, {r1, x1}, {})
\* A session opened alongside the project's owner.
Alongside == Scene({s1, s2, r1, u1, c1}, {}, {"shared", "idle"}, {u1, g1}, {u1})
\* Two guardians follow each other, two schedulers recover from old reads.
Successors == Scene({s1, u1, u2, c1, c2}, {}, {"idle"}, {g1}, {})
Safety == {Takeover, Resume, Rescue, Alongside, Successors}

\* Deaths of everybody but the recovering processes, which may be late.
Progress == {Scene({s1, r1, u1, x1, c1}, {r1}, {"interrupt"}, {r1, u1, g1}, {x1})}

\* A run without a worker row beside a worker of the project.
Overlap == {Scene({s1, s2, r1, r2, u1}, {r2}, {"interrupt"}, {r1}, {})}

\* The theorems of SessionControlProofs are about scenarios like these.
ASSUME Hypotheses == Punctual /\ Prompt
=============================================================================
