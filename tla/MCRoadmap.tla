----------------------------- MODULE MCRoadmap -----------------------------
(* Instances of Roadmap for TLC. *)
EXTENDS Roadmap, TLC

CONSTANTS r1, r2, r3, r4, t1, t2, t3, m1, m2, m3, p1, p2

ThreeRequests == {r1, r2, r3}
FourRequests == {r1, r2, r3, r4}

\* A milestone with two tasks, and a phase with one milestone that has no tasks.
ThreeTasks == {t1, t2, t3}
TwoPhases == <<m1, p1, m2, m3, p2>>
TwoPhasesChildren == (m1 :> {t1, t2}) @@ (p1 :> {m1})
                       @@ (m2 :> {t3}) @@ (m3 :> {}) @@ (p2 :> {m2, m3})
TwoPhasesOpened == {m1, p1}
Weights3 == (t1 :> 1) @@ (t2 :> 2) @@ (t3 :> 2)

\* One phase with one milestone of two tasks.
TwoTasks == {t1, t2}
OnePhase == <<m1, p1>>
OnePhaseChildren == (m1 :> {t1, t2}) @@ (p1 :> {m1})
Weights2 == (t1 :> 1) @@ (t2 :> 2)

\* Requests are interchangeable.  Used by safety runs only.
Symmetry4 == Permutations(FourRequests)
=============================================================================
