-------------------------- MODULE MCApplication ---------------------------
(* Instances of Application for TLC. *)
EXTENDS Application, TLC

CONSTANTS r1, r2, r3, r4, p1, p2

FourRequests == {r1, r2, r3, r4}
TwoPostings == {p1, p2}

\* Requests, and postings, are interchangeable.  Used by safety runs only.
Symmetry4 == Permutations(FourRequests) \cup Permutations(TwoPostings)
=============================================================================
