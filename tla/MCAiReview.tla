---------------------------- MODULE MCAiReview ----------------------------
(* Values for the constants of AiReview: items named for what they are about. *)
EXTENDS AiReview, TLC

CONSTANTS skill, jobPost, extraction

TypeOf == (skill :> "skill") @@ (jobPost :> "job_post") @@ (extraction :> "cv_extraction")
EntityTypeOf == [i \in Item |-> TypeOf[i]]

Symmetric == Permutations(Request)
=============================================================================
