--------------------------- MODULE MCCvPipeline ---------------------------
(* Instances of CvPipeline for TLC. *)
EXTENDS CvPipeline

CONSTANTS w1, w2, r1, r2

TwoWorkers == {w1, w2}
TwoRequests == {r1, r2}
=============================================================================
