--------------------------- MODULE JobLifecycle ---------------------------
(***************************************************************************)
(* What the background queue promises about one job: it is started at most *)
(* MaxAttempts times, never by two workers at once, and it stops in        *)
(* "completed" or "failed".  A job whose runner disappears keeps the       *)
(* status "processing": nothing in the code takes it back.                 *)
(*                                                                         *)
(* JobQueue implements this specification; the pipelines that dispatch     *)
(* jobs rely on it instead of on the worker's steps.                       *)
(***************************************************************************)
EXTENDS Naturals

CONSTANTS
  JobId,        \* primary keys of the jobs table
  Worker,       \* worker processes, each with one polling loop
  NoOne,        \* owner of a job no process is running
  MaxAttempts   \* max_attempts of every job

ASSUME LifecycleAssumption ==
  /\ MaxAttempts \in Nat \ {0}
  /\ NoOne \notin Worker

VARIABLES
  stage,        \* stage[j]: status of the row, "none" before the insert
  starts,       \* starts[j]: how often j was reserved
  owner         \* owner[j]: the process that is running j

lifecycleVars == <<stage, starts, owner>>

Stages == {"none", "pending", "processing", "completed", "failed"}

Final == {"completed", "failed"}

LInit ==
  /\ stage = [j \in JobId |-> "none"]
  /\ starts = [j \in JobId |-> 0]
  /\ owner = [j \in JobId |-> NoOne]

Submit(j) ==
  /\ stage[j] = "none"
  /\ stage' = [stage EXCEPT ![j] = "pending"]
  /\ UNCHANGED <<starts, owner>>

\* A process runs one job at a time, and a job has one runner at a time.
Begin(w, j) ==
  /\ stage[j] = "pending"
  /\ starts[j] < MaxAttempts
  /\ \A k \in JobId : owner[k] # w
  /\ stage' = [stage EXCEPT ![j] = "processing"]
  /\ starts' = [starts EXCEPT ![j] = @ + 1]
  /\ owner' = [owner EXCEPT ![j] = w]

End(w, j, outcome) ==
  /\ stage[j] = "processing"
  /\ owner[j] = w
  /\ stage' = [stage EXCEPT ![j] = outcome]
  /\ owner' = [owner EXCEPT ![j] = NoOne]
  /\ UNCHANGED starts

Complete(w, j) == End(w, j, "completed")
Fail(w, j)     == End(w, j, "failed")
PutBack(w, j)  == starts[j] < MaxAttempts /\ End(w, j, "pending")

\* The runner crashes, shuts down, or cannot write the outcome.
Abandon(w, j)  == End(w, j, "processing")

LNext ==
  \/ \E j \in JobId : Submit(j)
  \/ \E w \in Worker, j \in JobId :
        \/ Begin(w, j)
        \/ Complete(w, j)
        \/ Fail(w, j)
        \/ PutBack(w, j)
        \/ Abandon(w, j)

LSpec == LInit /\ [][LNext]_lifecycleVars
=============================================================================
