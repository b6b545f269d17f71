----------------------------- MODULE JobQueue -----------------------------
(***************************************************************************)
(* The database-backed job queue of the backend: QueueService.dispatch     *)
(* (src/Backend/src/services/queue/queue.service.js), the polling worker   *)
(* (src/Backend/src/jobs/worker.js) and the process life cycle that        *)
(* startServer gives it (src/Backend/src/server.js).                       *)
(*                                                                         *)
(* Each worker process runs one loop.  An iteration opens a transaction,   *)
(* locks the oldest due pending row with SELECT ... FOR UPDATE, marks it   *)
(* "processing" and commits; the handler then runs outside of it, and one  *)
(* more save writes the outcome.  Every await is a step of its own here,   *)
(* so a process can stop, and another process can move, between any two.   *)
(*                                                                         *)
(* Abstractions: instants are numbers and time advances only while some    *)
(* pending job waits for it; payloads and error texts are left out; a save *)
(* that reports an error has not been applied.                             *)
(***************************************************************************)
EXTENDS Naturals, FiniteSets

CONSTANTS
  NumJobs,       \* bound: rows ever inserted in the jobs table
  Worker,        \* worker processes
  NoOne,         \* "no process"
  Names,         \* job names callers dispatch
  Registered,    \* names with a handler in the worker's map
  Delays,        \* delaySeconds values callers pass
  MaxAttempts,   \* max_attempts (the default of dispatch is 3)
  BackoffUnit,   \* the 5 seconds of the quadratic backoff, in ticks
  MaxFaults,     \* bound: crashes and failed database calls
  MaxShutdowns   \* bound: graceful shutdowns begun

ASSUME QueueAssumption ==
  /\ NumJobs \in Nat
  /\ NoOne \notin Worker
  /\ Names # {}
  /\ Registered \subseteq Names
  /\ Delays \subseteq Nat
  /\ MaxAttempts \in Nat \ {0}
  /\ BackoffUnit \in Nat
  /\ MaxFaults \in Nat
  /\ MaxShutdowns \in Nat

JobId == 1..NumJobs
NoJob == 0

VARIABLES
  jobs,       \* the jobs table: jobs[id] is a row, "none" before the insert
  lock,       \* lock[id]: the process whose transaction holds the row lock
  pc,         \* pc[w]: where w's processNext is
  polling,    \* polling[w]: isRunning of w's worker
  held,       \* held[w]: id of the QueueJob instance w has in memory
  tries,      \* tries[w]: attempts of that instance
  now,        \* the database clock
  faults,     \* crashes and failed calls so far
  shutdowns   \* shutdowns begun so far

table == <<jobs, lock>>
process == <<pc, polling, held, tries>>
vars == <<jobs, lock, pc, polling, held, tries, now, faults, shutdowns>>

Statuses == {"none", "pending", "processing", "completed", "failed"}
Final == {"completed", "failed"}

Row == [status : Statuses, name : Names, attempts : Nat, availableAt : Nat]

\* Steps of one iteration: a row is selected and locked; the handler runs;
\* the handler returned; the handler, or the save after it, threw.
Holding == {"locked", "running", "returned", "threw"}
Executing == {"running", "returned", "threw"}

NoRow == [status |-> "none", name |-> CHOOSE n \in Names : TRUE,
          attempts |-> 0, availableAt |-> 0]

TypeOK ==
  /\ jobs \in [JobId -> Row]
  /\ lock \in [JobId -> Worker \cup {NoOne}]
  /\ pc \in [Worker -> {"down", "idle"} \cup Holding]
  /\ polling \in [Worker -> BOOLEAN]
  /\ held \in [Worker -> JobId \cup {NoJob}]
  /\ tries \in [Worker -> Nat]
  /\ now \in Nat
  /\ faults \in Nat
  /\ shutdowns \in Nat

Init ==
  /\ jobs = [j \in JobId |-> NoRow]
  /\ lock = [j \in JobId |-> NoOne]
  /\ pc = [w \in Worker |-> "down"]
  /\ polling = [w \in Worker |-> FALSE]
  /\ held = [w \in Worker |-> NoJob]
  /\ tries = [w \in Worker |-> 0]
  /\ now = 0
  /\ faults = 0
  /\ shutdowns = 0

-----------------------------------------------------------------------------
(* Time and faults *)

\* Due times lie at most the longest backoff ahead, so the clock stops by
\* itself once nothing waits for it.
Tick ==
  /\ \E j \in JobId : jobs[j].status = "pending" /\ jobs[j].availableAt > now
  /\ now' = now + 1
  /\ UNCHANGED <<table, process, faults, shutdowns>>

Fault ==
  /\ faults < MaxFaults
  /\ faults' = faults + 1

-----------------------------------------------------------------------------
(* Dispatching.  Ids are auto-incremented: rows appear in the order 1, 2, ... *)

Dispatch(j, name, delay) ==
  /\ jobs[j].status = "none"
  /\ \A k \in JobId : k < j => jobs[k].status # "none"
  /\ jobs' = [jobs EXCEPT ![j] = [status |-> "pending", name |-> name,
                                  attempts |-> 0, availableAt |-> now + delay]]
  /\ UNCHANGED <<lock, process, now, faults, shutdowns>>

-----------------------------------------------------------------------------
(* One iteration of the polling loop of worker w *)

Due(j) == jobs[j].status = "pending" /\ jobs[j].availableAt <= now

\* Mutant: ORDER BY id.
Before_ById(j, k) == j <= k

\* ORDER BY available_at, id
Before(j, k) ==
  \/ jobs[j].availableAt < jobs[k].availableAt
  \/ jobs[j].availableAt = jobs[k].availableAt /\ j <= k

Oldest(j) == Due(j) /\ \A k \in JobId : Due(k) => Before(j, k)

\* Mutant: a plain read, without LOCK.UPDATE.
Lockable_Unlocked(j) == TRUE

\* The locking read has no SKIP LOCKED: it waits while the oldest due row is
\* locked by another transaction.
Lockable(j) == lock[j] = NoOne

FindAndLock(w, j) ==
  /\ pc[w] = "idle"
  /\ polling[w]
  /\ Oldest(j)
  /\ Lockable(j)
  /\ lock' = [lock EXCEPT ![j] = w]
  /\ held' = [held EXCEPT ![w] = j]
  /\ tries' = [tries EXCEPT ![w] = jobs[j].attempts]
  /\ pc' = [pc EXCEPT ![w] = "locked"]
  /\ UNCHANGED <<jobs, polling, now, faults, shutdowns>>

\* Nothing is due: the transaction commits and the loop sleeps.
FindNothing(w) ==
  /\ pc[w] = "idle"
  /\ polling[w]
  /\ \A j \in JobId : ~Due(j)
  /\ UNCHANGED vars

Reserved(row, w) ==
  [row EXCEPT !.status = "processing", !.attempts = tries[w] + 1]

\* Mutant: attempts is not counted when the row is reserved.
Reserve_Uncounted(w) ==
  /\ pc[w] = "locked"
  /\ jobs' = [jobs EXCEPT ![held[w]].status = "processing"]
  /\ lock' = [lock EXCEPT ![held[w]] = NoOne]
  /\ pc' = [pc EXCEPT ![w] = "running"]
  /\ UNCHANGED <<polling, held, tries, now, faults, shutdowns>>

Reserve(w) ==
  /\ pc[w] = "locked"
  /\ jobs' = [jobs EXCEPT ![held[w]] = Reserved(@, w)]
  /\ tries' = [tries EXCEPT ![w] = @ + 1]
  /\ lock' = [lock EXCEPT ![held[w]] = NoOne]
  /\ pc' = [pc EXCEPT ![w] = "running"]
  /\ UNCHANGED <<polling, held, now, faults, shutdowns>>

\* The instance is dropped when processNext returns.
Return(w) ==
  /\ pc' = [pc EXCEPT ![w] = "idle"]
  /\ held' = [held EXCEPT ![w] = NoJob]
  /\ tries' = [tries EXCEPT ![w] = 0]
  /\ UNCHANGED polling

\* Mutant: the catch block forgets transaction.rollback().
ReserveError_NoRollback(w) ==
  /\ pc[w] = "locked"
  /\ Fault
  /\ Return(w)
  /\ UNCHANGED <<table, now, shutdowns>>

ReserveError(w) ==
  /\ pc[w] = "locked"
  /\ Fault
  /\ lock' = [lock EXCEPT ![held[w]] = NoOne]
  /\ Return(w)
  /\ UNCHANGED <<jobs, now, shutdowns>>

HasHandler(w) == jobs[held[w]].name \in Registered

\* Mutant: a status of its own for jobs nothing handles, not in the column's ENUM.
NoHandler_NewStatus(w) ==
  /\ pc[w] = "running"
  /\ ~HasHandler(w)
  /\ jobs' = [jobs EXCEPT ![held[w]].status = "unhandled"]
  /\ Return(w)
  /\ UNCHANGED <<lock, now, faults, shutdowns>>

NoHandler(w) ==
  /\ pc[w] = "running"
  /\ ~HasHandler(w)
  /\ jobs' = [jobs EXCEPT ![held[w]].status = "failed"]
  /\ Return(w)
  /\ UNCHANGED <<lock, now, faults, shutdowns>>

HandlerReturns(w) ==
  /\ pc[w] = "running"
  /\ HasHandler(w)
  /\ pc' = [pc EXCEPT ![w] = "returned"]
  /\ UNCHANGED <<table, polling, held, tries, now, faults, shutdowns>>

HandlerThrows(w) ==
  /\ pc[w] = "running"
  /\ HasHandler(w)
  /\ pc' = [pc EXCEPT ![w] = "threw"]
  /\ UNCHANGED <<table, polling, held, tries, now, faults, shutdowns>>

SaveCompleted(w) ==
  /\ pc[w] = "returned"
  /\ jobs' = [jobs EXCEPT ![held[w]].status = "completed"]
  /\ Return(w)
  /\ UNCHANGED <<lock, now, faults, shutdowns>>

\* The save is inside the try block: its error is treated as the handler's.
SaveCompletedError(w) ==
  /\ pc[w] = "returned"
  /\ Fault
  /\ pc' = [pc EXCEPT ![w] = "threw"]
  /\ UNCHANGED <<table, polling, held, tries, now, shutdowns>>

Backoff(n) == n * n * BackoffUnit

\* Mutant: off by one in the comparison with max_attempts.
Exhausted_OffByOne(w) == tries[w] > MaxAttempts

Exhausted(w) == tries[w] >= MaxAttempts

\* Mutant: a retried row keeps the status "processing".
Retried_NotReset(row, w) ==
  [row EXCEPT !.availableAt = now + Backoff(tries[w])]

Retried(row, w) ==
  [row EXCEPT !.status = "pending", !.availableAt = now + Backoff(tries[w])]

SaveFailure(w) ==
  /\ pc[w] = "threw"
  /\ jobs' = IF Exhausted(w)
             THEN [jobs EXCEPT ![held[w]].status = "failed"]
             ELSE [jobs EXCEPT ![held[w]] = Retried(@, w)]
  /\ Return(w)
  /\ UNCHANGED <<lock, now, faults, shutdowns>>

\* A failed save outside of the try block: the loop logs it and polls on.
SaveFailureError(w) ==
  /\ \/ pc[w] = "threw"
     \/ pc[w] = "running" /\ ~HasHandler(w)
  /\ Fault
  /\ Return(w)
  /\ UNCHANGED <<table, now, shutdowns>>

-----------------------------------------------------------------------------
(* Processes start, shut down on SIGTERM, and crash *)

Start(w) ==
  /\ pc[w] = "down"
  /\ pc' = [pc EXCEPT ![w] = "idle"]
  /\ polling' = [polling EXCEPT ![w] = TRUE]
  /\ UNCHANGED <<table, held, tries, now, faults, shutdowns>>

\* worker.stop() only ends the polling; an iteration in progress goes on.
Stop(w) ==
  /\ polling[w]
  /\ shutdowns < MaxShutdowns
  /\ shutdowns' = shutdowns + 1
  /\ polling' = [polling EXCEPT ![w] = FALSE]
  /\ UNCHANGED <<table, pc, held, tries, now, faults>>

\* The process ends; the database rolls an open transaction back.
Leave(w) ==
  /\ lock' = [j \in JobId |-> IF lock[j] = w THEN NoOne ELSE lock[j]]
  /\ pc' = [pc EXCEPT ![w] = "down"]
  /\ polling' = [polling EXCEPT ![w] = FALSE]
  /\ held' = [held EXCEPT ![w] = NoJob]
  /\ tries' = [tries EXCEPT ![w] = 0]
  /\ UNCHANGED <<jobs, now, shutdowns>>

\* server.close waits for HTTP connections and sequelize.close for connections
\* in use, so an open transaction ends first; a running handler is cut off.
Exit(w) ==
  /\ pc[w] \notin {"down", "locked"}
  /\ ~polling[w]
  /\ Leave(w)
  /\ UNCHANGED faults

Crash(w) ==
  /\ pc[w] # "down"
  /\ Fault
  /\ Leave(w)

-----------------------------------------------------------------------------
Iteration(w) ==
  \/ \E j \in JobId : FindAndLock(w, j)
  \/ Reserve(w)
  \/ NoHandler(w)
  \/ HandlerReturns(w)
  \/ HandlerThrows(w)
  \/ SaveCompleted(w)
  \/ SaveFailure(w)

Failure(w) ==
  \/ ReserveError(w)
  \/ SaveCompletedError(w)
  \/ SaveFailureError(w)
  \/ Crash(w)

Next ==
  \/ Tick
  \/ \E j \in JobId, name \in Names, delay \in Delays : Dispatch(j, name, delay)
  \/ \E w \in Worker :
        \/ FindNothing(w)
        \/ Iteration(w)
        \/ Failure(w)
        \/ Start(w)
        \/ Stop(w)
        \/ Exit(w)

Spec == Init /\ [][Next]_vars

\* The loop re-arms its timer, a process that stopped polling ends, the
\* container is restarted (restart: unless-stopped), and time passes.
Fairness ==
  /\ WF_vars(Tick)
  /\ \A w \in Worker :
       /\ WF_vars(Iteration(w))
       /\ WF_vars(Start(w))
       /\ WF_vars(~polling[w] /\ Exit(w))

FairSpec == Spec /\ Fairness

-----------------------------------------------------------------------------
(* Properties *)

Runs(w, j) == pc[w] \in Executing /\ held[w] = j

Orphan(j) == jobs[j].status = "processing" /\ \A w \in Worker : ~Runs(w, j)

\* No two processes execute the same job at the same time, although the
\* handler runs after the transaction that reserved the row has committed; and
\* the row of a job in execution reads "processing" with the attempt being made.
OneRunner ==
  \A w \in Worker : pc[w] \in Executing =>
    /\ jobs[held[w]].status = "processing"
    /\ jobs[held[w]].attempts = tries[w]
    /\ \A v \in Worker \ {w} : ~Runs(v, held[w])

\* A row lock belongs to exactly the process whose open transaction selected the
\* row, and until that process commits nobody changes the row under it: it still
\* is pending, with the attempts the process read.
LockProtocol ==
  \A w \in Worker :
    /\ \A j \in JobId : lock[j] = w <=> pc[w] = "locked" /\ held[w] = j
    /\ pc[w] = "locked" => /\ jobs[held[w]].status = "pending"
                          /\ jobs[held[w]].attempts = tries[w]

\* A job is started at most max_attempts times, counting starts whose process
\* died; a job is given up only when its attempts are used up or nothing
\* handles it, and one that is waiting still has an attempt left.
AttemptsBounded ==
  \A j \in JobId :
    /\ jobs[j].attempts <= MaxAttempts
    /\ jobs[j].status = "pending" => jobs[j].attempts < MaxAttempts
    /\ jobs[j].status = "failed" =>
         jobs[j].attempts = MaxAttempts \/ jobs[j].name \notin Registered

\* Every job left in "processing" without a runner is the trace of its own
\* fault or shutdown: the worker loses no job by its own logic.
OrphansAccounted ==
  Cardinality({j \in JobId : Orphan(j)}) <= faults + shutdowns

\* A row that reached "completed" or "failed" is never picked up again.
FinalIsFinal ==
  [][\A j \in JobId : jobs[j].status \in Final => jobs'[j] = jobs[j]]_jobs

\* When a job is started no row that fell due strictly earlier still waits,
\* whatever was dispatched or put back between the read and the commit.
InDueOrder ==
  [][\A j, k \in JobId :
       /\ jobs[j].status = "pending"
       /\ jobs'[j].status = "processing"
       /\ jobs[k].status = "pending"
       => jobs[j].availableAt <= jobs[k].availableAt]_jobs

\* Every dispatched job is eventually completed, failed, or orphaned by a
\* fault or a shutdown; none waits forever, and no lock outlives its holder.
Settles ==
  \A j \in JobId :
    jobs[j].status = "pending" ~> (jobs[j].status \in Final \/ Orphan(j))

\* The worker implements the life cycle that JobLifecycle promises.
Runner(j) == IF \E w \in Worker : Runs(w, j)
             THEN CHOOSE w \in Worker : Runs(w, j)
             ELSE NoOne

Lifecycle == INSTANCE JobLifecycle WITH
  stage  <- [j \in JobId |-> jobs[j].status],
  starts <- [j \in JobId |-> jobs[j].attempts],
  owner  <- [j \in JobId |-> Runner(j)]

ImplementsLifecycle == Lifecycle!LSpec
=============================================================================
