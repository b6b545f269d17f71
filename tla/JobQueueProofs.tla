-------------------------- MODULE JobQueueProofs --------------------------
(***************************************************************************)
(* Proofs about JobQueue, for any number of jobs, processes and faults.    *)
(*                                                                         *)
(* OneRunner is not inductive by itself: that a second process cannot      *)
(* reserve a running job follows from the row lock, so the invariant adds  *)
(* LockProtocol, and that a process with an instance in memory got it from *)
(* the table.                                                              *)
(***************************************************************************)
EXTENDS JobQueue, FiniteSetTheorems, TLAPS

InstancesExist == \A w \in Worker : pc[w] \in Holding => held[w] \in JobId

IInv == TypeOK /\ InstancesExist /\ LockProtocol /\ OneRunner /\ AttemptsBounded

-----------------------------------------------------------------------------
(* Type correctness *)

\* The backoff of the retry is a number of ticks.
LEMMA BackoffNat == ASSUME NEW n \in Nat PROVE Backoff(n) \in Nat
  BY QueueAssumption, n * n \in Nat DEF Backoff

\* A retried row is a row.
LEMMA RetriedRow ==
  ASSUME TypeOK, NEW r \in Row, NEW w \in Worker
  PROVE  /\ Retried(r, w) \in Row
         /\ Retried(r, w).status = "pending"
         /\ Retried(r, w).attempts = r.attempts
         /\ Retried(r, w).name = r.name
<1>1. Backoff(tries[w]) \in Nat
  BY BackoffNat DEF TypeOK
<1>2. now + Backoff(tries[w]) \in Nat
  BY <1>1 DEF TypeOK
<1> QED
  BY <1>2 DEF Retried, Row, Statuses

\* A reserved row is a row, and counts the attempt.
LEMMA ReservedRow ==
  ASSUME TypeOK, NEW r \in Row, NEW w \in Worker
  PROVE  /\ Reserved(r, w) \in Row
         /\ Reserved(r, w).status = "processing"
         /\ Reserved(r, w).attempts = tries[w] + 1
         /\ Reserved(r, w).name = r.name
<1>1. tries[w] + 1 \in Nat
  BY DEF TypeOK
<1> QED
  BY <1>1 DEF Reserved, Row, Statuses

\* The first state has the types of the tables and of the processes' memory.
LEMMA InitTypeOK == Init => TypeOK
<1>1. NoRow \in Row
  BY QueueAssumption DEF NoRow, Row, Statuses
<1> QED
  BY <1>1, QueueAssumption DEF Init, TypeOK, NoJob

\* Every step keeps the types.
LEMMA NextTypeOK == TypeOK /\ [Next]_vars => TypeOK'
<1> SUFFICES ASSUME TypeOK, [Next]_vars PROVE TypeOK'
  OBVIOUS
<1> USE DEF TypeOK
<1>1. CASE Tick
  BY <1>1 DEF Tick, table, process
<1>2. ASSUME NEW j \in JobId, NEW name \in Names, NEW delay \in Delays,
             Dispatch(j, name, delay)
      PROVE  TypeOK'
  <2>1. now + delay \in Nat
    BY QueueAssumption
  <2> QED
    BY <1>2, <2>1 DEF Dispatch, process, Row, Statuses
<1>3. ASSUME NEW w \in Worker, FindNothing(w) PROVE TypeOK'
  BY <1>3 DEF FindNothing, vars
<1>4. ASSUME NEW w \in Worker, Iteration(w) PROVE TypeOK'
  <2>1. ASSUME NEW j \in JobId, FindAndLock(w, j) PROVE TypeOK'
    BY <2>1 DEF FindAndLock, Row, Holding
  <2>2. CASE Reserve(w)
    <3>1. \A j \in JobId : Reserved(jobs[j], w) \in Row
      BY ReservedRow
    <3>2. jobs' \in [JobId -> Row]
      BY <2>2, <3>1 DEF Reserve
    <3> QED
      BY <2>2, <3>2 DEF Reserve, Holding
  <2>3. CASE NoHandler(w)
    <3>1. jobs' \in [JobId -> Row]
      BY <2>3, ZenonT(40) DEF NoHandler, Row, Statuses
    <3> QED
      BY <2>3, <3>1 DEF NoHandler, Return
  <2>4. CASE HandlerReturns(w) \/ HandlerThrows(w)
    BY <2>4 DEF HandlerReturns, HandlerThrows, table, Holding
  <2>5. CASE SaveCompleted(w)
    <3>1. jobs' \in [JobId -> Row]
      BY <2>5, ZenonT(40) DEF SaveCompleted, Row, Statuses
    <3> QED
      BY <2>5, <3>1 DEF SaveCompleted, Return
  <2>6. CASE SaveFailure(w)
    <3>1. \A j \in JobId : Retried(jobs[j], w) \in Row
      BY RetriedRow
    <3>2. CASE Exhausted(w)
      BY <2>6, <3>2 DEF SaveFailure, Return, Row, Statuses
    <3>3. CASE ~Exhausted(w)
      BY <2>6, <3>1, <3>3 DEF SaveFailure, Return
    <3> QED
      BY <3>2, <3>3
  <2> QED
    BY <1>4, <2>1, <2>2, <2>3, <2>4, <2>5, <2>6 DEF Iteration
<1>5. ASSUME NEW w \in Worker, Failure(w) PROVE TypeOK'
  <2>1. CASE ReserveError(w)
    <3>1. lock' \in [JobId -> Worker \cup {NoOne}]
      BY <2>1 DEF ReserveError
    <3>2. faults' \in Nat
      BY <2>1 DEF ReserveError, Fault
    <3> QED
      BY <2>1, <3>1, <3>2 DEF ReserveError, Return
  <2>2. CASE SaveCompletedError(w)
    BY <2>2 DEF SaveCompletedError, Fault, table, Holding
  <2>3. CASE SaveFailureError(w)
    BY <2>3 DEF SaveFailureError, Return, Fault, table
  <2>4. CASE Crash(w)
    <3>1. lock' \in [JobId -> Worker \cup {NoOne}]
      BY <2>4 DEF Crash, Leave
    <3>2. faults' \in Nat
      BY <2>4 DEF Crash, Fault
    <3> QED
      BY <2>4, <3>1, <3>2 DEF Crash, Leave
  <2> QED
    BY <1>5, <2>1, <2>2, <2>3, <2>4 DEF Failure
<1>6. ASSUME NEW w \in Worker, Start(w) \/ Stop(w) \/ Exit(w) PROVE TypeOK'
  <2>1. CASE Start(w)
    BY <2>1 DEF Start, table
  <2>2. CASE Stop(w)
    BY <2>2 DEF Stop, table
  <2>3. CASE Exit(w)
    <3>1. lock' \in [JobId -> Worker \cup {NoOne}]
      BY <2>3 DEF Exit, Leave
    <3> QED
      BY <2>3, <3>1 DEF Exit, Leave
  <2> QED
    BY <1>6, <2>1, <2>2, <2>3
<1>7. CASE UNCHANGED vars
  BY <1>7 DEF vars
<1> QED
  BY <1>1, <1>2, <1>3, <1>4, <1>5, <1>6, <1>7 DEF Next

\* The jobs table only ever holds statuses of its ENUM and the instances in
\* memory keep their types, whatever fails.
THEOREM TypeCorrect == Spec => []TypeOK
  BY InitTypeOK, NextTypeOK, PTL DEF Spec

-----------------------------------------------------------------------------
(* The inductive invariant.  Each lemma treats the steps of one kind *)

Kept == InstancesExist' /\ LockProtocol' /\ OneRunner' /\ AttemptsBounded'

USE DEF Holding, Executing

\* Steps that leave the rows, the locks and the instances alone.
LEMMA QuietKeeps ==
  ASSUME IInv, UNCHANGED <<jobs, lock, pc, held, tries>>
  PROVE  Kept
  BY DEF IInv, Kept, InstancesExist, LockProtocol, OneRunner, AttemptsBounded, Runs

\* A new row is neither locked nor running.
LEMMA DispatchKeeps ==
  ASSUME IInv, NEW j \in JobId, NEW name \in Names, NEW delay \in Delays,
         Dispatch(j, name, delay)
  PROVE  Kept
<1> DEFINE row == [status |-> "pending", name |-> name, attempts |-> 0,
                   availableAt |-> now + delay]
<1>1. /\ jobs' = [jobs EXCEPT ![j] = row]
      /\ jobs[j].status = "none"
      /\ UNCHANGED <<lock, pc, held, tries>>
  BY DEF Dispatch, process
<1>2. row.status = "pending" /\ row.attempts = 0
  OBVIOUS
<1>3. /\ jobs'[j] = row
      /\ \A k \in JobId \ {j} : jobs'[k] = jobs[k]
  BY <1>1 DEF IInv, TypeOK
<1> HIDE DEF row
<1>4. InstancesExist'
  BY <1>1 DEF IInv, InstancesExist
<1>5. LockProtocol'
  BY <1>1, <1>3 DEF IInv, InstancesExist, LockProtocol
<1>6. OneRunner'
  BY <1>1, <1>3 DEF IInv, InstancesExist, OneRunner, Runs
<1>7. AttemptsBounded'
  BY <1>2, <1>3, QueueAssumption DEF IInv, AttemptsBounded
<1> QED
  BY <1>4, <1>5, <1>6, <1>7 DEF Kept

\* The selected row was not locked by anyone.
LEMMA FindAndLockKeeps ==
  ASSUME IInv, NEW w \in Worker, NEW j \in JobId, FindAndLock(w, j)
  PROVE  Kept
<1>1. /\ lock' = [lock EXCEPT ![j] = w]
      /\ held' = [held EXCEPT ![w] = j]
      /\ tries' = [tries EXCEPT ![w] = jobs[j].attempts]
      /\ pc' = [pc EXCEPT ![w] = "locked"]
      /\ pc[w] = "idle"
      /\ lock[j] = NoOne
      /\ jobs[j].status = "pending"
      /\ UNCHANGED jobs
  BY DEF FindAndLock, Oldest, Due, Lockable
<1>2. /\ pc'[w] = "locked" /\ held'[w] = j /\ tries'[w] = jobs[j].attempts
      /\ \A v \in Worker \ {w} : /\ pc'[v] = pc[v]
                                 /\ held'[v] = held[v]
                                 /\ tries'[v] = tries[v]
      /\ lock'[j] = w
      /\ \A k \in JobId \ {j} : lock'[k] = lock[k]
  BY <1>1 DEF IInv, TypeOK
<1>3. InstancesExist'
  BY <1>2 DEF IInv, InstancesExist
<1>4. LockProtocol'
  BY <1>1, <1>2, QueueAssumption DEF IInv, LockProtocol
<1>5. OneRunner'
  BY <1>1, <1>2 DEF IInv, OneRunner, Runs
<1>6. AttemptsBounded'
  BY <1>1 DEF IInv, AttemptsBounded
<1> QED
  BY <1>3, <1>4, <1>5, <1>6 DEF Kept

\* The holder of the lock reserves the row: it was pending, so nobody runs it.
LEMMA ReserveKeeps ==
  ASSUME IInv, NEW w \in Worker, Reserve(w)
  PROVE  Kept
<1> DEFINE j == held[w]
<1>1. /\ pc[w] = "locked"
      /\ jobs' = [jobs EXCEPT ![j] = Reserved(jobs[j], w)]
      /\ tries' = [tries EXCEPT ![w] = tries[w] + 1]
      /\ lock' = [lock EXCEPT ![j] = NoOne]
      /\ pc' = [pc EXCEPT ![w] = "running"]
      /\ UNCHANGED held
  BY DEF Reserve
<1>2. /\ j \in JobId
      /\ jobs[j].status = "pending" /\ jobs[j].attempts = tries[w]
      /\ lock[j] = w
  BY <1>1 DEF IInv, InstancesExist, LockProtocol
<1>3. /\ jobs'[j].status = "processing" /\ jobs'[j].attempts = tries[w] + 1
      /\ \A k \in JobId \ {j} : jobs'[k] = jobs[k]
  BY <1>1, <1>2, ReservedRow DEF IInv, TypeOK
<1>4. /\ pc'[w] = "running" /\ tries'[w] = tries[w] + 1
      /\ \A v \in Worker \ {w} : pc'[v] = pc[v] /\ tries'[v] = tries[v]
      /\ lock'[j] = NoOne
      /\ \A k \in JobId \ {j} : lock'[k] = lock[k]
  BY <1>1, <1>2 DEF IInv, TypeOK
<1>5. \A v \in Worker \ {w} : pc[v] \in Holding => held[v] # j
  BY <1>2 DEF IInv, LockProtocol, OneRunner
<1> HIDE DEF j
<1>6. InstancesExist'
  BY <1>1, <1>4 DEF IInv, InstancesExist
<1>7. LockProtocol'
  BY <1>1, <1>2, <1>3, <1>4, <1>5, QueueAssumption DEF IInv, LockProtocol, InstancesExist
<1>8. OneRunner'
  BY <1>1, <1>3, <1>4, <1>5 DEF IInv, InstancesExist, OneRunner, Runs, j
<1>9. AttemptsBounded'
  <2>1. jobs[j].attempts < MaxAttempts
    BY <1>2 DEF IInv, AttemptsBounded
  <2>2. jobs'[j].attempts <= MaxAttempts
    BY <1>2, <1>3, <2>1, QueueAssumption DEF IInv, TypeOK
  <2> QED
    BY <1>3, <2>2 DEF IInv, AttemptsBounded
<1> QED
  BY <1>6, <1>7, <1>8, <1>9 DEF Kept

\* A running process moves on within its iteration.
LEMMA HandlerKeeps ==
  ASSUME IInv, NEW w \in Worker,
         HandlerReturns(w) \/ HandlerThrows(w) \/ SaveCompletedError(w)
  PROVE  Kept
<1>1. /\ pc[w] \in Executing
      /\ \E x \in Executing : pc' = [pc EXCEPT ![w] = x]
      /\ UNCHANGED <<jobs, lock, held, tries>>
  BY DEF HandlerReturns, HandlerThrows, SaveCompletedError, table
<1>2. /\ pc'[w] \in Executing
      /\ \A v \in Worker \ {w} : pc'[v] = pc[v]
  BY <1>1 DEF IInv, TypeOK
<1> QED
  BY <1>1, <1>2
  DEF IInv, Kept, InstancesExist, LockProtocol, OneRunner, AttemptsBounded, Runs

\* The outcome r of a run is written to the row, and the instance is dropped.
LEMMA OutcomeKeeps ==
  ASSUME IInv, NEW w \in Worker, pc[w] \in Executing,
         NEW r \in Row,
         jobs' = [jobs EXCEPT ![held[w]] = r], Return(w), UNCHANGED lock,
         r.attempts = tries[w],
         r.status = "pending" => tries[w] < MaxAttempts,
         r.status = "failed" => tries[w] = MaxAttempts \/ r.name \notin Registered
  PROVE  Kept
<1> DEFINE j == held[w]
<1>1. /\ j \in JobId
      /\ jobs[j].status = "processing" /\ jobs[j].attempts = tries[w]
  BY DEF IInv, InstancesExist, OneRunner
<1>2. \A v \in Worker \ {w} : pc[v] \in Holding => held[v] # j
  BY <1>1 DEF IInv, LockProtocol, OneRunner, Runs
<1>3. /\ jobs'[j] = r
      /\ \A k \in JobId \ {j} : jobs'[k] = jobs[k]
  BY <1>1 DEF IInv, TypeOK
<1>4. /\ pc'[w] = "idle"
      /\ \A v \in Worker \ {w} : /\ pc'[v] = pc[v]
                                 /\ held'[v] = held[v]
                                 /\ tries'[v] = tries[v]
  BY DEF Return, IInv, TypeOK
<1>5. \A k \in JobId : lock[k] # w
  BY DEF IInv, LockProtocol
<1> HIDE DEF j
<1>6. InstancesExist'
  BY <1>4 DEF IInv, InstancesExist
<1>7. LockProtocol'
  BY <1>2, <1>3, <1>4, <1>5 DEF IInv, InstancesExist, LockProtocol
<1>8. OneRunner'
  BY <1>2, <1>3, <1>4 DEF IInv, InstancesExist, OneRunner, Runs
<1>9. AttemptsBounded'
  BY <1>1, <1>3 DEF IInv, AttemptsBounded
<1> QED
  BY <1>6, <1>7, <1>8, <1>9 DEF Kept

\* A process forgets its instance, and the locks it held are released.
LEMMA LetGoKeeps ==
  ASSUME IInv, NEW w \in Worker,
         NEW x \in {"idle", "down"}, pc' = [pc EXCEPT ![w] = x],
         held' = [held EXCEPT ![w] = NoJob], tries' = [tries EXCEPT ![w] = 0],
         \A k \in JobId : lock'[k] = IF lock[k] = w THEN NoOne ELSE lock[k],
         UNCHANGED jobs
  PROVE  Kept
<1>1. /\ pc'[w] \notin Holding
      /\ \A v \in Worker \ {w} : /\ pc'[v] = pc[v]
                                 /\ held'[v] = held[v]
                                 /\ tries'[v] = tries[v]
  BY DEF IInv, TypeOK
<1>2. InstancesExist'
  BY <1>1 DEF IInv, InstancesExist
<1>3. LockProtocol'
  BY <1>1, QueueAssumption DEF IInv, InstancesExist, LockProtocol
<1>4. OneRunner'
  BY <1>1 DEF IInv, InstancesExist, OneRunner, Runs
<1>5. AttemptsBounded'
  BY DEF IInv, AttemptsBounded
<1> QED
  BY <1>2, <1>3, <1>4, <1>5 DEF Kept

-----------------------------------------------------------------------------
(* The invariant holds in every reachable state *)

\* The first state satisfies the invariant.
LEMMA InitIInv == Init => IInv
<1> SUFFICES ASSUME Init PROVE IInv
  OBVIOUS
<1>1. TypeOK
  BY InitTypeOK
<1>2. \A w \in Worker : pc[w] = "down"
  BY DEF Init
<1>3. \A j \in JobId : jobs[j].status = "none" /\ jobs[j].attempts = 0 /\ lock[j] = NoOne
  BY DEF Init, NoRow
<1> QED
  BY <1>1, <1>2, <1>3, QueueAssumption
  DEF IInv, InstancesExist, LockProtocol, OneRunner, AttemptsBounded

\* The three ways to write an outcome meet the conditions of OutcomeKeeps.
LEMMA WriteKeeps ==
  ASSUME IInv, NEW w \in Worker,
         NoHandler(w) \/ SaveCompleted(w) \/ SaveFailure(w)
  PROVE  Kept
<1> DEFINE j == held[w]
<1>1. /\ pc[w] \in Executing /\ Return(w) /\ UNCHANGED lock
  BY DEF NoHandler, SaveCompleted, SaveFailure
<1>2. /\ j \in JobId /\ jobs[j] \in Row
      /\ jobs[j].attempts = tries[w]
      /\ tries[w] \in Nat /\ tries[w] <= MaxAttempts
  BY <1>1 DEF IInv, TypeOK, InstancesExist, OneRunner, AttemptsBounded
<1> DEFINE failed == [jobs[j] EXCEPT !.status = "failed"]
           completed == [jobs[j] EXCEPT !.status = "completed"]
<1>3. /\ failed \in Row /\ failed.status = "failed"
      /\ failed.attempts = tries[w] /\ failed.name = jobs[j].name
  BY <1>2 DEF Row, Statuses
<1>4. /\ completed \in Row /\ completed.status = "completed"
      /\ completed.attempts = tries[w]
  BY <1>2 DEF Row, Statuses
<1>5. CASE NoHandler(w)
  <2>1. jobs' = [jobs EXCEPT ![j] = failed]
    BY <1>5 DEF NoHandler
  <2>2. failed.name \notin Registered
    BY <1>3, <1>5 DEF NoHandler, HasHandler
  <2> HIDE DEF failed
  <2> QED
    BY <1>1, <1>3, <2>1, <2>2, OutcomeKeeps
<1>6. CASE SaveCompleted(w)
  <2>1. jobs' = [jobs EXCEPT ![j] = completed]
    BY <1>6 DEF SaveCompleted
  <2> HIDE DEF completed
  <2> QED
    BY <1>1, <1>4, <2>1, OutcomeKeeps
<1>7. CASE SaveFailure(w) /\ Exhausted(w)
  <2>1. jobs' = [jobs EXCEPT ![j] = failed]
    BY <1>7 DEF SaveFailure
  <2>2. tries[w] = MaxAttempts
    BY <1>2, <1>7, QueueAssumption DEF Exhausted
  <2> HIDE DEF failed
  <2> QED
    BY <1>1, <1>3, <2>1, <2>2, OutcomeKeeps
<1>8. CASE SaveFailure(w) /\ ~Exhausted(w)
  <2> DEFINE r == Retried(jobs[j], w)
  <2>1. jobs' = [jobs EXCEPT ![j] = r]
    BY <1>8 DEF SaveFailure
  <2>2. r \in Row /\ r.status = "pending" /\ r.attempts = tries[w]
    BY <1>2, RetriedRow DEF IInv
  <2>3. tries[w] < MaxAttempts
    BY <1>2, <1>8, QueueAssumption DEF Exhausted
  <2> HIDE DEF r
  <2> QED
    BY <1>1, <2>1, <2>2, <2>3, OutcomeKeeps
<1> QED
  BY <1>5, <1>6, <1>7, <1>8

\* Every step keeps each part of the invariant.
LEMMA NextKept == ASSUME IInv, [Next]_vars PROVE Kept
<1>1. CASE Tick \/ UNCHANGED vars
  BY <1>1, QuietKeeps DEF Tick, table, process, vars
<1>2. ASSUME NEW j \in JobId, NEW name \in Names, NEW delay \in Delays,
             Dispatch(j, name, delay)
      PROVE  Kept
  BY <1>2, DispatchKeeps
<1>3. ASSUME NEW w \in Worker, FindNothing(w) \/ Stop(w) PROVE Kept
  BY <1>3, QuietKeeps DEF FindNothing, vars, Stop, table
<1>4. ASSUME NEW w \in Worker, Iteration(w) PROVE Kept
  BY <1>4, FindAndLockKeeps, ReserveKeeps, HandlerKeeps, WriteKeeps DEF Iteration
<1>5. ASSUME NEW w \in Worker, SaveCompletedError(w) PROVE Kept
  BY <1>5, HandlerKeeps
<1>6. ASSUME NEW w \in Worker, ReserveError(w) PROVE Kept
  <2>1. \A k \in JobId : lock[k] = w <=> k = held[w]
    BY <1>6 DEF ReserveError, IInv, LockProtocol
  <2>2. \A k \in JobId : lock'[k] = IF lock[k] = w THEN NoOne ELSE lock[k]
    BY <1>6, <2>1 DEF ReserveError, IInv, TypeOK
  <2> QED
    BY <1>6, <2>2, LetGoKeeps DEF ReserveError, Return
<1>7. ASSUME NEW w \in Worker, SaveFailureError(w) PROVE Kept
  <2>1. \A k \in JobId : lock[k] # w
    BY <1>7 DEF SaveFailureError, IInv, LockProtocol
  <2> QED
    BY <1>7, <2>1, LetGoKeeps DEF SaveFailureError, Return, table
<1>8. ASSUME NEW w \in Worker, Crash(w) \/ Exit(w) PROVE Kept
  BY <1>8, LetGoKeeps DEF Crash, Exit, Leave
<1>9. ASSUME NEW w \in Worker, Start(w) PROVE Kept
  <2>1. /\ pc[w] = "down" /\ pc'[w] = "idle"
        /\ \A v \in Worker \ {w} : pc'[v] = pc[v]
        /\ UNCHANGED <<jobs, lock, held, tries>>
    BY <1>9 DEF Start, table, IInv, TypeOK
  <2> QED
    BY <2>1
    DEF IInv, Kept, InstancesExist, LockProtocol, OneRunner, AttemptsBounded, Runs
<1> QED
  BY <1>1, <1>2, <1>3, <1>4, <1>5, <1>6, <1>7, <1>8, <1>9 DEF Next, Failure

\* Every step keeps the whole invariant, the types included.
LEMMA NextIInv == IInv /\ [Next]_vars => IInv'
  BY NextTypeOK, NextKept DEF IInv, Kept

\* The invariant holds in every state.
LEMMA InvariantHolds == Spec => []IInv
  BY InitIInv, NextIInv, PTL DEF Spec

\* No two processes execute the same job, for any number of processes, jobs,
\* crashes and failed calls (the reservation of worker.js).
THEOREM NeverTwoRunners == Spec => []OneRunner
<1>1. IInv => OneRunner
  BY DEF IInv
<1> QED
  BY <1>1, InvariantHolds, PTL

\* A row lock is held exactly by the process that is about to reserve the row.
THEOREM LocksAreKept == Spec => []LockProtocol
<1>1. IInv => LockProtocol
  BY DEF IInv
<1> QED
  BY <1>1, InvariantHolds, PTL

\* No job is started more than max_attempts times, crashes included, and the
\* worker gives up only on jobs that are exhausted or that nothing handles.
THEOREM AttemptsAreBounded == Spec => []AttemptsBounded
<1>1. IInv => AttemptsBounded
  BY DEF IInv
<1> QED
  BY <1>1, InvariantHolds, PTL

-----------------------------------------------------------------------------
(* Final rows *)

\* The only steps that change a row insert it, or belong to the process that
\* holds its lock or executes it; none of them meets a final row.
LEMMA StepKeepsFinal ==
  ASSUME IInv, [Next]_vars, NEW j \in JobId, jobs[j].status \in Final
  PROVE  jobs'[j] = jobs[j]
<1>1. ASSUME NEW k \in JobId, NEW name \in Names, NEW delay \in Delays,
             Dispatch(k, name, delay)
      PROVE  jobs'[j] = jobs[j]
  BY <1>1 DEF Dispatch, Final, IInv, TypeOK
<1>2. ASSUME NEW w \in Worker,
             Reserve(w) \/ NoHandler(w) \/ SaveCompleted(w) \/ SaveFailure(w)
      PROVE  jobs'[j] = jobs[j]
  <2>1. held[w] # j
    BY <1>2 DEF Reserve, NoHandler, SaveCompleted, SaveFailure, Final,
                IInv, LockProtocol, OneRunner
  <2>2. \E r : jobs' = [jobs EXCEPT ![held[w]] = r]
    BY <1>2 DEF Reserve, NoHandler, SaveCompleted, SaveFailure
  <2> QED
    BY <2>1, <2>2 DEF IInv, TypeOK
<1>3. ASSUME UNCHANGED jobs PROVE jobs'[j] = jobs[j]
  BY <1>3
<1> QED
  BY <1>1, <1>2, <1>3
  DEF Next, Iteration, Failure, Tick, FindNothing, FindAndLock, HandlerReturns,
      HandlerThrows, ReserveError, SaveCompletedError, SaveFailureError, Crash,
      Leave, Start, Stop, Exit, table, vars

\* A completed or failed job is never touched again.
THEOREM FinalStaysFinal == Spec => FinalIsFinal
<1>1. IInv /\ [Next]_vars
        => [\A j \in JobId : jobs[j].status \in Final => jobs'[j] = jobs[j]]_jobs
  BY StepKeepsFinal
<1> QED
  BY <1>1, InvariantHolds, PTL DEF Spec, FinalIsFinal

-----------------------------------------------------------------------------
(* The worker implements the life cycle of JobLifecycle *)

\* No attempt is counted before the insert.
FreshRows == \A j \in JobId : jobs[j].status = "none" => jobs[j].attempts = 0

\* A running process has the row it runs.
LEMMA RunningRow ==
  ASSUME IInv, NEW w \in Worker, pc[w] \in Executing
  PROVE  \E j \in JobId : /\ held[w] = j /\ Runs(w, j) /\ jobs[j] \in Row
                          /\ jobs[j].status = "processing"
                          /\ jobs[j].attempts = tries[w]
  BY DEF IInv, TypeOK, InstancesExist, OneRunner, Runs

\* No step turns a row back into a free id.
LEMMA StepKeepsFresh ==
  ASSUME IInv, FreshRows, [Next]_vars
  PROVE  FreshRows'
<1> SUFFICES ASSUME NEW j \in JobId, jobs'[j].status = "none"
             PROVE  jobs'[j] = jobs[j]
  BY DEF FreshRows
<1>1. ASSUME NEW k \in JobId, NEW name \in Names, NEW delay \in Delays,
             Dispatch(k, name, delay)
      PROVE  jobs'[j] = jobs[j]
  BY <1>1 DEF Dispatch, IInv, TypeOK
<1>2. ASSUME NEW w \in Worker,
             Reserve(w) \/ NoHandler(w) \/ SaveCompleted(w) \/ SaveFailure(w)
      PROVE  jobs'[j] = jobs[j]
  <2>1. PICK r : jobs' = [jobs EXCEPT ![held[w]] = r] /\ r.status # "none"
    <3>1. Retried(jobs[held[w]], w).status # "none" \/ ~SaveFailure(w)
      BY RetriedRow, RunningRow DEF SaveFailure, IInv
    <3>2. Reserved(jobs[held[w]], w).status # "none" \/ ~Reserve(w)
      BY ReservedRow DEF Reserve, IInv, InstancesExist, TypeOK
    <3>3. \A x \in Final : held[w] \in JobId => [jobs[held[w]] EXCEPT !.status = x].status # "none"
      BY DEF IInv, TypeOK, Row, Final
    <3>4. held[w] \in JobId
      BY <1>2 DEF Reserve, NoHandler, SaveCompleted, SaveFailure, IInv, InstancesExist
    <3> QED
      BY <1>2, <3>1, <3>2, <3>3, <3>4
      DEF Reserve, NoHandler, SaveCompleted, SaveFailure, Final
  <2> QED
    BY <2>1 DEF IInv, TypeOK
<1>3. ASSUME UNCHANGED jobs PROVE jobs'[j] = jobs[j]
  BY <1>3
<1> QED
  BY <1>1, <1>2, <1>3
  DEF Next, Iteration, Failure, Tick, FindNothing, FindAndLock, HandlerReturns,
      HandlerThrows, ReserveError, SaveCompletedError, SaveFailureError, Crash,
      Leave, Start, Stop, Exit, table, vars

\* With one runner per job, the CHOOSE in Runner is determined.
LEMMA RunnerDetermined ==
  ASSUME OneRunner, NEW j \in JobId
  PROVE  /\ \A w \in Worker : Runs(w, j) => Runner(j) = w
         /\ (\A w \in Worker : ~Runs(w, j)) => Runner(j) = NoOne
         /\ Runner(j) \in Worker => Runs(Runner(j), j)
<1>1. \A v, w \in Worker : Runs(v, j) /\ Runs(w, j) => v = w
  BY DEF OneRunner, Runs
<1>2. CASE \E w \in Worker : Runs(w, j)
  <2>1. Runner(j) = CHOOSE w \in Worker : Runs(w, j)
    BY <1>2 DEF Runner
  <2>2. Runner(j) \in Worker /\ Runs(Runner(j), j)
    BY <1>2, <2>1
  <2> QED
    BY <1>1, <1>2, <2>2
<1>3. CASE \A w \in Worker : ~Runs(w, j)
  BY <1>3, QueueAssumption DEF Runner
<1> QED
  BY <1>2, <1>3

\* The same fact about the next state.
LEMMA RunnerDeterminedNext ==
  ASSUME OneRunner', NEW j \in JobId
  PROVE  /\ \A w \in Worker : Runs(w, j)' => Runner(j)' = w
         /\ (\A w \in Worker : ~Runs(w, j)') => Runner(j)' = NoOne
<1>1. \A v, w \in Worker : Runs(v, j)' /\ Runs(w, j)' => v = w
  BY DEF OneRunner, Runs
<1>2. CASE \E w \in Worker : Runs(w, j)'
  <2>1. Runner(j)' = CHOOSE w \in Worker : Runs(w, j)'
    BY <1>2 DEF Runner
  <2>2. Runner(j)' \in Worker /\ \A w \in Worker : w = Runner(j)' => Runs(w, j)'
    BY <1>2, <2>1
  <2> QED
    BY <1>1, <1>2, <2>2
<1>3. CASE \A w \in Worker : ~Runs(w, j)'
  BY <1>3 DEF Runner
<1> QED
  BY <1>2, <1>3

\* A step that neither changes a status nor starts or ends a run is a stutter.
LEMMA QuietStutters ==
  ASSUME IInv, IInv',
         \A j \in JobId : /\ jobs'[j].status = jobs[j].status
                         /\ jobs'[j].attempts = jobs[j].attempts,
         \A w \in Worker, j \in JobId : Runs(w, j)' <=> Runs(w, j)
  PROVE  UNCHANGED Lifecycle!lifecycleVars
<1>1. \A j \in JobId : Runner(j)' = Runner(j)
  <2> TAKE j \in JobId
  <2>1. CASE \E w \in Worker : Runs(w, j)
    <3>1. PICK w \in Worker : Runs(w, j)
      BY <2>1
    <3>2. Runs(w, j)'
      BY <3>1
    <3> QED
      BY <3>1, <3>2, RunnerDetermined, RunnerDeterminedNext DEF IInv
  <2>2. CASE \A w \in Worker : ~Runs(w, j)
    BY <2>2, RunnerDetermined, RunnerDeterminedNext DEF IInv
  <2> QED
    BY <2>1, <2>2
<1> QED
  BY <1>1 DEF Lifecycle!lifecycleVars

\* The end of a run, with the status x left in the row, is an End of the job.
LEMMA RunEnds ==
  ASSUME IInv, IInv', NEW w \in Worker, NEW j \in JobId, Runs(w, j),
         \A k \in JobId : ~Runs(w, k)',
         \A v \in Worker \ {w}, k \in JobId : Runs(v, k)' <=> Runs(v, k),
         NEW x, jobs'[j].status = x,
         jobs'[j].attempts = jobs[j].attempts,
         \A k \in JobId \ {j} : jobs'[k] = jobs[k]
  PROVE  Lifecycle!End(w, j, x)
<1>1. jobs[j].status = "processing" /\ Runner(j) = w
  BY RunnerDetermined DEF IInv, OneRunner, Runs
<1>2. Runner(j)' = NoOne
  <2>1. \A v \in Worker : ~Runs(v, j)'
    BY DEF IInv, OneRunner, Runs
  <2> QED
    BY <2>1, RunnerDeterminedNext DEF IInv
<1>3. \A k \in JobId \ {j} : Runner(k)' = Runner(k)
  <2> TAKE k \in JobId \ {j}
  <2>1. ~Runs(w, k)
    BY DEF Runs
  <2>2. CASE \E v \in Worker : Runs(v, k)
    <3>1. PICK v \in Worker : Runs(v, k)
      BY <2>2
    <3>2. Runs(v, k)'
      BY <2>1, <3>1
    <3> QED
      BY <3>1, <3>2, RunnerDetermined, RunnerDeterminedNext DEF IInv
  <2>3. CASE \A v \in Worker : ~Runs(v, k)
    <3>1. \A v \in Worker : ~Runs(v, k)'
      BY <2>3
    <3> QED
      BY <2>3, <3>1, RunnerDetermined, RunnerDeterminedNext DEF IInv
  <2> QED
    BY <2>2, <2>3
<1>4. [k \in JobId |-> jobs[k].status]'
        = [[k \in JobId |-> jobs[k].status] EXCEPT ![j] = x]
  OBVIOUS
<1>5. [k \in JobId |-> jobs[k].attempts]' = [k \in JobId |-> jobs[k].attempts]
  OBVIOUS
<1>6. [k \in JobId |-> Runner(k)]' = [[k \in JobId |-> Runner(k)] EXCEPT ![j] = NoOne]
  BY <1>2, <1>3
<1> QED
  BY <1>1, <1>4, <1>5, <1>6 DEF Lifecycle!End

\* The commit of the reservation is the Begin of the job.
LEMMA ReserveBegins ==
  ASSUME IInv, IInv', NEW w \in Worker, NEW j \in JobId,
         Reserve(w), held[w] = j
  PROVE  Lifecycle!Begin(w, j)
<1>1. /\ pc[w] = "locked"
      /\ jobs[j].status = "pending" /\ jobs[j].attempts = tries[w]
      /\ jobs[j].attempts < MaxAttempts
  BY DEF Reserve, IInv, InstancesExist, LockProtocol, AttemptsBounded
<1>2. /\ jobs'[j].status = "processing" /\ jobs'[j].attempts = jobs[j].attempts + 1
      /\ \A k \in JobId \ {j} : jobs'[k] = jobs[k]
  BY <1>1, ReservedRow DEF Reserve, IInv, TypeOK
<1>3. /\ Runs(w, j)'
      /\ \A v \in Worker \ {w}, k \in JobId : Runs(v, k)' <=> Runs(v, k)
      /\ \A k \in JobId : ~Runs(w, k)
      /\ \A k \in JobId \ {j} : ~Runs(w, k)'
  BY <1>1 DEF Reserve, Runs, IInv, TypeOK
<1>4. Runner(j)' = w
  BY <1>1, <1>3, RunnerDeterminedNext DEF IInv
<1>5. \A k \in JobId \ {j} : Runner(k)' = Runner(k)
  <2> TAKE k \in JobId \ {j}
  <2>1. \A v \in Worker : Runs(v, k)' <=> Runs(v, k)
    BY <1>3
  <2>2. CASE \E v \in Worker : Runs(v, k)
    BY <2>1, <2>2, RunnerDetermined, RunnerDeterminedNext DEF IInv
  <2>3. CASE \A v \in Worker : ~Runs(v, k)
    BY <2>1, <2>3, RunnerDetermined, RunnerDeterminedNext DEF IInv
  <2> QED
    BY <2>2, <2>3
<1>6. \A k \in JobId : Runner(k) # w
  BY <1>3, RunnerDetermined DEF IInv
<1>7. [k \in JobId |-> jobs[k].status]'
        = [[k \in JobId |-> jobs[k].status] EXCEPT ![j] = "processing"]
  BY <1>2
<1>8. [k \in JobId |-> jobs[k].attempts]'
        = [[k \in JobId |-> jobs[k].attempts] EXCEPT ![j] = @ + 1]
  BY <1>1, <1>2
<1>9. [k \in JobId |-> Runner(k)]' = [[k \in JobId |-> Runner(k)] EXCEPT ![j] = w]
  BY <1>4, <1>5
<1> QED
  BY <1>1, <1>6, <1>7, <1>8, <1>9 DEF Lifecycle!Begin

\* A process that returned, or ended, runs nothing; the others run what they ran.
LEMMA NoLongerRuns ==
  ASSUME IInv, NEW w \in Worker, Return(w) \/ Leave(w)
  PROVE  /\ \A k \in JobId : ~Runs(w, k)'
         /\ \A v \in Worker \ {w}, k \in JobId : Runs(v, k)' <=> Runs(v, k)
  BY DEF IInv, TypeOK, Return, Leave, Runs

\* Writing an outcome, or losing the process, ends the run; every other step
\* inserts a job, begins one, or is a stutter.
LEMMA StepImplements ==
  ASSUME IInv, IInv', FreshRows, [Next]_vars
  PROVE  [Lifecycle!LNext]_(Lifecycle!lifecycleVars)
<1> DEFINE Goal == [Lifecycle!LNext]_(Lifecycle!lifecycleVars)
<1> SUFFICES Goal
  OBVIOUS
<1>1. ASSUME NEW w \in Worker, NEW j \in JobId, NEW x \in Final, Lifecycle!End(w, j, x)
      PROVE  Goal
  BY <1>1 DEF Final, Lifecycle!LNext, Lifecycle!Complete, Lifecycle!Fail
<1>2. ASSUME NEW w \in Worker, NEW j \in JobId, Lifecycle!End(w, j, "processing")
      PROVE  Goal
  BY <1>2 DEF Lifecycle!LNext, Lifecycle!Abandon
<1>3. ASSUME NEW w \in Worker, NEW j \in JobId, Lifecycle!End(w, j, "pending"),
             jobs[j].attempts < MaxAttempts
      PROVE  Goal
  BY <1>3 DEF Lifecycle!LNext, Lifecycle!PutBack
<1>4. ASSUME NEW j \in JobId, NEW name \in Names, NEW delay \in Delays,
             Dispatch(j, name, delay)
      PROVE  Goal
  <2>1. /\ jobs[j].status = "none"
        /\ jobs'[j].status = "pending" /\ jobs'[j].attempts = 0
        /\ \A k \in JobId \ {j} : jobs'[k] = jobs[k]
        /\ \A w \in Worker, k \in JobId : Runs(w, k)' <=> Runs(w, k)
    BY <1>4 DEF Dispatch, process, IInv, TypeOK, Runs
  <2>2. jobs[j].attempts = 0
    BY <2>1 DEF FreshRows
  <2>3. \A k \in JobId : Runner(k)' = Runner(k)
    <3> TAKE k \in JobId
    <3>1. \A w \in Worker : Runs(w, k)' <=> Runs(w, k)
      BY <2>1
    <3>2. CASE \E w \in Worker : Runs(w, k)
      BY <3>1, <3>2, RunnerDetermined, RunnerDeterminedNext DEF IInv
    <3>3. CASE \A w \in Worker : ~Runs(w, k)
      BY <3>1, <3>3, RunnerDetermined, RunnerDeterminedNext DEF IInv
    <3> QED
      BY <3>2, <3>3
  <2>4. [k \in JobId |-> jobs[k].status]'
          = [[k \in JobId |-> jobs[k].status] EXCEPT ![j] = "pending"]
    BY <2>1
  <2>5. /\ [k \in JobId |-> jobs[k].attempts]' = [k \in JobId |-> jobs[k].attempts]
        /\ [k \in JobId |-> Runner(k)]' = [k \in JobId |-> Runner(k)]
    BY <2>1, <2>2, <2>3
  <2>6. Lifecycle!Submit(j)
    BY <2>1, <2>4, <2>5 DEF Lifecycle!Submit
  <2> QED
    BY <2>6 DEF Lifecycle!LNext
<1>5. ASSUME NEW w \in Worker, Reserve(w) PROVE Goal
  <2>1. PICK j \in JobId : held[w] = j
    BY <1>5 DEF Reserve, IInv, InstancesExist
  <2>2. Lifecycle!Begin(w, j)
    BY <1>5, <2>1, ReserveBegins
  <2> QED
    BY <2>2 DEF Lifecycle!LNext
<1>6. ASSUME NEW w \in Worker, NoHandler(w) \/ SaveCompleted(w) \/ SaveFailure(w)
      PROVE  Goal
  <2>1. pc[w] \in Executing /\ Return(w)
    BY <1>6 DEF NoHandler, SaveCompleted, SaveFailure
  <2>2. PICK j \in JobId : /\ held[w] = j /\ Runs(w, j) /\ jobs[j] \in Row
                           /\ jobs[j].status = "processing"
                           /\ jobs[j].attempts = tries[w]
    BY <2>1, RunningRow
  <2>3. ASSUME NEW x,
               jobs'[j].status = x,
               jobs'[j].attempts = jobs[j].attempts,
               \A k \in JobId \ {j} : jobs'[k] = jobs[k]
        PROVE  Lifecycle!End(w, j, x)
    BY <2>1, <2>2, <2>3, NoLongerRuns, RunEnds
  <2>4. ASSUME NEW x \in Final, jobs' = [jobs EXCEPT ![j].status = x]
        PROVE  Goal
    <3>1. /\ jobs'[j].status = x
          /\ jobs'[j].attempts = jobs[j].attempts
          /\ \A k \in JobId \ {j} : jobs'[k] = jobs[k]
      BY <2>2, <2>4 DEF IInv, TypeOK, Row
    <3> QED
      BY <1>1, <2>3, <3>1
  <2>5. CASE NoHandler(w) \/ SaveCompleted(w) \/ (SaveFailure(w) /\ Exhausted(w))
    <3>1. \E x \in Final : jobs' = [jobs EXCEPT ![j].status = x]
      BY <2>2, <2>5 DEF NoHandler, SaveCompleted, SaveFailure, Final
    <3> QED
      BY <2>4, <3>1
  <2>6. CASE SaveFailure(w) /\ ~Exhausted(w)
    <3>1. jobs' = [jobs EXCEPT ![j] = Retried(jobs[j], w)]
      BY <2>2, <2>6 DEF SaveFailure
    <3>2. /\ jobs'[j].status = "pending"
          /\ jobs'[j].attempts = jobs[j].attempts
          /\ \A k \in JobId \ {j} : jobs'[k] = jobs[k]
      BY <2>2, <3>1, RetriedRow DEF IInv, TypeOK
    <3>3. jobs[j].attempts < MaxAttempts
      BY <2>2, <2>6, QueueAssumption DEF Exhausted, IInv, TypeOK
    <3> QED
      BY <1>3, <2>3, <3>2, <3>3
  <2> QED
    BY <1>6, <2>5, <2>6
<1>7. ASSUME NEW w \in Worker,
             SaveFailureError(w) \/ (pc[w] \in Executing /\ (Crash(w) \/ Exit(w)))
      PROVE  Goal
  <2>1. pc[w] \in Executing /\ (Return(w) \/ Leave(w)) /\ UNCHANGED jobs
    BY <1>7 DEF SaveFailureError, Crash, Exit, Leave, table
  <2>2. PICK j \in JobId : held[w] = j /\ Runs(w, j) /\ jobs[j].status = "processing"
    BY <2>1, RunningRow
  <2>3. Lifecycle!End(w, j, "processing")
    BY <2>1, <2>2, NoLongerRuns, RunEnds
  <2> QED
    BY <1>2, <2>3
<1>8. ASSUME UNCHANGED jobs,
             \A w \in Worker, j \in JobId : Runs(w, j)' <=> Runs(w, j)
      PROVE  Goal
  BY <1>8, QuietStutters
<1>9. ASSUME NEW w \in Worker, NEW j \in JobId, FindAndLock(w, j) PROVE Goal
  BY <1>8, <1>9 DEF FindAndLock, IInv, TypeOK, Runs
<1>10. ASSUME NEW w \in Worker,
              HandlerReturns(w) \/ HandlerThrows(w) \/ SaveCompletedError(w)
       PROVE  Goal
  BY <1>8, <1>10
  DEF HandlerReturns, HandlerThrows, SaveCompletedError, table, IInv, TypeOK, Runs
<1>11. ASSUME NEW w \in Worker,
              ReserveError(w) \/ (pc[w] \notin Executing /\ (Crash(w) \/ Exit(w)))
       PROVE  Goal
  <2>1. /\ pc[w] \notin Executing /\ UNCHANGED jobs
        /\ Return(w) \/ Leave(w)
    BY <1>11 DEF ReserveError, Crash, Exit, Leave
  <2>2. \A j \in JobId : ~Runs(w, j) /\ ~Runs(w, j)'
    BY <2>1, NoLongerRuns DEF Runs
  <2> QED
    BY <1>8, <2>1, <2>2, NoLongerRuns
<1>12. ASSUME NEW w \in Worker, Start(w) PROVE Goal
  BY <1>8, <1>12 DEF Start, table, IInv, TypeOK, Runs
<1>13. CASE Tick \/ UNCHANGED vars \/ \E w \in Worker : FindNothing(w) \/ Stop(w)
  BY <1>8, <1>13 DEF Tick, vars, FindNothing, Stop, table, process, Runs
<1> QED
  BY <1>4, <1>5, <1>6, <1>7, <1>9, <1>10, <1>11, <1>12, <1>13
  DEF Next, Iteration, Failure

\* The worker implements JobLifecycle: whatever is proved about that abstract
\* life cycle holds of the jobs table and the polling processes.
THEOREM WorkerImplementsLifecycle == Spec => ImplementsLifecycle
<1>1. Init => Lifecycle!LInit
  BY QueueAssumption DEF Init, Lifecycle!LInit, NoRow, Runner, Runs
<1>2. IInv /\ IInv' /\ FreshRows /\ [Next]_vars
        => [Lifecycle!LNext]_(Lifecycle!lifecycleVars)
  BY StepImplements
<1>3. Init => FreshRows
  BY DEF Init, NoRow, FreshRows
<1>4. IInv /\ FreshRows /\ [Next]_vars => FreshRows'
  BY StepKeepsFresh
<1> QED
  BY <1>1, <1>2, <1>3, <1>4, InvariantHolds, PTL DEF Spec, ImplementsLifecycle, Lifecycle!LSpec

-----------------------------------------------------------------------------
(* Jobs start in the order in which they fall due.  The transaction commits  *)
(* some time after its read: until then other rows are inserted or put back. *)

\* The row a process has selected is due, and nothing that waits fell due
\* before it, not even a row that began to wait after the selection.
SelectedIsFirst ==
  \A w \in Worker : pc[w] = "locked" =>
    /\ jobs[held[w]].availableAt <= now
    /\ \A k \in JobId : jobs[k].status = "pending"
         => jobs[held[w]].availableAt <= jobs[k].availableAt

\* The steps that change the table: an insert, a reservation, an outcome.
LEMMA WhoChangesRows ==
  ASSUME [Next]_vars
  PROVE  \/ UNCHANGED jobs
         \/ \E j \in JobId, name \in Names, delay \in Delays : Dispatch(j, name, delay)
         \/ \E w \in Worker : \/ Reserve(w) \/ NoHandler(w)
                              \/ SaveCompleted(w) \/ SaveFailure(w)
  BY DEF Next, Iteration, Failure, Tick, FindNothing, FindAndLock, HandlerReturns,
         HandlerThrows, ReserveError, SaveCompletedError, SaveFailureError, Crash,
         Leave, Start, Stop, Exit, table, vars

\* The clock does not run backwards.
LEMMA ClockAdvances ==
  ASSUME TypeOK, [Next]_vars
  PROVE  now' >= now
<1>1. now' \in {now, now + 1}
  BY DEF Next, Iteration, Failure, Tick, Dispatch, FindNothing, FindAndLock, Reserve,
         NoHandler, HandlerReturns, HandlerThrows, SaveCompleted, SaveFailure,
         ReserveError, SaveCompletedError, SaveFailureError, Crash, Leave, Start,
         Stop, Exit, vars
<1> QED
  BY <1>1 DEF TypeOK

\* An outcome concerns the row the process executes, and a row that is put back
\* waits for its backoff.
LEMMA OutcomeRow ==
  ASSUME IInv, NEW w \in Worker, NoHandler(w) \/ SaveCompleted(w) \/ SaveFailure(w)
  PROVE  /\ pc[w] \in Executing /\ held[w] \in JobId
         /\ jobs[held[w]].status = "processing"
         /\ jobs'[held[w]].status # "processing"
         /\ jobs'[held[w]].status = "pending" => jobs'[held[w]].availableAt >= now'
         /\ \A k \in JobId \ {held[w]} : jobs'[k] = jobs[k]
<1> DEFINE j == held[w]
<1>1. /\ pc[w] \in Executing /\ j \in JobId
      /\ jobs \in [JobId -> Row] /\ jobs[j] \in Row
      /\ jobs[j].status = "processing" /\ now \in Nat /\ tries[w] \in Nat
  BY DEF NoHandler, SaveCompleted, SaveFailure, IInv, TypeOK, InstancesExist, OneRunner
<1>2. ASSUME NEW x \in Final, jobs' = [jobs EXCEPT ![j].status = x]
      PROVE  /\ jobs'[j].status = x
             /\ \A k \in JobId \ {j} : jobs'[k] = jobs[k]
  BY <1>1, <1>2 DEF Row
<1>3. CASE NoHandler(w) \/ SaveCompleted(w) \/ (SaveFailure(w) /\ Exhausted(w))
  <2>1. \E x \in Final : jobs' = [jobs EXCEPT ![j].status = x]
    BY <1>3 DEF NoHandler, SaveCompleted, SaveFailure, Final
  <2> QED
    BY <1>1, <1>2, <2>1 DEF Final
<1>4. CASE SaveFailure(w) /\ ~Exhausted(w)
  <2>1. jobs' = [jobs EXCEPT ![j] = Retried(jobs[j], w)] /\ now' = now
    BY <1>4 DEF SaveFailure
  <2>2. Backoff(tries[w]) \in Nat
    BY <1>1, BackoffNat
  <2>3. /\ Retried(jobs[j], w).status = "pending"
        /\ Retried(jobs[j], w).availableAt = now + Backoff(tries[w])
    BY <1>1 DEF Retried, Row
  <2> HIDE DEF j
  <2> QED
    BY <1>1, <2>1, <2>2, <2>3 DEF j
<1> QED
  BY <1>3, <1>4

\* Only the commit of a reservation makes a waiting row "processing".
LEMMA BegunByReserve ==
  ASSUME IInv, [Next]_vars, NEW j \in JobId,
         jobs[j].status = "pending", jobs'[j].status = "processing"
  PROVE  \E w \in Worker : pc[w] = "locked" /\ held[w] = j
<1>1. ASSUME NEW k \in JobId, NEW name \in Names, NEW delay \in Delays,
             Dispatch(k, name, delay)
      PROVE  jobs'[j].status # "processing"
  BY <1>1 DEF Dispatch, IInv, TypeOK
<1>2. ASSUME NEW w \in Worker, NoHandler(w) \/ SaveCompleted(w) \/ SaveFailure(w)
      PROVE  jobs'[j].status # "processing"
  BY <1>2, OutcomeRow
<1>3. ASSUME NEW w \in Worker, Reserve(w)
      PROVE  pc[w] = "locked" /\ held[w] = j
  BY <1>3 DEF Reserve, IInv, TypeOK
<1> QED
  BY <1>1, <1>2, <1>3, WhoChangesRows

\* A row that begins to wait is due now or later: dispatch adds the delay to
\* the clock, and a retry the backoff.
LEMMA WaitingRows ==
  ASSUME IInv, [Next]_vars, NEW k \in JobId, jobs'[k].status = "pending"
  PROVE  jobs'[k] = jobs[k] \/ jobs'[k].availableAt >= now'
<1>1. ASSUME NEW j \in JobId, NEW name \in Names, NEW delay \in Delays,
             Dispatch(j, name, delay)
      PROVE  jobs'[k] = jobs[k] \/ jobs'[k].availableAt >= now'
  <2>1. delay \in Nat /\ now \in Nat /\ now' = now
    BY <1>1, QueueAssumption DEF Dispatch, IInv, TypeOK
  <2>2. CASE k # j
    BY <1>1, <2>2 DEF Dispatch, IInv, TypeOK
  <2>3. CASE k = j
    <3>1. jobs'[k].availableAt = now + delay
      BY <1>1, <2>3 DEF Dispatch, IInv, TypeOK
    <3> QED
      BY <2>1, <3>1
  <2> QED
    BY <2>2, <2>3
<1>2. ASSUME NEW w \in Worker, Reserve(w) PROVE jobs'[k] = jobs[k]
  <2>1. held[w] \in JobId /\ jobs[held[w]] \in Row
    BY <1>2 DEF Reserve, IInv, InstancesExist, TypeOK
  <2>2. jobs'[held[w]].status = "processing"
    BY <1>2, <2>1, ReservedRow DEF Reserve, IInv, TypeOK
  <2> QED
    BY <1>2, <2>1, <2>2 DEF Reserve, IInv, TypeOK
<1>3. ASSUME NEW w \in Worker, NoHandler(w) \/ SaveCompleted(w) \/ SaveFailure(w)
      PROVE  jobs'[k] = jobs[k] \/ jobs'[k].availableAt >= now'
  BY <1>3, OutcomeRow
<1> QED
  BY <1>1, <1>2, <1>3, WhoChangesRows

\* While a transaction stays open its process keeps the row it selected; the
\* only step that opens one is the locking read.
LEMMA SelectionStays ==
  ASSUME IInv, [Next]_vars, NEW w \in Worker, pc'[w] = "locked"
  PROVE  \/ /\ pc[w] = "locked" /\ held'[w] = held[w]
         \/ \E j \in JobId : FindAndLock(w, j)
<1>1. CASE Tick \/ UNCHANGED vars
           \/ \E j \in JobId, name \in Names, delay \in Delays : Dispatch(j, name, delay)
  BY <1>1 DEF Tick, vars, Dispatch, process
<1>2. ASSUME NEW v \in Worker, NEW j \in JobId, FindAndLock(v, j)
      PROVE  \/ pc[w] = "locked" /\ held'[w] = held[w]
             \/ v = w
  BY <1>2 DEF FindAndLock, IInv, TypeOK
<1>3. ASSUME NEW v \in Worker, NEW x, x # "locked", pc' = [pc EXCEPT ![v] = x],
             UNCHANGED held \/ held' = [held EXCEPT ![v] = NoJob]
      PROVE  pc[w] = "locked" /\ held'[w] = held[w]
  BY <1>3 DEF IInv, TypeOK
<1>4. ASSUME NEW v \in Worker, Return(v) \/ Leave(v)
      PROVE  pc[w] = "locked" /\ held'[w] = held[w]
  BY <1>3, <1>4 DEF Return, Leave
<1>5. ASSUME NEW v \in Worker,
             \/ Reserve(v) \/ HandlerReturns(v) \/ HandlerThrows(v)
             \/ SaveCompletedError(v) \/ Start(v)
      PROVE  pc[w] = "locked" /\ held'[w] = held[w]
  BY <1>3, <1>5 DEF Reserve, HandlerReturns, HandlerThrows, SaveCompletedError, Start
<1>6. ASSUME NEW v \in Worker, FindNothing(v) \/ Stop(v)
      PROVE  pc[w] = "locked" /\ held'[w] = held[w]
  BY <1>6 DEF FindNothing, Stop, vars
<1> QED
  BY <1>1, <1>2, <1>4, <1>5, <1>6
  DEF Next, Iteration, Failure, NoHandler, SaveCompleted, SaveFailure, ReserveError,
      SaveFailureError, Crash, Exit

\* Every step keeps the selected rows first.
LEMMA StepKeepsSelected ==
  ASSUME IInv, IInv', SelectedIsFirst, [Next]_vars
  PROVE  SelectedIsFirst'
<1> SUFFICES ASSUME NEW w \in Worker, pc'[w] = "locked"
             PROVE  /\ jobs'[held'[w]].availableAt <= now'
                    /\ \A k \in JobId : jobs'[k].status = "pending"
                         => jobs'[held'[w]].availableAt <= jobs'[k].availableAt
  BY DEF SelectedIsFirst
<1>1. /\ held'[w] \in JobId /\ now \in Nat /\ now' \in Nat
      /\ \A k \in JobId : /\ jobs[k].availableAt \in Nat
                          /\ jobs'[k].availableAt \in Nat
  BY DEF IInv, TypeOK, Row, InstancesExist
<1>2. CASE pc[w] = "locked" /\ held'[w] = held[w]
  <2> DEFINE j == held[w]
  <2>1. /\ jobs[j].availableAt <= now
        /\ \A k \in JobId : jobs[k].status = "pending"
             => jobs[j].availableAt <= jobs[k].availableAt
    BY <1>2 DEF SelectedIsFirst
  <2>2. j \in JobId /\ jobs[j].status = "pending" /\ jobs'[j].status = "pending"
    BY <1>1, <1>2, SelectionStays DEF IInv, LockProtocol
  <2>3. jobs'[j].availableAt = jobs[j].availableAt
    <3>1. ASSUME NEW k \in JobId, NEW name \in Names, NEW delay \in Delays,
                 Dispatch(k, name, delay)
          PROVE  jobs'[j] = jobs[j]
      BY <2>2, <3>1 DEF Dispatch, IInv, TypeOK
    <3>2. ASSUME NEW v \in Worker, Reserve(v) PROVE jobs'[j] = jobs[j]
      <4>1. v # w
        BY <1>2, <3>2 DEF Reserve, IInv, TypeOK
      <4>2. held[v] # j
        BY <1>2, <3>2, <4>1, <2>2, QueueAssumption DEF Reserve, IInv, LockProtocol
      <4> QED
        BY <3>2, <4>2 DEF Reserve, IInv, TypeOK
    <3>3. ASSUME NEW v \in Worker, NoHandler(v) \/ SaveCompleted(v) \/ SaveFailure(v)
          PROVE  jobs'[j] = jobs[j]
      BY <2>2, <3>3, OutcomeRow
    <3> QED
      BY <3>1, <3>2, <3>3, WhoChangesRows
  <2>4. now' >= now
    BY ClockAdvances DEF IInv
  <2>5. ASSUME NEW k \in JobId, jobs'[k].status = "pending"
        PROVE  jobs[j].availableAt <= jobs'[k].availableAt
    <3>1. CASE jobs'[k] = jobs[k]
      BY <2>1, <2>5, <3>1
    <3>2. CASE jobs'[k].availableAt >= now'
      BY <1>1, <2>1, <2>2, <2>4, <3>2
    <3> QED
      BY <2>5, <3>1, <3>2, WaitingRows
  <2> HIDE DEF j
  <2>6. held'[w] = j
    BY <1>2 DEF j
  <2> QED
    BY <1>1, <2>1, <2>2, <2>3, <2>4, <2>5, <2>6
<1>3. ASSUME NEW j \in JobId, FindAndLock(w, j)
      PROVE  /\ jobs'[held'[w]].availableAt <= now'
             /\ \A k \in JobId : jobs'[k].status = "pending"
                  => jobs'[held'[w]].availableAt <= jobs'[k].availableAt
  <2>1. held'[w] = j /\ jobs' = jobs /\ now' = now
    BY <1>3 DEF FindAndLock, IInv, TypeOK
  <2>2. jobs[j].availableAt <= now
    BY <1>3 DEF FindAndLock, Oldest, Due
  <2>3. ASSUME NEW k \in JobId, jobs[k].status = "pending"
        PROVE  jobs[j].availableAt <= jobs[k].availableAt
    <3>1. CASE Due(k)
      BY <1>1, <1>3, <3>1 DEF FindAndLock, Oldest, Before
    <3>2. CASE ~Due(k)
      BY <1>1, <2>2, <2>3, <3>2 DEF Due
    <3> QED
      BY <3>1, <3>2
  <2> QED
    BY <2>1, <2>2, <2>3
<1> QED
  BY <1>2, <1>3, SelectionStays

\* A job that is started fell due no later than any job that still waits,
\* although rows are inserted and put back between the read and the commit.
THEOREM StartsInDueOrder == Spec => InDueOrder
<1>1. Init => SelectedIsFirst
  BY DEF Init, SelectedIsFirst
<1>2. IInv /\ IInv' /\ SelectedIsFirst /\ [Next]_vars => SelectedIsFirst'
  BY StepKeepsSelected
<1>3. IInv /\ SelectedIsFirst /\ [Next]_vars
        => [\A j, k \in JobId :
              /\ jobs[j].status = "pending"
              /\ jobs'[j].status = "processing"
              /\ jobs[k].status = "pending"
              => jobs[j].availableAt <= jobs[k].availableAt]_jobs
  BY BegunByReserve DEF SelectedIsFirst
<1> QED
  BY <1>1, <1>2, <1>3, InvariantHolds, PTL DEF Spec, InDueOrder

-----------------------------------------------------------------------------
(* Orphans.  A process that was told to stop can still cut off the handler   *)
(* it runs, so it counts against its shutdown until it has exited.           *)

Orphans == {j \in JobId : Orphan(j)}

Leaving == {w \in Worker : pc[w] # "down" /\ ~polling[w]}

\* Each fault and each shutdown pays for one orphan, or for one process that is
\* still on its way out.
EachOrphanPaid ==
  /\ \A w \in Worker : polling[w] => pc[w] # "down"
  /\ IsFiniteSet(Leaving)
  /\ Cardinality(Orphans) + Cardinality(Leaving) <= faults + shutdowns

\* There are finitely many rows.
LEMMA OrphansFinite == IsFiniteSet(Orphans) /\ IsFiniteSet(Orphans')
<1>1. IsFiniteSet(JobId)
  BY QueueAssumption, FS_Interval DEF JobId
<1>2. Orphans \subseteq JobId /\ Orphans' \subseteq JobId
  BY DEF Orphans
<1> QED
  BY <1>1, <1>2, FS_Subset

\* A set that gains at most one element.
LEMMA OneMore ==
  ASSUME NEW S, NEW T, NEW x, IsFiniteSet(S), T \subseteq S \cup {x}
  PROVE  IsFiniteSet(T) /\ Cardinality(T) <= Cardinality(S) + 1
<1>1. /\ IsFiniteSet(S \cup {x})
      /\ Cardinality(S \cup {x}) \in {Cardinality(S), Cardinality(S) + 1}
  BY FS_AddElement
<1>2. IsFiniteSet(T) /\ Cardinality(T) <= Cardinality(S \cup {x})
  BY <1>1, FS_Subset
<1>3. Cardinality(S) \in Nat /\ Cardinality(T) \in Nat
  BY <1>2, FS_CardinalityType
<1> QED
  BY <1>1, <1>2, <1>3

\* A row is newly an orphan only if it was being executed and no longer is.
LEMMA NewOrphan ==
  ASSUME IInv, IInv', [Next]_vars, NEW j \in Orphans', j \notin Orphans
  PROVE  \E w \in Worker : Runs(w, j) /\ ~Runs(w, j)' /\ jobs'[j] = jobs[j]
<1>1. /\ j \in JobId /\ jobs'[j].status = "processing"
      /\ \A w \in Worker : ~Runs(w, j)'
  BY DEF Orphans, Orphan
<1>2. ASSUME jobs'[j] = jobs[j]
      PROVE  \E w \in Worker : Runs(w, j) /\ ~Runs(w, j)' /\ jobs'[j] = jobs[j]
  BY <1>1, <1>2 DEF Orphans, Orphan
<1>3. ASSUME NEW k \in JobId, NEW name \in Names, NEW delay \in Delays,
             Dispatch(k, name, delay)
      PROVE  jobs'[j] = jobs[j]
  BY <1>1, <1>3 DEF Dispatch, IInv, TypeOK
<1>4. ASSUME NEW w \in Worker, Reserve(w) PROVE jobs'[j] = jobs[j]
  <2>1. held[w] # j
    BY <1>1, <1>4 DEF Reserve, IInv, TypeOK, Runs
  <2> QED
    BY <1>4, <2>1 DEF Reserve, IInv, TypeOK
<1>5. ASSUME NEW w \in Worker, NoHandler(w) \/ SaveCompleted(w) \/ SaveFailure(w)
      PROVE  jobs'[j] = jobs[j]
  BY <1>1, <1>5, OutcomeRow
<1> QED
  BY <1>1, <1>2, <1>3, <1>4, <1>5, WhoChangesRows

\* A step of process v ends no other process's run.
LEMMA OnlyOwnRunEnds ==
  ASSUME IInv, NEW v \in Worker, Return(v) \/ Leave(v),
         NEW w \in Worker, NEW j \in JobId, Runs(w, j), ~Runs(w, j)'
  PROVE  v = w
  BY NoLongerRuns

\* The steps that end a run and leave its row alone: a lost outcome, a crash,
\* the exit of a process that was told to stop.
LEMMA WhoOrphans ==
  ASSUME IInv, IInv', [Next]_vars, NEW w \in Worker, NEW j \in JobId,
         Runs(w, j), ~Runs(w, j)', jobs'[j] = jobs[j]
  PROVE  SaveFailureError(w) \/ Crash(w) \/ Exit(w)
<1>1. /\ pc[w] \in Executing /\ held[w] = j /\ jobs[j].status = "processing"
      /\ ~(pc'[w] \in Executing /\ held'[w] = j)
  BY DEF Runs, IInv, OneRunner
<1>2. ASSUME UNCHANGED <<pc, held>> PROVE FALSE
  BY <1>1, <1>2
<1>3. ASSUME NEW v \in Worker, NEW k \in JobId, FindAndLock(v, k) PROVE FALSE
  BY <1>1, <1>3 DEF FindAndLock, IInv, TypeOK
<1>4. ASSUME NEW v \in Worker, NEW x \in Executing,
             pc' = [pc EXCEPT ![v] = x], UNCHANGED held
      PROVE  FALSE
  BY <1>1, <1>4 DEF IInv, TypeOK
<1>5. ASSUME NEW v \in Worker,
             Reserve(v) \/ HandlerReturns(v) \/ HandlerThrows(v) \/ SaveCompletedError(v)
      PROVE  FALSE
  BY <1>4, <1>5 DEF Reserve, HandlerReturns, HandlerThrows, SaveCompletedError
<1>6. ASSUME NEW v \in Worker, NoHandler(v) \/ SaveCompleted(v) \/ SaveFailure(v)
      PROVE  FALSE
  <2>1. v # w
    BY <1>1, <1>6, OutcomeRow
  <2> QED
    BY <1>6, <2>1, OnlyOwnRunEnds DEF NoHandler, SaveCompleted, SaveFailure
<1>7. ASSUME NEW v \in Worker, Start(v) PROVE FALSE
  BY <1>1, <1>7 DEF Start, IInv, TypeOK
<1>8. ASSUME NEW v \in Worker, ReserveError(v) PROVE FALSE
  <2>1. v # w
    BY <1>1, <1>8 DEF ReserveError
  <2> QED
    BY <1>8, <2>1, OnlyOwnRunEnds DEF ReserveError
<1>9. ASSUME NEW v \in Worker, SaveFailureError(v) \/ Crash(v) \/ Exit(v)
      PROVE  v = w
  BY <1>9, OnlyOwnRunEnds DEF SaveFailureError, Crash, Exit
<1> QED
  BY <1>2, <1>3, <1>5, <1>6, <1>7, <1>8, <1>9
  DEF Next, Iteration, Failure, Tick, Dispatch, FindNothing, Stop, process, vars

\* A process begins to leave only when it is told to stop.
LEMMA LeavingGrows ==
  ASSUME TypeOK, [Next]_vars,
         \A w \in Worker : polling[w] => pc[w] # "down"
  PROVE  /\ \/ Leaving' \subseteq Leaving
            \/ \E w \in Worker : Stop(w) /\ Leaving' \subseteq Leaving \cup {w}
         /\ \A w \in Worker : polling'[w] => pc'[w] # "down"
<1>1. ASSUME UNCHANGED <<pc, polling>>
      PROVE  Leaving' \subseteq Leaving /\ \A w \in Worker : polling'[w] => pc'[w] # "down"
  BY <1>1 DEF Leaving
<1>2. ASSUME NEW v \in Worker, NEW x, x # "down", pc[v] # "down",
             pc' = [pc EXCEPT ![v] = x], UNCHANGED polling
      PROVE  Leaving' \subseteq Leaving /\ \A w \in Worker : polling'[w] => pc'[w] # "down"
  BY <1>2 DEF Leaving, TypeOK
<1>3. ASSUME NEW v \in Worker, NEW j \in JobId, FindAndLock(v, j)
      PROVE  Leaving' \subseteq Leaving /\ \A w \in Worker : polling'[w] => pc'[w] # "down"
  BY <1>2, <1>3 DEF FindAndLock
<1>4. ASSUME NEW v \in Worker,
             \/ Reserve(v) \/ NoHandler(v) \/ HandlerReturns(v) \/ HandlerThrows(v)
             \/ SaveCompleted(v) \/ SaveFailure(v)
             \/ ReserveError(v) \/ SaveCompletedError(v) \/ SaveFailureError(v)
      PROVE  Leaving' \subseteq Leaving /\ \A w \in Worker : polling'[w] => pc'[w] # "down"
  BY <1>2, <1>4
  DEF Reserve, NoHandler, HandlerReturns, HandlerThrows, SaveCompleted, SaveFailure,
      ReserveError, SaveCompletedError, SaveFailureError, Return
<1>5. ASSUME NEW v \in Worker, Start(v)
      PROVE  Leaving' \subseteq Leaving /\ \A w \in Worker : polling'[w] => pc'[w] # "down"
  BY <1>5 DEF Start, Leaving, TypeOK
<1>6. ASSUME NEW v \in Worker, Crash(v) \/ Exit(v)
      PROVE  Leaving' \subseteq Leaving /\ \A w \in Worker : polling'[w] => pc'[w] # "down"
  BY <1>6 DEF Crash, Exit, Leave, Leaving, TypeOK
<1>7. ASSUME NEW v \in Worker, Stop(v)
      PROVE  /\ Leaving' \subseteq Leaving \cup {v}
             /\ \A w \in Worker : polling'[w] => pc'[w] # "down"
  BY <1>7 DEF Stop, Leaving, TypeOK
<1> QED
  BY <1>1, <1>3, <1>4, <1>5, <1>6, <1>7
  DEF Next, Iteration, Failure, Tick, Dispatch, FindNothing, process, vars

\* The counts of faults and shutdowns never go down.
LEMMA CountsGrow ==
  ASSUME TypeOK, TypeOK', [Next]_vars
  PROVE  /\ faults' >= faults /\ shutdowns' >= shutdowns
         /\ \A w \in Worker : /\ SaveFailureError(w) \/ Crash(w) => faults' = faults + 1
                              /\ Stop(w) => shutdowns' = shutdowns + 1
<1>1. faults' \in {faults, faults + 1} /\ shutdowns' \in {shutdowns, shutdowns + 1}
  BY DEF Next, Iteration, Failure, Tick, Dispatch, FindNothing, FindAndLock, Reserve,
         NoHandler, HandlerReturns, HandlerThrows, SaveCompleted, SaveFailure, Fault,
         ReserveError, SaveCompletedError, SaveFailureError, Crash, Leave, Start,
         Stop, Exit, vars
<1>2. \A w \in Worker : /\ SaveFailureError(w) \/ Crash(w) => faults' = faults + 1
                        /\ Stop(w) => shutdowns' = shutdowns + 1
  BY DEF SaveFailureError, Crash, Fault, Stop
<1> QED
  BY <1>1, <1>2 DEF TypeOK

\* Every step pays for the orphan it makes.
LEMMA StepPays ==
  ASSUME IInv, IInv', EachOrphanPaid, [Next]_vars
  PROVE  EachOrphanPaid'
<1>1. /\ \/ Leaving' \subseteq Leaving
         \/ \E w \in Worker : Stop(w) /\ Leaving' \subseteq Leaving \cup {w}
      /\ \A w \in Worker : polling'[w] => pc'[w] # "down"
  BY LeavingGrows DEF IInv, EachOrphanPaid
<1>2. /\ IsFiniteSet(Leaving) /\ IsFiniteSet(Leaving')
      /\ IsFiniteSet(Orphans) /\ IsFiniteSet(Orphans')
  <2>1. IsFiniteSet(Leaving)
    BY DEF EachOrphanPaid
  <2> QED
    BY <1>1, <2>1, OrphansFinite, OneMore, FS_Subset
<1> DEFINE o == Cardinality(Orphans)    l == Cardinality(Leaving)
           oNew == Cardinality(Orphans') lNew == Cardinality(Leaving')
<1>3. /\ o \in Nat /\ l \in Nat /\ oNew \in Nat /\ lNew \in Nat
      /\ faults \in Nat /\ shutdowns \in Nat /\ faults' \in Nat /\ shutdowns' \in Nat
  BY <1>2, FS_CardinalityType DEF IInv, TypeOK
<1>4. o + l <= faults + shutdowns
  BY DEF EachOrphanPaid
<1>5. faults' >= faults /\ shutdowns' >= shutdowns
  BY CountsGrow DEF IInv
<1>6. Orphans' \subseteq Orphans => oNew <= o
  BY <1>2, FS_Subset
<1>7. Leaving' \subseteq Leaving => lNew <= l
  BY <1>2, FS_Subset
<1>8. CASE Orphans' \subseteq Orphans
  <2>1. CASE Leaving' \subseteq Leaving
    <3>1. oNew + lNew <= faults' + shutdowns'
      BY <1>3, <1>4, <1>5, <1>6, <1>7, <1>8, <2>1
    <3> QED
      BY <1>1, <1>2, <3>1 DEF EachOrphanPaid, oNew, lNew
  <2>2. ASSUME NEW w \in Worker, Stop(w), Leaving' \subseteq Leaving \cup {w}
        PROVE  EachOrphanPaid'
    <3>1. lNew <= l + 1
      BY <1>2, <2>2, OneMore
    <3>2. shutdowns' = shutdowns + 1
      BY <2>2, CountsGrow DEF IInv
    <3>3. oNew + lNew <= faults' + shutdowns'
      BY <1>3, <1>4, <1>5, <1>6, <1>8, <3>1, <3>2
    <3> QED
      BY <1>1, <1>2, <3>3 DEF EachOrphanPaid, oNew, lNew
  <2> QED
    BY <1>1, <2>1, <2>2
<1>9. ASSUME NEW j \in Orphans', j \notin Orphans
      PROVE  EachOrphanPaid'
  <2>1. PICK w \in Worker : Runs(w, j) /\ ~Runs(w, j)' /\ jobs'[j] = jobs[j]
    BY <1>9, NewOrphan
  <2>2. j \in JobId
    BY DEF Orphans
  <2>3. SaveFailureError(w) \/ Crash(w) \/ Exit(w)
    BY <2>1, <2>2, WhoOrphans
  <2>4. Orphans' \subseteq Orphans \cup {j}
    <3> SUFFICES ASSUME NEW k \in Orphans', k \notin Orphans PROVE k = j
      OBVIOUS
    <3>1. PICK v \in Worker : Runs(v, k) /\ ~Runs(v, k)'
      BY NewOrphan
    <3>2. k \in JobId
      BY DEF Orphans
    <3>3. v = w
      BY <2>3, <3>1, <3>2, OnlyOwnRunEnds DEF SaveFailureError, Crash, Exit
    <3> QED
      BY <2>1, <3>1, <3>3 DEF Runs
  <2>5. oNew <= o + 1
    BY <1>2, <2>4, OneMore
  <2>6. Leaving' \subseteq Leaving
    <3>1. pc[w] # "down"
      BY <2>1 DEF Runs
    <3> QED
      BY <2>3, <3>1 DEF SaveFailureError, Crash, Exit, Return, Leave, Leaving, IInv, TypeOK
  <2>7. CASE SaveFailureError(w) \/ Crash(w)
    <3>1. faults' = faults + 1
      BY <2>7, CountsGrow DEF IInv
    <3>2. oNew + lNew <= faults' + shutdowns'
      BY <1>3, <1>4, <1>5, <1>7, <2>5, <2>6, <3>1
    <3> QED
      BY <1>1, <1>2, <3>2 DEF EachOrphanPaid, oNew, lNew
  <2>8. CASE Exit(w)
    <3>1. w \in Leaving
      BY <2>8 DEF Exit, Leaving
    <3>2. Leaving' \subseteq Leaving \ {w}
      BY <2>8 DEF Exit, Leave, Leaving, IInv, TypeOK
    <3>3. IsFiniteSet(Leaving \ {w}) /\ Cardinality(Leaving \ {w}) = l - 1
      BY <1>2, <3>1, FS_RemoveElement
    <3>4. lNew <= l - 1
      BY <3>2, <3>3, FS_Subset
    <3>5. oNew + lNew <= faults' + shutdowns'
      BY <1>3, <1>4, <1>5, <2>5, <3>4
    <3> QED
      BY <1>1, <1>2, <3>5 DEF EachOrphanPaid, oNew, lNew
  <2> QED
    BY <2>3, <2>7, <2>8
<1> QED
  BY <1>8, <1>9

\* The worker loses no job by its own logic: at any time the jobs left in
\* "processing" without a runner are at most the faults and shutdowns so far.
THEOREM OrphansAreAccounted == Spec => []OrphansAccounted
<1>1. Init => EachOrphanPaid
  <2> SUFFICES ASSUME Init PROVE EachOrphanPaid
    OBVIOUS
  <2>1. Orphans = {} /\ Leaving = {} /\ faults = 0 /\ shutdowns = 0
    BY DEF Init, NoRow, Orphans, Orphan, Leaving
  <2>2. \A w \in Worker : polling[w] => pc[w] # "down"
    BY DEF Init
  <2> QED
    BY <2>1, <2>2, FS_EmptySet DEF EachOrphanPaid
<1>2. IInv /\ IInv' /\ EachOrphanPaid /\ [Next]_vars => EachOrphanPaid'
  BY StepPays
<1>3. IInv /\ EachOrphanPaid => OrphansAccounted
  <2> SUFFICES ASSUME IInv, EachOrphanPaid PROVE OrphansAccounted
    OBVIOUS
  <2>1. Cardinality(Orphans) \in Nat /\ Cardinality(Leaving) \in Nat
    BY OrphansFinite, FS_CardinalityType DEF EachOrphanPaid
  <2>2. faults \in Nat /\ shutdowns \in Nat
    BY DEF IInv, TypeOK
  <2>3. Cardinality(Orphans) <= faults + shutdowns
    BY <2>1, <2>2 DEF EachOrphanPaid
  <2> QED
    BY <2>3 DEF OrphansAccounted, Orphans
<1> QED
  BY <1>1, <1>2, <1>3, InvariantHolds, PTL DEF Spec
=============================================================================
