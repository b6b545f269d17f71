---------------------------- MODULE CvPipeline ----------------------------
(***************************************************************************)
(* The CV documents of one candidate: uploadCv, uploadRawCv and retryCv of *)
(* src/Backend/src/services/cv.service.js, and the "cv_parsing" handler    *)
(* (src/Backend/src/jobs/handlers/cvParsing.handler.js) that background    *)
(* workers run for the jobs these requests dispatch.                       *)
(*                                                                         *)
(* The queue is used through JobLifecycle, which JobQueue implements: job  *)
(* e is the one whose payload names extraction e.  No request opens a      *)
(* transaction, so every await is a step, and requests of two browser tabs *)
(* and the handler interleave.                                             *)
(*                                                                         *)
(* Sequelize saves only changed columns: an instance writes "status" when  *)
(* it differs from the value it was loaded with ("seen").  File contents,  *)
(* extracted data and names are left out; a failed call changes nothing.   *)
(***************************************************************************)
EXTENDS JobLifecycle, FiniteSets, FiniteSetsExt

CONSTANTS
  DocId,        \* bound: ids of cv_documents rows, in insertion order
  Request,      \* bound: HTTP requests of the candidate
  MaxFaults     \* bound: failed calls, aborted requests, lost workers

ASSUME PipelineAssumption ==
  /\ DocId \subseteq Nat /\ IsFiniteSet(DocId)
  /\ JobId \subseteq Nat /\ IsFiniteSet(JobId)
  /\ MaxFaults \in Nat

ExtId == JobId
NoDoc == 0
NoExt == 0

VARIABLES
  docs,         \* cv_documents
  exts,         \* cv_extractions
  reqs,         \* reqs[r]: position and local variables of request r
  hand,         \* hand[w]: position of w's handler and the status it loaded
  faults        \* failures so far

queue == <<stage, starts, owner>>
vars == <<stage, starts, owner, docs, exts, reqs, hand, faults>>

NoRequest == [pc |-> "idle", raw |-> FALSE, doc |-> NoDoc, ext |-> NoExt,
              num |-> 0, seen |-> "none"]
NotHandling == [at |-> "idle", seen |-> "none"]

Init ==
  /\ LInit
  /\ docs = [d \in DocId |->
               [status |-> "none", version |-> 0, current |-> FALSE, raw |-> FALSE]]
  /\ exts = [e \in ExtId |->
               [status |-> "none", doc |-> NoDoc, attempt |-> 0, data |-> FALSE]]
  /\ reqs = [r \in Request |-> NoRequest]
  /\ hand = [w \in Worker |-> NotHandling]
  /\ faults = 0

Docs == {d \in DocId : docs[d].status # "none"}
ExtsOf(d) == {e \in ExtId : exts[e].status # "none" /\ exts[e].doc = d}

Largest(S) == IF S = {} THEN 0 ELSE Max(S)

NextDoc(d) == d \notin Docs /\ \A c \in DocId : c < d => c \in Docs
NextExt(e) ==
  /\ exts[e].status = "none"
  /\ \A f \in ExtId : f < e => exts[f].status # "none"

Fault == faults < MaxFaults /\ faults' = faults + 1

-----------------------------------------------------------------------------
(* Uploads.  max('version'), update is_current, create, create, dispatch *)

NewVersion == Largest({docs[d].version : d \in Docs}) + 1

ReadVersion(r, raw) ==
  /\ reqs[r].pc = "idle"
  /\ reqs' = [reqs EXCEPT ![r] = [@ EXCEPT !.pc = "clear", !.raw = raw,
                                           !.num = NewVersion]]
  /\ UNCHANGED <<queue, docs, exts, hand, faults>>

\* Mutant: earlier documents stay current.
Cleared_Not(row) == row

Cleared(row) == [row EXCEPT !.current = FALSE]

ClearCurrent(r) ==
  /\ reqs[r].pc = "clear"
  /\ docs' = [d \in DocId |-> Cleared(docs[d])]
  /\ reqs' = [reqs EXCEPT ![r].pc = "create"]
  /\ UNCHANGED <<queue, exts, hand, faults>>

\* A raw upload is stored as "completed", without extraction or job.
CreateDocument(r, d) ==
  /\ reqs[r].pc = "create"
  /\ NextDoc(d)
  /\ docs' = [docs EXCEPT ![d] =
       [status  |-> IF reqs[r].raw THEN "completed" ELSE "processing",
        version |-> reqs[r].num, current |-> TRUE, raw |-> reqs[r].raw]]
  /\ reqs' = [reqs EXCEPT ![r] = [@ EXCEPT
       !.pc = IF reqs[r].raw THEN "done" ELSE "extraction", !.doc = d, !.num = 1]]
  /\ UNCHANGED <<queue, exts, hand, faults>>

-----------------------------------------------------------------------------
(* Retries.  findOne, max('attempt_number'), create, save, dispatch *)

\* The status of the document is not looked at.
LoadForRetry(r, d) ==
  /\ reqs[r].pc = "idle"
  /\ d \in Docs
  /\ reqs' = [reqs EXCEPT ![r] = [@ EXCEPT !.pc = "attempt", !.doc = d,
                                           !.seen = docs[d].status]]
  /\ UNCHANGED <<queue, docs, exts, hand, faults>>

\* (max || 1) + 1
NewAttempt(d) == Largest({1} \cup {exts[e].attempt : e \in ExtsOf(d)}) + 1

ReadAttempt(r) ==
  /\ reqs[r].pc = "attempt"
  /\ reqs' = [reqs EXCEPT ![r].pc = "extraction", ![r].num = NewAttempt(reqs[r].doc)]
  /\ UNCHANGED <<queue, docs, exts, hand, faults>>

IsRetry(r) == reqs[r].seen # "none"

CreateExtraction(r, e) ==
  /\ reqs[r].pc = "extraction"
  /\ NextExt(e)
  /\ exts' = [exts EXCEPT ![e] = [status |-> "pending", doc |-> reqs[r].doc,
                                  attempt |-> reqs[r].num, data |-> FALSE]]
  /\ reqs' = [reqs EXCEPT ![r] = [@ EXCEPT
       !.pc = IF IsRetry(r) THEN "save" ELSE "dispatch", !.ext = e]]
  /\ UNCHANGED <<queue, docs, hand, faults>>

SaveProcessing(r) ==
  /\ reqs[r].pc = "save"
  /\ docs' = IF reqs[r].seen = "processing"
             THEN docs
             ELSE [docs EXCEPT ![reqs[r].doc].status = "processing"]
  /\ reqs' = [reqs EXCEPT ![r].pc = "dispatch"]
  /\ UNCHANGED <<queue, exts, hand, faults>>

DispatchParsing(r) ==
  /\ reqs[r].pc = "dispatch"
  /\ Submit(reqs[r].ext)
  /\ reqs' = [reqs EXCEPT ![r].pc = "done"]
  /\ UNCHANGED <<docs, exts, hand, faults>>

\* A call fails, the connection is lost or the process dies.
RequestAborts(r) ==
  /\ reqs[r].pc \notin {"idle", "done", "aborted"}
  /\ Fault
  /\ reqs' = [reqs EXCEPT ![r].pc = "aborted"]
  /\ UNCHANGED <<queue, docs, exts, hand>>

-----------------------------------------------------------------------------
(* The handler, run by worker w for the job of extraction e *)

Handles(w, e, at) == owner[e] = w /\ hand[w].at = at

Reserve(w, e) ==
  /\ Begin(w, e)
  /\ hand' = [hand EXCEPT ![w].at = "load"]
  /\ UNCHANGED <<docs, exts, reqs, faults>>

LoadDocument(w, e) ==
  /\ Handles(w, e, "load")
  /\ hand' = [hand EXCEPT ![w] = [at |-> "mark", seen |-> docs[exts[e].doc].status]]
  /\ UNCHANGED <<queue, docs, exts, reqs, faults>>

\* Mutant: a run that finds its extraction completed has nothing to do.
MarkProcessing_Shortcut(w, e) ==
  /\ Handles(w, e, "mark")
  /\ IF exts[e].status = "completed"
     THEN hand' = [hand EXCEPT ![w].at = "return"] /\ UNCHANGED exts
     ELSE /\ exts' = [exts EXCEPT ![e].status = "processing"]
          /\ hand' = [hand EXCEPT ![w].at = "extract"]
  /\ UNCHANGED <<queue, docs, reqs, faults>>

\* Mutant: a new run empties the extraction first.
MarkProcessing_Empties(w, e) ==
  /\ Handles(w, e, "mark")
  /\ exts' = [exts EXCEPT ![e] = [@ EXCEPT !.status = "processing", !.data = FALSE]]
  /\ hand' = [hand EXCEPT ![w].at = "extract"]
  /\ UNCHANGED <<queue, docs, reqs, faults>>

\* The payload always names an extraction, so the handler never creates one.
MarkProcessing(w, e) ==
  /\ Handles(w, e, "mark")
  /\ exts' = [exts EXCEPT ![e].status = "processing"]
  /\ hand' = [hand EXCEPT ![w].at = "extract"]
  /\ UNCHANGED <<queue, docs, reqs, faults>>

\* The AI service answers, or fails and the built-in sample takes its place:
\* either way the extraction is completed with data.
SaveExtraction(w, e) ==
  /\ Handles(w, e, "extract")
  /\ exts' = [exts EXCEPT ![e] = [@ EXCEPT !.status = "completed", !.data = TRUE]]
  /\ hand' = [hand EXCEPT ![w].at = "document"]
  /\ UNCHANGED <<queue, docs, reqs, faults>>

SaveDocument(w, e) ==
  /\ Handles(w, e, "document")
  /\ docs' = IF hand[w].seen = "completed"
             THEN docs
             ELSE [docs EXCEPT ![exts[e].doc].status = "completed"]
  /\ hand' = [hand EXCEPT ![w].at = "return"]
  /\ UNCHANGED <<queue, exts, reqs, faults>>

\* Mutant: the handler of the next job inherits the position of this one.
Dropped_Kept(w) == UNCHANGED <<hand, docs, exts, reqs>>

Dropped(w) ==
  /\ hand' = [hand EXCEPT ![w] = NotHandling]
  /\ UNCHANGED <<docs, exts, reqs>>

HandlerReturns(w, e) ==
  /\ Handles(w, e, "return")
  /\ Complete(w, e)
  /\ Dropped(w)
  /\ UNCHANGED faults

\* A database call of the handler, or the save of the completed job, fails: the
\* worker puts the job back or gives it up.  Documents are left as they are.
HandlerThrows(w, e) ==
  /\ owner[e] = w
  /\ Fault
  /\ IF starts[e] >= MaxAttempts THEN Fail(w, e) ELSE PutBack(w, e)
  /\ Dropped(w)

WorkerLost(w, e) ==
  /\ Abandon(w, e)
  /\ Fault
  /\ Dropped(w)

-----------------------------------------------------------------------------
RequestStep(r) ==
  \/ ClearCurrent(r)
  \/ \E d \in DocId : CreateDocument(r, d)
  \/ ReadAttempt(r)
  \/ \E e \in ExtId : CreateExtraction(r, e)
  \/ SaveProcessing(r)
  \/ DispatchParsing(r)

HandlerStep(w, e) ==
  \/ Reserve(w, e)
  \/ LoadDocument(w, e)
  \/ MarkProcessing(w, e)
  \/ SaveExtraction(w, e)
  \/ SaveDocument(w, e)
  \/ HandlerReturns(w, e)

Next ==
  \/ \E r \in Request :
        \/ \E raw \in BOOLEAN : ReadVersion(r, raw)
        \/ \E d \in DocId : LoadForRetry(r, d)
        \/ RequestStep(r)
        \/ RequestAborts(r)
  \/ \E w \in Worker, e \in ExtId :
        \/ HandlerStep(w, e)
        \/ HandlerThrows(w, e)
        \/ WorkerLost(w, e)

Spec == Init /\ [][Next]_vars

\* A started request runs to its end or aborts; a reserved job runs on.
Fairness ==
  /\ \A r \in Request : WF_vars(RequestStep(r))
  /\ \A w \in Worker : WF_vars(\E e \in ExtId : HandlerStep(w, e))

FairSpec == Spec /\ Fairness

-----------------------------------------------------------------------------
(* Properties *)

RowStatuses == {"none", "pending", "processing", "completed", "failed"}

TypeOK ==
  /\ stage \in [JobId -> Stages]
  /\ docs \in [DocId -> [status : RowStatuses, version : Nat, current : BOOLEAN, raw : BOOLEAN]]
  /\ exts \in [ExtId -> [status : RowStatuses, doc : DocId \cup {NoDoc},
                         attempt : Nat, data : BOOLEAN]]
  /\ \A r \in Request : reqs[r].doc \in DocId \cup {NoDoc} /\ reqs[r].num \in Nat
  /\ \A w \in Worker : hand[w].at # "idle" <=> \E e \in ExtId : owner[e] = w

\* What getPreviewDocument and getCvFile may serve as "latest": a current
\* document, else the highest version and, among equals, the highest id.
Current == {d \in Docs : docs[d].current}
Newest == {d \in Docs : \A c \in Docs :
             \/ docs[c].version < docs[d].version
             \/ docs[c].version = docs[d].version /\ c <= d}
Served == IF Current # {} THEN Current ELSE Newest

DistinctVersions ==
  \A c, d \in Docs : docs[c].version = docs[d].version => c = d

\* As long as no two uploads raced for a version number, "latest" is the newest
\* document and no other, through every step and failure of an upload.
LatestIsNewest == DistinctVersions => Served = Newest

\* A parsed document reads "completed" only if an extraction holds its data,
\* also while a job of it is run again after a failed save.
DocumentsHaveData ==
  \A d \in Docs : docs[d].status = "completed" /\ ~docs[d].raw
                   => \E e \in ExtsOf(d) : exts[e].data

\* A job is completed only when its own extraction is.
JobsHaveData ==
  \A e \in ExtId : stage[e] = "completed" => exts[e].status = "completed" /\ exts[e].data

\* Uploads, retries, repeated runs and failures leave nothing that reads
\* "completed" without the data it stands for.
CompletedHasData == DocumentsHaveData /\ JobsHaveData

\* Something is still under way for the document: a request that will dispatch
\* a job, a waiting job, or a running one.
UnderWay(d) ==
  \/ \E r \in Request : reqs[r].doc = d /\ reqs[r].pc \notin {"done", "aborted"}
  \/ \E e \in ExtsOf(d) : stage[e] = "pending" \/ owner[e] \in Worker

Orphan(e) == stage[e] = "processing" /\ owner[e] = NoOne

\* A failure struck one of the document's requests or jobs.
Struck(d) ==
  \/ \E r \in Request : reqs[r].doc = d /\ reqs[r].pc = "aborted"
  \/ \E e \in ExtsOf(d) : stage[e] = "failed" \/ Orphan(e)

\* A document stays in "processing" only while something is under way for it, or
\* because a failure struck: no interleaving of uploads, retries and handlers
\* strands it.
NotStranded ==
  \A d \in Docs : docs[d].status = "processing" => UnderWay(d) \/ Struck(d)

\* Every document in "processing" is eventually completed, unless a failure struck.
Parsed == \A d \in DocId :
  (d \in Docs /\ docs[d].status = "processing")
    ~> (docs[d].status = "completed" \/ Struck(d))

\* docs/README: document states include "failed".  A document whose only jobs
\* were given up would show it.
FailureShown ==
  \A d \in Docs :
    (ExtsOf(d) # {} /\ \A e \in ExtsOf(d) : stage[e] = "failed") => docs[d].status = "failed"
=============================================================================
