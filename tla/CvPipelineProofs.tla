-------------------------- MODULE CvPipelineProofs --------------------------
(***************************************************************************)
(* Proofs about CvPipeline, for any number of documents, requests, workers *)
(* attempts and failures.                                                  *)
(*                                                                         *)
(* None of the properties is inductive.  The invariant adds what a request *)
(* or a handler knows at its position: the rows it has read are still      *)
(* there, a handler past the answer has its extraction completed, and what *)
(* still tends a document in "processing" is a request before its          *)
(* dispatch, a waiting job, or a run that will write the document.         *)
(***************************************************************************)
EXTENDS CvPipeline, FiniteSetTheorems, WellFoundedInduction, TLAPS

-----------------------------------------------------------------------------
(* The largest number of a set *)

\* A finite set of numbers that is not empty has a maximum, which Max returns.
LEMMA MaxIsLargest ==
  ASSUME NEW S, S \subseteq Nat, IsFiniteSet(S), S # {}
  PROVE  Max(S) \in S /\ \A x \in S : x <= Max(S)
<1> DEFINE Above(x) == {y \in S : y > x}
           Sets == {Above(x) : x \in S}
           R == StrictSubsetOrdering(S)
<1>1. IsWellFoundedOn(R, SUBSET S)
  BY FS_StrictSubsetOrderingWellFounded, FS_FiniteSubsetsOfFinite
<1>2. Sets \subseteq SUBSET S /\ Sets # {}
  OBVIOUS
<1> HIDE DEF R
<1>3. PICK U \in Sets : \A V \in Sets : ~ (<<V, U>> \in R)
  BY <1>1, <1>2, WFMin
<1>4. PICK x \in S : U = Above(x)
  BY <1>3
<1>5. ASSUME NEW y \in S PROVE y <= x
  <2> SUFFICES ASSUME y > x PROVE FALSE
    OBVIOUS
  <2>1. Above(y) \subseteq Above(x) /\ y \in Above(x) /\ y \notin Above(y)
    <3>1. \A z \in S : z > y => z > x
      <4> SUFFICES ASSUME NEW z \in S, z > y PROVE z > x
        OBVIOUS
      <4>1. x \in Nat /\ y \in Nat /\ z \in Nat
        OBVIOUS
      <4> QED
        BY <4>1
    <3>2. y \in Nat /\ ~ (y > y)
      OBVIOUS
    <3> QED
      BY <3>1, <3>2
  <2>2. <<Above(y), Above(x)>> \in R
    BY <1>2, <2>1 DEF R, StrictSubsetOrdering
  <2> QED
    BY <2>2, <1>3, <1>4
<1>6. \A y \in S : x >= y
  BY <1>5
<1>7. Max(S) \in S /\ \A y \in S : Max(S) >= y
  BY <1>6 DEF Max
<1> QED
  BY <1>7

\* The same for Largest, which is 0 for the empty set.
LEMMA LargestIsLargest ==
  ASSUME NEW S, S \subseteq Nat, IsFiniteSet(S)
  PROVE  /\ Largest(S) \in Nat
         /\ \A x \in S : x <= Largest(S)
         /\ S # {} => Largest(S) \in S
         /\ S = {} => Largest(S) = 0
BY MaxIsLargest DEF Largest
-----------------------------------------------------------------------------
(* The invariant *)

Serving == {"attempt", "extraction", "save", "dispatch"}   \* a request for a document

DocRow == [status : RowStatuses, version : Nat, current : BOOLEAN, raw : BOOLEAN]
ExtRow == [status : RowStatuses, doc : DocId \cup {NoDoc}, attempt : Nat, data : BOOLEAN]
ReqRow == [pc : Serving \cup {"idle", "clear", "create", "done", "aborted"}, raw : BOOLEAN,
           doc : DocId \cup {NoDoc}, ext : ExtId \cup {NoExt}, num : Nat, seen : RowStatuses]
HandRow == [at : {"idle", "load", "mark", "extract", "document", "return"}, seen : RowStatuses]

\* Tables and positions are typed.
Typed ==
  /\ stage \in [JobId -> Stages] /\ owner \in [JobId -> Worker \cup {NoOne}]
  /\ docs \in [DocId -> DocRow] /\ exts \in [ExtId -> ExtRow]
  /\ reqs \in [Request -> ReqRow] /\ hand \in [Worker -> HandRow]

\* A job is for an extraction; a worker has the one job that its handler runs.
Jobs ==
  /\ \A e \in ExtId : stage[e] # "none" => exts[e].status # "none"
  /\ \A e \in ExtId : owner[e] # NoOne => stage[e] = "processing"
  /\ \A e, f \in ExtId : owner[e] = owner[f] /\ owner[e] # NoOne => e = f
  /\ \A w \in Worker : hand[w].at # "idle" <=> \E e \in ExtId : owner[e] = w

\* An extraction is of a document that exists.
Rows == \A e \in ExtId : exts[e].status # "none" => exts[e].doc \in Docs

\* What a request knows at its position.
PlaceOK(r) ==
  /\ reqs[r].pc \in Serving => reqs[r].doc \in Docs
  /\ reqs[r].pc \in {"save", "dispatch"} =>
       /\ reqs[r].ext \in ExtId /\ exts[reqs[r].ext].status # "none"
       /\ exts[reqs[r].ext].doc = reqs[r].doc

Places == \A r \in Request : PlaceOK(r)

\* A handler past the answer of the AI service has its extraction completed.
Ready ==
  \A e \in ExtId, w \in Worker :
    owner[e] = w /\ hand[w].at \in {"document", "return"} =>
      exts[e].status = "completed" /\ exts[e].data = TRUE

\* A run that will write its document completed.
WillComplete(w) ==
  \/ hand[w].at = "load"
  \/ hand[w].at \in {"mark", "extract", "document"} /\ hand[w].seen # "completed"

Serves(r, d) == reqs[r].pc \in Serving \cup {"aborted"} /\ reqs[r].doc = d

\* A job that waits, or was struck, or whose run will complete its document.
Minded(e) ==
  \/ stage[e] \in {"pending", "failed"} \/ Orphan(e)
  \/ \E w \in Worker : owner[e] = w /\ WillComplete(w)

\* Each document in "processing" is tended by such a request or job.
Tended(d) ==
  \/ \E r \in Request : Serves(r, d)
  \/ \E e \in ExtId : exts[e].status # "none" /\ exts[e].doc = d /\ Minded(e)

Cared == \A d \in DocId : docs[d].status = "processing" => Tended(d)

\* The number of an upload was free when it was read, and no number below it is.
NumberOK(n) == n >= 1 /\ \A v \in 1..(n - 1) : \E c \in Docs : docs[c].version = v

Numbers ==
  /\ \A d \in Docs : NumberOK(docs[d].version)
  /\ \A r \in Request : reqs[r].pc \in {"clear", "create"} => NumberOK(reqs[r].num)

\* Unless versions clash, the current document is the newest, and none is
\* current when the newest is about to be inserted.
Latest ==
  DistinctVersions =>
    /\ \A d \in Current : \A c \in Docs : docs[c].version <= docs[d].version
    /\ \A r \in Request :
         reqs[r].pc = "create" /\ (\A c \in Docs : docs[c].version < reqs[r].num)
           => Current = {}

Care == Jobs /\ Rows /\ Places /\ Ready /\ CompletedHasData /\ Cared

IInv == Typed /\ Care /\ Numbers /\ Latest

-----------------------------------------------------------------------------
(* Frames *)

\* A step of one request that leaves queue and handlers alone: rows are added
\* or documents marked as processing.
LEMMA RequestKeeps ==
  ASSUME Typed, Care, Typed', NEW r \in Request,
         UNCHANGED <<stage, owner, hand>>,
         \A q \in Request : q # r => reqs'[q] = reqs[q],
         \A e \in ExtId : exts[e].status # "none" => exts'[e] = exts[e],
         \A e \in ExtId : exts[e].status = "none" /\ exts'[e].status # "none" => exts'[e].doc \in Docs,
         \A d \in DocId : docs[d].status # "none" =>
           /\ docs'[d].status \in {docs[d].status, "processing"} /\ docs'[d].raw = docs[d].raw,
         \A d \in DocId : docs[d].status = "none" /\ docs'[d].status = "completed" => docs'[d].raw,
         \A d \in DocId : docs'[d].status = "processing" =>
           docs[d].status = "processing" \/ Serves(r, d)',
         \A d \in DocId : Serves(r, d) => Serves(r, d)',
         PlaceOK(r)'
  PROVE  Care'
<1>1. /\ stage' = stage /\ owner' = owner /\ hand' = hand
      /\ \A e \in ExtId : stage[e] # "none" => exts'[e] = exts[e]
  BY DEF Care, Jobs
<1>2. Docs \subseteq Docs'
  BY DEF Docs, Typed
<1>3. Jobs'
  BY <1>1 DEF Care, Jobs
<1>4. Rows'
  BY <1>2 DEF Care, Rows, Docs
<1>5. Places'
  <2> SUFFICES ASSUME NEW q \in Request, q # r PROVE PlaceOK(q)'
    BY DEF Places
  <2>1. reqs'[q] = reqs[q] /\ PlaceOK(q)
    BY DEF Care, Places
  <2> QED
    BY <2>1, <1>2 DEF PlaceOK
<1>6. Ready'
  BY <1>1 DEF Care, Ready, Jobs, Typed
<1>7. CompletedHasData'
  <2>1. JobsHaveData'
    BY <1>1 DEF Care, CompletedHasData, JobsHaveData
  <2>2. ASSUME NEW d \in Docs', docs'[d].status = "completed", ~docs'[d].raw
        PROVE  \E e \in ExtsOf(d)' : exts'[e].data
    <3>1. d \in DocId /\ docs[d].status = "completed" /\ docs'[d].raw = docs[d].raw
      BY <2>2 DEF Docs
    <3>2. PICK e \in ExtsOf(d) : exts[e].data
      BY <2>2, <3>1 DEF Care, CompletedHasData, DocumentsHaveData, Docs
    <3>3. exts'[e] = exts[e]
      BY <3>2 DEF ExtsOf
    <3> QED
      BY <3>2, <3>3 DEF ExtsOf
  <2> QED
    BY <2>1, <2>2 DEF CompletedHasData, DocumentsHaveData
<1>8. Cared'
  <2> SUFFICES ASSUME NEW d \in DocId, docs'[d].status = "processing" PROVE Tended(d)'
    BY DEF Cared
  <2>1. CASE Serves(r, d)'
    BY <2>1 DEF Tended
  <2>2. CASE Tended(d)
    <3>1. ASSUME NEW q \in Request, Serves(q, d) PROVE Serves(q, d)'
      BY <3>1 DEF Serves
    <3>2. ASSUME NEW e \in ExtId, exts[e].status # "none", Minded(e) PROVE Minded(e)'
      BY <3>2, <1>1 DEF Minded, Orphan, WillComplete
    <3> QED
      BY <2>2, <3>1, <3>2 DEF Tended
  <2> QED
    BY <2>1, <2>2 DEF Care, Cared
<1> QED
  BY <1>3, <1>4, <1>5, <1>6, <1>7, <1>8 DEF Care

\* A step of the handler of w, or of the queue, for job e: it may write its
\* extraction and complete its document.
HandlerFrame(e, w) ==
  /\ reqs' = reqs
  /\ \A f \in ExtId : f # e => stage'[f] = stage[f] /\ owner'[f] = owner[f] /\ exts'[f] = exts[f]
  /\ \A v \in Worker : v # w => hand'[v] = hand[v] /\ owner[e] # v /\ owner'[e] # v
  /\ exts[e].status # "none" /\ exts'[e].status # "none" /\ exts'[e].doc = exts[e].doc
  /\ exts[e].data => exts'[e].data
  /\ \A d \in DocId : docs'[d].raw = docs[d].raw
  /\ \A d \in DocId : \/ docs'[d].status = docs[d].status
                      \/ /\ docs[d].status # "none" /\ docs'[d].status = "completed"
                         /\ d = exts[e].doc /\ exts'[e].data
  /\ owner'[e] = w /\ hand'[w].at \in {"document", "return"} =>
       exts'[e].status = "completed" /\ exts'[e].data = TRUE
  /\ stage'[e] = "completed" => exts'[e].status = "completed" /\ exts'[e].data
  /\ Minded(e) /\ docs[exts[e].doc].status = "processing" =>
       Minded(e)' \/ docs'[exts[e].doc].status = "completed"
  /\ \A f \in ExtId : owner[f] = w => f = e
  /\ \A f \in ExtId : owner'[f] = w => f = e

\* Such a step keeps what is cared for.
LEMMA HandlerKeeps ==
  ASSUME Typed, Care, Typed', Jobs', NEW e \in ExtId, NEW w \in Worker, HandlerFrame(e, w)
  PROVE  Care'
<1> USE DEF HandlerFrame
<1>1. Docs \subseteq Docs'
  BY DEF Docs
<1>2. Rows'
  <2> SUFFICES ASSUME NEW f \in ExtId, exts'[f].status # "none" PROVE exts'[f].doc \in Docs'
    BY DEF Rows
  <2> QED
    BY <1>1 DEF Care, Rows
<1>3. Places'
  <2> SUFFICES ASSUME NEW q \in Request PROVE PlaceOK(q)'
    BY DEF Places
  <2>1. reqs'[q] = reqs[q] /\ PlaceOK(q)
    BY DEF Care, Places
  <2>2. \A f \in ExtId : exts[f].status # "none" => exts'[f].status # "none" /\ exts'[f].doc = exts[f].doc
    OBVIOUS
  <2> QED
    BY <2>1, <2>2, <1>1 DEF PlaceOK
<1>4. Ready'
  <2> SUFFICES ASSUME NEW f \in ExtId, NEW v \in Worker, owner'[f] = v,
                      hand'[v].at \in {"document", "return"}
               PROVE  exts'[f].status = "completed" /\ exts'[f].data = TRUE
    BY DEF Ready
  <2>1. CASE f = e
    <3>1. v = w
      BY <2>1
    <3> QED
      BY <2>1, <3>1
  <2>2. CASE f # e
    <3>1. v # w /\ owner[f] = v /\ exts'[f] = exts[f] /\ hand'[v] = hand[v]
      BY <2>2
    <3> QED
      BY <3>1 DEF Care, Ready
  <2> QED
    BY <2>1, <2>2
<1>5. CompletedHasData'
  <2>1. JobsHaveData'
    <3> SUFFICES ASSUME NEW f \in ExtId, stage'[f] = "completed"
                 PROVE  exts'[f].status = "completed" /\ exts'[f].data
      BY DEF JobsHaveData
    <3> QED
      BY DEF Care, CompletedHasData, JobsHaveData
  <2>2. ASSUME NEW d \in Docs', docs'[d].status = "completed", ~docs'[d].raw
        PROVE  \E f \in ExtsOf(d)' : exts'[f].data
    <3>1. d \in DocId /\ docs'[d].raw = docs[d].raw
      BY <2>2 DEF Docs
    <3>2. CASE d = exts[e].doc /\ exts'[e].data
      BY <3>2 DEF ExtsOf
    <3>3. CASE docs'[d].status = docs[d].status
      <4>1. PICK f \in ExtsOf(d) : exts[f].data
        BY <2>2, <3>1, <3>3 DEF Care, CompletedHasData, DocumentsHaveData, Docs
      <4>2. f \in ExtsOf(d)' /\ exts'[f].data
        BY <4>1 DEF ExtsOf
      <4> QED
        BY <4>2
    <3> QED
      BY <3>1, <3>2, <3>3
  <2> QED
    BY <2>1, <2>2 DEF CompletedHasData, DocumentsHaveData
<1>6. Cared'
  <2> SUFFICES ASSUME NEW d \in DocId, docs'[d].status = "processing" PROVE Tended(d)'
    BY DEF Cared
  <2>1. docs[d].status = "processing" /\ Tended(d)
    BY DEF Care, Cared
  <2>2. ASSUME NEW q \in Request, Serves(q, d) PROVE Tended(d)'
    BY <2>2 DEF Serves, Tended
  <2>3. ASSUME NEW f \in ExtId, f # e, exts[f].status # "none", exts[f].doc = d, Minded(f)
        PROVE  Tended(d)'
    <3>1. stage'[f] = stage[f] /\ owner'[f] = owner[f] /\ exts'[f] = exts[f] /\ owner[f] # w
      BY <2>3
    <3>2. \A v \in Worker : owner[f] = v => hand'[v] = hand[v]
      BY <3>1
    <3>3. Minded(f)'
      BY <2>3, <3>1, <3>2 DEF Minded, Orphan, WillComplete
    <3> QED
      BY <2>3, <3>1, <3>3 DEF Tended
  <2>4. ASSUME exts[e].doc = d, Minded(e) PROVE Tended(d)'
    <3>1. Minded(e)'
      BY <2>1, <2>4
    <3> QED
      BY <2>4, <3>1 DEF Tended
  <2> QED
    BY <2>1, <2>2, <2>3, <2>4 DEF Tended
<1> QED
  BY <1>2, <1>3, <1>4, <1>5, <1>6 DEF Care
\* A step that keeps ids and versions, makes no document current and gives no
\* request a number that is not free.
LEMMA NumbersRest ==
  ASSUME Typed, Numbers, Latest,
         Docs' = Docs, Current' \subseteq Current,
         \A d \in Docs : docs'[d].version = docs[d].version,
         \A q \in Request : reqs'[q].pc \in {"clear", "create"} => NumberOK(reqs'[q].num),
         \A q \in Request : reqs'[q].pc = "create" =>
           (reqs[q].pc = "create" /\ reqs'[q].num = reqs[q].num) \/ Current' = {}
  PROVE  Numbers' /\ Latest'
<1>1. Docs' = Docs /\ Current' \subseteq Current
  OBVIOUS
<1>2. \A d \in Docs : docs'[d].version = docs[d].version
  OBVIOUS
<1>3. ASSUME NEW n, NumberOK(n)
      PROVE  n >= 1 /\ \A v \in 1..(n - 1) : \E c \in Docs' : docs'[c].version = v
  BY <1>1, <1>2, <1>3 DEF NumberOK
<1>4. Numbers'
  <2>1. ASSUME NEW d \in Docs', NEW n, n = docs'[d].version
        PROVE  n >= 1 /\ \A v \in 1..(n - 1) : \E c \in Docs' : docs'[c].version = v
    <3>1. NumberOK(n)
      BY <1>1, <1>2, <2>1 DEF Numbers
    <3> QED
      BY <1>3, <3>1
  <2>2. ASSUME NEW q \in Request, reqs'[q].pc \in {"clear", "create"}, NEW n, n = reqs'[q].num
        PROVE  n >= 1 /\ \A v \in 1..(n - 1) : \E c \in Docs' : docs'[c].version = v
    <3>1. NumberOK(n)
      BY <2>2
    <3> QED
      BY <1>3, <3>1
  <2> QED
    BY <2>1, <2>2 DEF Numbers, NumberOK
<1>5. Latest'
  <2> SUFFICES ASSUME DistinctVersions'
               PROVE  /\ \A d \in Current' : \A c \in Docs' : docs'[c].version <= docs'[d].version
                      /\ \A q \in Request :
                           reqs'[q].pc = "create" /\ (\A c \in Docs' : docs'[c].version < reqs'[q].num)
                             => Current' = {}
    BY DEF Latest
  <2>1. DistinctVersions
    BY <1>1, <1>2 DEF DistinctVersions
  <2>2. \A d \in Current' : \A c \in Docs' : docs'[c].version <= docs'[d].version
    BY <1>1, <1>2, <2>1 DEF Latest, Current
  <2>3. ASSUME NEW q \in Request, reqs'[q].pc = "create",
               \A c \in Docs' : docs'[c].version < reqs'[q].num
        PROVE  Current' = {}
    <3>1. CASE reqs[q].pc = "create" /\ reqs'[q].num = reqs[q].num
      <4>1. \A c \in Docs : docs[c].version < reqs[q].num
        BY <1>1, <1>2, <2>3, <3>1
      <4> QED
        BY <1>1, <2>1, <3>1, <4>1 DEF Latest
    <3> QED
      BY <2>3, <3>1
  <2> QED
    BY <2>2, <2>3
<1> QED
  BY <1>4, <1>5

\* The new version is one more than the largest, and free.
LEMMA NewVersionOK ==
  ASSUME Typed, Numbers
  PROVE  NewVersion \in Nat /\ NumberOK(NewVersion)
<1> DEFINE S == {docs[d].version : d \in Docs}
           f == [d \in Docs |-> docs[d].version]
<1>1. IsFiniteSet(Docs)
  BY PipelineAssumption, FS_Subset DEF Docs
<1>2. S \subseteq Nat
  BY DEF Typed, DocRow, Docs
<1>3. IsFiniteSet(S)
  <2>1. f \in Surjection(Docs, S)
    BY DEF Surjection
  <2> HIDE DEF f, S
  <2> QED
    BY <1>1, <2>1, FS_Surjection
<1>4. /\ Largest(S) \in Nat /\ \A x \in S : x <= Largest(S)
      /\ S # {} => Largest(S) \in S
      /\ S = {} => Largest(S) = 0
  <2> HIDE DEF S
  <2> QED
    BY <1>2, <1>3, LargestIsLargest
<1>5. NewVersion = Largest(S) + 1
  BY DEF NewVersion
<1>6. ASSUME NEW v \in 1..Largest(S) PROVE \E c \in Docs : docs[c].version = v
  <2>1. S # {}
    <3>1. Largest(S) >= 1
      BY <1>4, <1>6
    <3> QED
      BY <1>4, <3>1
  <2>2. PICK d \in Docs : docs[d].version = Largest(S)
    BY <1>4, <2>1
  <2>3. NumberOK(docs[d].version) /\ docs[d].version \in Nat
    BY <1>4, <2>2 DEF Numbers
  <2>4. v = docs[d].version \/ v \in 1..(docs[d].version - 1)
    BY <1>4, <1>6, <2>2
  <2> QED
    BY <2>2, <2>3, <2>4 DEF NumberOK
<1> HIDE DEF S
<1>7. NewVersion - 1 = Largest(S) /\ NewVersion >= 1 /\ NewVersion \in Nat
  BY <1>4, <1>5
<1> QED
  BY <1>6, <1>7 DEF NumberOK

\* The attempt of a retry is a number.
LEMMA NewAttemptTyped ==
  ASSUME Typed, NEW d \in DocId
  PROVE  NewAttempt(d) \in Nat
<1> DEFINE T == {exts[e].attempt : e \in ExtsOf(d)}
           f == [e \in ExtsOf(d) |-> exts[e].attempt]
<1>1. IsFiniteSet(ExtsOf(d))
  BY PipelineAssumption, FS_Subset DEF ExtsOf, ExtId
<1>2. T \subseteq Nat
  BY DEF Typed, ExtRow, ExtsOf
<1>3. f \in Surjection(ExtsOf(d), T)
  BY DEF Surjection
<1> HIDE DEF f, T
<1>4. IsFiniteSet(T)
  BY <1>1, <1>3, FS_Surjection
<1>5. IsFiniteSet(T \cup {1}) /\ {1} \cup T = T \cup {1}
  BY <1>4, FS_AddElement
<1>6. {1} \cup T \subseteq Nat
  BY <1>2
<1>7. Largest({1} \cup T) \in Nat
  BY <1>5, <1>6, LargestIsLargest
<1> QED
  BY <1>7 DEF NewAttempt, T
-----------------------------------------------------------------------------
(* Requests *)

\* A request replaces its row by one of the right form.
LEMMA RequestRow ==
  ASSUME Typed, NEW r \in Request, NEW row \in ReqRow, reqs' = [reqs EXCEPT ![r] = row]
  PROVE  /\ reqs' \in [Request -> ReqRow] /\ reqs'[r] = row
         /\ \A q \in Request : q # r => reqs'[q] = reqs[q]
BY DEF Typed

\* A step of a request that reads, and changes nothing else.
LEMMA ReadKeeps ==
  ASSUME IInv, NEW r \in Request, UNCHANGED <<stage, owner, hand, docs, exts>>,
         reqs' \in [Request -> ReqRow],
         \A q \in Request : q # r => reqs'[q] = reqs[q],
         \A d \in DocId : Serves(r, d) => Serves(r, d)',
         PlaceOK(r)', reqs'[r].pc # "create",
         reqs'[r].pc = "clear" => NumberOK(reqs'[r].num)
  PROVE  IInv'
<1>1. Typed'
  BY DEF IInv, Typed
<1>2. Care'
  <2>1. \A d \in DocId : docs'[d].status \in {docs[d].status, "processing"} /\ docs'[d].raw = docs[d].raw
    OBVIOUS
  <2>2. UNCHANGED <<stage, owner, hand>>
    OBVIOUS
  <2> QED
    BY <1>1, <2>1, <2>2, RequestKeeps DEF IInv
<1>3. Docs' = Docs /\ Current' = Current
  BY DEF Docs, Current
<1>4. Numbers' /\ Latest'
  <2>1. \A q \in Request : reqs'[q].pc \in {"clear", "create"} => NumberOK(reqs'[q].num)
    BY DEF IInv, Numbers
  <2>2. \A q \in Request : reqs'[q].pc = "create" => reqs[q].pc = "create" /\ reqs'[q].num = reqs[q].num
    OBVIOUS
  <2> QED
    BY <1>3, <2>1, <2>2, NumbersRest DEF IInv
<1> QED
  BY <1>1, <1>2, <1>4 DEF IInv

\* An upload reads the highest version.
LEMMA ReadVersionStep ==
  ASSUME IInv, NEW r \in Request, NEW raw \in BOOLEAN, ReadVersion(r, raw) PROVE IInv'
<1>1. PICK n \in Nat : n = NewVersion /\ NumberOK(n)
  BY NewVersionOK DEF IInv
<1>2. reqs[r] \in ReqRow
  BY DEF IInv, Typed
<1>3. PICK row \in ReqRow : row = [reqs[r] EXCEPT !.pc = "clear", !.raw = raw, !.num = n]
  BY <1>1, <1>2 DEF ReqRow
<1>4. reqs' = [reqs EXCEPT ![r] = row] /\ row.pc = "clear" /\ row.num = n
  BY <1>1, <1>2, <1>3 DEF ReadVersion, ReqRow
<1>5. /\ reqs' \in [Request -> ReqRow] /\ reqs'[r] = row
      /\ \A q \in Request : q # r => reqs'[q] = reqs[q]
  BY <1>4, RequestRow DEF IInv
<1>6. PlaceOK(r)' /\ \A d \in DocId : ~Serves(r, d)
  BY <1>4, <1>5 DEF PlaceOK, Serves, Serving, ReadVersion
<1> QED
  BY <1>1, <1>4, <1>5, <1>6, ReadKeeps DEF ReadVersion, queue

\* A retry loads its document.
LEMMA LoadForRetryStep ==
  ASSUME IInv, NEW r \in Request, NEW d \in DocId, LoadForRetry(r, d) PROVE IInv'
<1>1. PICK seen \in RowStatuses : seen = docs[d].status
  BY DEF IInv, Typed, DocRow
<1>2. reqs[r] \in ReqRow
  BY DEF IInv, Typed
<1>3. PICK row \in ReqRow : row = [reqs[r] EXCEPT !.pc = "attempt", !.doc = d, !.seen = seen]
  BY <1>2 DEF ReqRow, Serving
<1>4. reqs' = [reqs EXCEPT ![r] = row] /\ row.pc = "attempt" /\ row.doc = d
  BY <1>1, <1>2, <1>3 DEF LoadForRetry, ReqRow
<1>5. /\ reqs' \in [Request -> ReqRow] /\ reqs'[r] = row
      /\ \A q \in Request : q # r => reqs'[q] = reqs[q]
  BY <1>4, RequestRow DEF IInv
<1>6. \A c \in DocId : ~Serves(r, c)
  BY DEF Serves, Serving, LoadForRetry
<1>7. PlaceOK(r)'
  BY <1>4, <1>5 DEF PlaceOK, LoadForRetry, Docs
<1> QED
  BY <1>4, <1>5, <1>6, <1>7, ReadKeeps DEF LoadForRetry, queue

\* A retry reads the highest attempt.
LEMMA ReadAttemptStep == ASSUME IInv, NEW r \in Request, ReadAttempt(r) PROVE IInv'
<1>1. reqs[r] \in ReqRow /\ reqs[r].pc = "attempt" /\ reqs[r].doc \in Docs
  BY DEF IInv, Typed, Care, Places, PlaceOK, Serving, ReadAttempt
<1>2. PICK n \in Nat : n = NewAttempt(reqs[r].doc)
  BY <1>1, NewAttemptTyped DEF IInv, Docs
<1>3. PICK row \in ReqRow : row = [reqs[r] EXCEPT !.pc = "extraction", !.num = n]
  BY <1>1 DEF ReqRow, Serving
<1>4. reqs' = [reqs EXCEPT ![r] = row] /\ row.pc = "extraction" /\ row.doc = reqs[r].doc
  BY <1>1, <1>2, <1>3 DEF ReadAttempt, ReqRow
<1>5. /\ reqs' \in [Request -> ReqRow] /\ reqs'[r] = row
      /\ \A q \in Request : q # r => reqs'[q] = reqs[q]
  BY <1>4, RequestRow DEF IInv
<1>6. PlaceOK(r)' /\ \A d \in DocId : Serves(r, d) => Serves(r, d)'
  BY <1>1, <1>4, <1>5 DEF PlaceOK, Serves, Serving, ReadAttempt, Docs
<1> QED
  BY <1>4, <1>5, <1>6, ReadKeeps DEF ReadAttempt, queue

\* A request aborts.
LEMMA AbortStep == ASSUME IInv, NEW r \in Request, RequestAborts(r) PROVE IInv'
<1>1. reqs[r] \in ReqRow
  BY DEF IInv, Typed
<1>2. PICK row \in ReqRow : row = [reqs[r] EXCEPT !.pc = "aborted"]
  BY <1>1 DEF ReqRow
<1>3. reqs' = [reqs EXCEPT ![r] = row] /\ row.pc = "aborted" /\ row.doc = reqs[r].doc
  BY <1>1, <1>2 DEF RequestAborts, ReqRow
<1>4. /\ reqs' \in [Request -> ReqRow] /\ reqs'[r] = row
      /\ \A q \in Request : q # r => reqs'[q] = reqs[q]
  BY <1>3, RequestRow DEF IInv
<1>5. PlaceOK(r)' /\ \A d \in DocId : Serves(r, d) => Serves(r, d)'
  BY <1>3, <1>4 DEF PlaceOK, Serves, Serving
<1> QED
  BY <1>3, <1>4, <1>5, ReadKeeps DEF RequestAborts, queue

\* An upload clears the current mark of the other documents.
LEMMA ClearCurrentStep == ASSUME IInv, NEW r \in Request, ClearCurrent(r) PROVE IInv'
<1>1. reqs[r] \in ReqRow /\ reqs[r].pc = "clear"
  BY DEF IInv, Typed, ClearCurrent
<1>2. PICK row \in ReqRow : row = [reqs[r] EXCEPT !.pc = "create"]
  BY <1>1 DEF ReqRow
<1>3. reqs' = [reqs EXCEPT ![r] = row] /\ row.pc = "create" /\ row.num = reqs[r].num
  BY <1>1, <1>2 DEF ClearCurrent, ReqRow
<1>4. /\ reqs' \in [Request -> ReqRow] /\ reqs'[r] = row
      /\ \A q \in Request : q # r => reqs'[q] = reqs[q]
  BY <1>3, RequestRow DEF IInv
<1>5. \A d \in DocId : docs[d] \in DocRow /\ docs'[d] = [docs[d] EXCEPT !.current = FALSE]
  BY DEF IInv, Typed, ClearCurrent, Cleared
<1>6. \A d \in DocId : /\ docs'[d] \in DocRow
                       /\ docs'[d].status = docs[d].status /\ docs'[d].version = docs[d].version
                       /\ docs'[d].raw = docs[d].raw /\ docs'[d].current = FALSE
  BY <1>5 DEF DocRow
<1>7. Typed'
  <2>1. docs' \in [DocId -> DocRow]
    BY <1>6 DEF ClearCurrent
  <2> QED
    BY <1>4, <2>1 DEF IInv, Typed, ClearCurrent, queue
<1>8. Care'
  <2>1. PlaceOK(r)' /\ \A d \in DocId : ~Serves(r, d)
    BY <1>1, <1>3, <1>4 DEF PlaceOK, Serves, Serving
  <2>2. UNCHANGED <<stage, owner, hand>> /\ exts' = exts
    BY DEF ClearCurrent, queue
  <2> QED
    BY <1>4, <1>6, <1>7, <2>1, <2>2, RequestKeeps DEF IInv
<1>9. Docs' = Docs
  BY <1>6 DEF Docs
<1>10. Current' = {}
  BY <1>6 DEF Current, Docs
<1>11. \A d \in Docs : docs'[d].version = docs[d].version
  BY <1>6 DEF Docs
<1>12. \A q \in Request : reqs'[q].pc \in {"clear", "create"} => NumberOK(reqs'[q].num)
  BY <1>1, <1>3, <1>4 DEF IInv, Numbers
<1>13. Numbers' /\ Latest'
  BY <1>9, <1>10, <1>11, <1>12, NumbersRest DEF IInv
<1> QED
  BY <1>7, <1>8, <1>13 DEF IInv
\* What an insert of a document changes.
LEMMA CreateDocumentShape ==
  ASSUME IInv, NEW r \in Request, NEW d \in DocId, CreateDocument(r, d)
  PROVE  /\ Typed' /\ d \notin Docs
         /\ reqs[r].pc = "create" /\ reqs'[r].pc \in {"done", "extraction"} /\ reqs'[r].doc = d
         /\ docs'[d].version = reqs[r].num /\ docs'[d].current
         /\ \/ docs'[d].status = "completed" /\ docs'[d].raw
            \/ docs'[d].status = "processing" /\ reqs'[r].pc = "extraction"
         /\ \A c \in DocId : c # d => docs'[c] = docs[c]
         /\ \A q \in Request : q # r => reqs'[q] = reqs[q]
         /\ UNCHANGED <<stage, owner, hand, exts>>
<1>1. reqs[r] \in ReqRow /\ reqs[r].pc = "create" /\ d \notin Docs
  BY DEF IInv, Typed, CreateDocument, NextDoc
<1>2. PICK raw \in BOOLEAN : raw = reqs[r].raw
  BY <1>1 DEF ReqRow
<1>3. PICK n \in Nat : n = reqs[r].num
  BY <1>1 DEF ReqRow
<1>4. PICK st \in {"completed", "processing"} : st = IF raw THEN "completed" ELSE "processing"
  OBVIOUS
<1>5. PICK pc \in {"done", "extraction"} : pc = IF raw THEN "done" ELSE "extraction"
  OBVIOUS
<1>6. PICK new \in DocRow : new = [status |-> st, version |-> n, current |-> TRUE, raw |-> raw]
  BY <1>2, <1>3, <1>4 DEF DocRow, RowStatuses
<1>7. docs' = [docs EXCEPT ![d] = new]
  BY <1>2, <1>3, <1>4, <1>6 DEF CreateDocument
<1>8. PICK row \in ReqRow : row = [reqs[r] EXCEPT !.pc = pc, !.doc = d, !.num = 1]
  BY <1>1, <1>5 DEF ReqRow, Serving
<1>9. reqs' = [reqs EXCEPT ![r] = row] /\ row.pc = pc /\ row.doc = d
  <2>1. reqs' = [reqs EXCEPT ![r] = [reqs[r] EXCEPT !.pc = pc, !.doc = d, !.num = 1]]
    BY <1>1, <1>2, <1>5 DEF CreateDocument
  <2>2. row.pc = pc /\ row.doc = d
    BY <1>1, <1>8 DEF ReqRow
  <2> QED
    BY <1>8, <2>1, <2>2
<1>10. /\ reqs' \in [Request -> ReqRow] /\ reqs'[r] = row
       /\ \A q \in Request : q # r => reqs'[q] = reqs[q]
  BY <1>9, RequestRow DEF IInv
<1>11. /\ docs' \in [DocId -> DocRow] /\ docs'[d] = new
       /\ \A c \in DocId : c # d => docs'[c] = docs[c]
  BY <1>7 DEF IInv, Typed
<1>12. UNCHANGED <<stage, owner, hand, exts>>
  BY DEF CreateDocument, queue
<1>13. Typed'
  BY <1>10, <1>11, <1>12 DEF IInv, Typed
<1>14. \/ docs'[d].status = "completed" /\ docs'[d].raw
       \/ docs'[d].status = "processing" /\ reqs'[r].pc = "extraction"
  BY <1>4, <1>5, <1>6, <1>9, <1>10, <1>11
<1>15. docs'[d].current /\ docs'[d].version = reqs[r].num
  BY <1>3, <1>6, <1>11
<1> QED
  BY <1>1, <1>5, <1>9, <1>10, <1>11, <1>12, <1>13, <1>14, <1>15

\* An upload inserts its document.  It is the newest, unless its number was
\* taken meanwhile and versions clash.
LEMMA CreateDocumentStep ==
  ASSUME IInv, NEW r \in Request, NEW d \in DocId, CreateDocument(r, d) PROVE IInv'
<1>1. /\ Typed' /\ d \notin Docs
      /\ reqs[r].pc = "create" /\ reqs'[r].pc \in {"done", "extraction"} /\ reqs'[r].doc = d
      /\ docs'[d].version = reqs[r].num /\ docs'[d].current
      /\ \A c \in DocId : c # d => docs'[c] = docs[c]
      /\ \A q \in Request : q # r => reqs'[q] = reqs[q]
      /\ UNCHANGED <<stage, owner, hand, exts>>
  BY CreateDocumentShape
<1>2. \/ docs'[d].status = "completed" /\ docs'[d].raw
      \/ docs'[d].status = "processing" /\ reqs'[r].pc = "extraction"
  BY CreateDocumentShape
<1>3. Docs' = Docs \cup {d} /\ docs[d].status = "none"
  BY <1>1, <1>2 DEF Docs
<1>4. PICK n \in Nat : n = reqs[r].num /\ NumberOK(n)
  <2>1. reqs[r].num \in Nat
    BY DEF IInv, Typed, ReqRow
  <2> QED
    BY <2>1, <1>1 DEF IInv, Numbers
<1>5. \A c \in Docs : c # d /\ docs'[c] = docs[c] /\ docs[c].version \in Nat
  BY <1>1 DEF Docs, IInv, Typed, DocRow
<1>6. Care'
  <2>1. PlaceOK(r)'
    BY <1>1, <1>3 DEF PlaceOK
  <2>2. \A c \in DocId : ~Serves(r, c)
    BY <1>1 DEF Serves, Serving
  <2>3. \A c \in DocId : docs'[c].status = "processing" => docs[c].status = "processing" \/ Serves(r, c)'
    BY <1>1, <1>2 DEF Serves, Serving
  <2>4. \A c \in DocId : docs[c].status # "none" => docs'[c] = docs[c]
    BY <1>1, <1>3
  <2>5. \A c \in DocId : docs[c].status # "none" =>
          docs'[c].status \in {docs[c].status, "processing"} /\ docs'[c].raw = docs[c].raw
    BY <2>4
  <2>6. \A c \in DocId : docs[c].status = "none" /\ docs'[c].status = "completed" => docs'[c].raw
    BY <1>1, <1>2
  <2>7. UNCHANGED <<stage, owner, hand>> /\ exts' = exts
    BY <1>1
  <2> QED
    BY <1>1, <2>1, <2>2, <2>3, <2>5, <2>6, <2>7, RequestKeeps DEF IInv
<1>7. ASSUME NEW m, NumberOK(m)
      PROVE  m >= 1 /\ \A v \in 1..(m - 1) : \E c \in Docs' : docs'[c].version = v
  BY <1>3, <1>5, <1>7 DEF NumberOK
<1>8. Numbers'
  <2>1. ASSUME NEW c \in Docs', NEW m, m = docs'[c].version PROVE NumberOK(m)
    <3>1. CASE c = d
      BY <1>1, <1>4, <2>1, <3>1
    <3>2. CASE c # d
      BY <1>3, <1>5, <2>1, <3>2 DEF IInv, Numbers
    <3> QED
      BY <3>1, <3>2
  <2>2. ASSUME NEW q \in Request, reqs'[q].pc \in {"clear", "create"}, NEW m, m = reqs'[q].num
        PROVE  NumberOK(m)
    BY <1>1, <2>2 DEF IInv, Numbers
  <2> QED
    BY <1>7, <2>1, <2>2 DEF Numbers, NumberOK
<1>9. ASSUME DistinctVersions' PROVE \A c \in Docs : docs[c].version < n
  <2> SUFFICES ASSUME NEW c \in Docs, docs[c].version >= n PROVE FALSE
    BY <1>5
  <2>1. PICK k \in Nat : k = docs[c].version /\ NumberOK(k)
    BY <1>5 DEF IInv, Numbers
  <2>2. n >= 1
    BY <1>4 DEF NumberOK
  <2>3. n = k \/ n \in 1..(k - 1)
    BY <2>1, <2>2
  <2>4. \E b \in Docs : docs[b].version = n
    BY <2>1, <2>3 DEF NumberOK
  <2>5. PICK b \in Docs : docs[b].version = n
    BY <2>4
  <2>6. docs'[b].version = docs'[d].version /\ b # d /\ b \in Docs' /\ d \in Docs'
    BY <1>1, <1>3, <1>4, <1>5, <2>5
  <2> QED
    BY <1>9, <2>6 DEF DistinctVersions
<1>10. ASSUME DistinctVersions' PROVE DistinctVersions /\ Current = {}
  <2>1. DistinctVersions
    BY <1>3, <1>5, <1>10 DEF DistinctVersions
  <2> QED
    BY <1>1, <1>4, <1>9, <1>10, <2>1 DEF IInv, Latest
<1>11. Latest'
  <2> SUFFICES ASSUME DistinctVersions'
               PROVE  /\ \A c \in Current' : \A b \in Docs' : docs'[b].version <= docs'[c].version
                      /\ \A q \in Request :
                           reqs'[q].pc = "create" /\ (\A c \in Docs' : docs'[c].version < reqs'[q].num)
                             => Current' = {}
    BY DEF Latest
  <2>1. ASSUME NEW c \in Current' PROVE c = d
    <3>1. c \in Docs' /\ docs'[c].current
      BY <2>1 DEF Current
    <3>2. CASE c \in Docs
      <4>1. docs'[c] = docs[c]
        BY <1>5, <3>2
      <4>2. c \in Current
        BY <3>1, <3>2, <4>1 DEF Current
      <4> QED
        BY <1>10, <4>2
    <3> QED
      BY <1>3, <3>1, <3>2
  <2>2. \A b \in Docs' : docs'[b].version <= n
    BY <1>1, <1>3, <1>4, <1>5, <1>9
  <2>3. \A c \in Current' : \A b \in Docs' : docs'[b].version <= docs'[c].version
    BY <1>1, <1>4, <2>1, <2>2
  <2>4. ASSUME NEW q \in Request, reqs'[q].pc = "create",
               \A c \in Docs' : docs'[c].version < reqs'[q].num
        PROVE  FALSE
    <3>1. PICK m \in Nat : m = reqs[q].num /\ NumberOK(m) /\ m = reqs'[q].num
      <4>1. reqs'[q] = reqs[q] /\ reqs[q].num \in Nat
        BY <1>1, <2>4 DEF IInv, Typed, ReqRow
      <4> QED
        BY <2>4, <4>1 DEF IInv, Numbers
    <3>2. n < m /\ n >= 1
      BY <1>1, <1>3, <1>4, <2>4, <3>1 DEF NumberOK
    <3>3. n \in 1..(m - 1)
      BY <3>2
    <3>4. PICK b \in Docs : docs[b].version = n
      BY <3>1, <3>3 DEF NumberOK
    <3> QED
      BY <1>9, <3>4
  <2> QED
    BY <2>3, <2>4
<1> QED
  BY <1>1, <1>6, <1>8, <1>11 DEF IInv
\* An extraction row is inserted.
LEMMA CreateExtractionStep ==
  ASSUME IInv, NEW r \in Request, NEW e \in ExtId, CreateExtraction(r, e) PROVE IInv'
<1>1. /\ reqs[r] \in ReqRow /\ reqs[r].pc = "extraction" /\ exts[e].status = "none"
      /\ reqs[r].doc \in Docs
  BY DEF IInv, Typed, Care, Places, PlaceOK, Serving, CreateExtraction, NextExt
<1>2. PICK d \in DocId, n \in Nat : d = reqs[r].doc /\ n = reqs[r].num
  BY <1>1 DEF ReqRow, Docs
<1>3. PICK pc \in {"save", "dispatch"} : pc = IF IsRetry(r) THEN "save" ELSE "dispatch"
  OBVIOUS
<1>4. PICK new \in ExtRow : new = [status |-> "pending", doc |-> d, attempt |-> n, data |-> FALSE]
  BY <1>2 DEF ExtRow, RowStatuses
<1>5. exts' = [exts EXCEPT ![e] = new] /\ new.status = "pending" /\ new.doc = d
  BY <1>2, <1>4 DEF CreateExtraction
<1>6. PICK row \in ReqRow : row = [reqs[r] EXCEPT !.pc = pc, !.ext = e]
  BY <1>1, <1>3 DEF ReqRow, Serving
<1>7. reqs' = [reqs EXCEPT ![r] = row] /\ row.pc = pc /\ row.doc = d /\ row.ext = e
  <2>1. reqs' = [reqs EXCEPT ![r] = [reqs[r] EXCEPT !.pc = pc, !.ext = e]]
    BY <1>3 DEF CreateExtraction
  <2>2. row.pc = pc /\ row.doc = d /\ row.ext = e
    BY <1>1, <1>2, <1>6 DEF ReqRow
  <2> QED
    BY <1>6, <2>1, <2>2
<1>8. /\ reqs' \in [Request -> ReqRow] /\ reqs'[r] = row
      /\ \A q \in Request : q # r => reqs'[q] = reqs[q]
  BY <1>7, RequestRow DEF IInv
<1>9. /\ exts' \in [ExtId -> ExtRow] /\ exts'[e] = new
      /\ \A f \in ExtId : f # e => exts'[f] = exts[f]
  BY <1>5 DEF IInv, Typed
<1>10. UNCHANGED <<stage, owner, hand>> /\ docs' = docs
  BY DEF CreateExtraction, queue
<1>11. Typed'
  BY <1>8, <1>9, <1>10 DEF IInv, Typed
<1>12. PlaceOK(r)'
  BY <1>1, <1>2, <1>5, <1>7, <1>8, <1>9, <1>10 DEF PlaceOK, Docs
<1>13. \A c \in DocId : Serves(r, c) => Serves(r, c)'
  BY <1>1, <1>2, <1>7, <1>8 DEF Serves, Serving
<1>14. \A f \in ExtId : exts[f].status # "none" => exts'[f] = exts[f]
  BY <1>1, <1>9
<1>15. \A f \in ExtId : exts[f].status = "none" /\ exts'[f].status # "none" => exts'[f].doc \in Docs
  BY <1>1, <1>2, <1>5, <1>9
<1>16. \A c \in DocId : docs'[c].status \in {docs[c].status, "processing"} /\ docs'[c].raw = docs[c].raw
  BY <1>10
<1>17. Care'
  BY <1>8, <1>10, <1>11, <1>12, <1>13, <1>14, <1>15, <1>16, RequestKeeps DEF IInv
<1>18. Numbers' /\ Latest'
  <2>1. Docs' = Docs /\ Current' = Current
    BY <1>10 DEF Docs, Current
  <2>2. \A q \in Request : reqs'[q].pc \in {"clear", "create"} => reqs'[q] = reqs[q]
    BY <1>7, <1>8
  <2>3. \A q \in Request : reqs'[q].pc \in {"clear", "create"} => NumberOK(reqs'[q].num)
    BY <2>2 DEF IInv, Numbers
  <2>4. \A d2 \in Docs : docs'[d2].version = docs[d2].version
    BY <1>10
  <2> QED
    BY <2>1, <2>2, <2>3, <2>4, NumbersRest DEF IInv
<1> QED
  BY <1>11, <1>17, <1>18 DEF IInv

\* A retry marks its document.
LEMMA SaveProcessingStep == ASSUME IInv, NEW r \in Request, SaveProcessing(r) PROVE IInv'
<1>1. /\ reqs[r] \in ReqRow /\ reqs[r].pc = "save" /\ reqs[r].doc \in Docs
      /\ reqs[r].ext \in ExtId /\ exts[reqs[r].ext].status # "none"
      /\ exts[reqs[r].ext].doc = reqs[r].doc
  BY DEF IInv, Typed, Care, Places, PlaceOK, Serving, SaveProcessing
<1>2. PICK d \in DocId : d = reqs[r].doc /\ docs[d] \in DocRow /\ docs[d].status # "none"
  BY <1>1 DEF Docs, IInv, Typed
<1>3. PICK row \in ReqRow : row = [reqs[r] EXCEPT !.pc = "dispatch"]
  BY <1>1 DEF ReqRow, Serving
<1>4. reqs' = [reqs EXCEPT ![r] = row] /\ row.pc = "dispatch" /\ row.doc = d /\ row.ext = reqs[r].ext
  BY <1>1, <1>2, <1>3 DEF SaveProcessing, ReqRow
<1>5. /\ reqs' \in [Request -> ReqRow] /\ reqs'[r] = row
      /\ \A q \in Request : q # r => reqs'[q] = reqs[q]
  BY <1>4, RequestRow DEF IInv
<1>6. PICK new \in DocRow : new = [docs[d] EXCEPT !.status = "processing"]
  BY <1>2 DEF DocRow, RowStatuses
<1>7. new.status = "processing" /\ new.version = docs[d].version /\ new.current = docs[d].current
      /\ new.raw = docs[d].raw
  BY <1>2, <1>6 DEF DocRow
<1>8. docs' = docs \/ docs' = [docs EXCEPT ![d] = new]
  BY <1>2, <1>6 DEF SaveProcessing
<1>9. /\ docs' \in [DocId -> DocRow]
      /\ \A c \in DocId : docs'[c] = docs[c] \/ (c = d /\ docs'[c] = new)
  BY <1>8 DEF IInv, Typed
<1>10. UNCHANGED <<stage, owner, hand>> /\ exts' = exts
  BY DEF SaveProcessing, queue
<1>11. Typed'
  BY <1>5, <1>9, <1>10 DEF IInv, Typed
<1>12. \A c \in DocId : /\ docs'[c].status # "none" <=> docs[c].status # "none"
                        /\ docs'[c].version = docs[c].version
                        /\ docs'[c].status \in {docs[c].status, "processing"}
                        /\ docs'[c].status # docs[c].status => c = d
  BY <1>2, <1>7, <1>9
<1>19. \A c \in DocId : docs'[c].current = docs[c].current
  BY <1>7, <1>9
<1>13. Docs' = Docs
  BY <1>12 DEF Docs
<1>18. \A c \in DocId : docs[c].status # "none" =>
         docs'[c].status \in {docs[c].status, "processing"} /\ docs'[c].raw = docs[c].raw
  BY <1>2, <1>7, <1>9
<1>14. PlaceOK(r)'
  BY <1>1, <1>2, <1>4, <1>5, <1>10, <1>13 DEF PlaceOK
<1>15. Serves(r, d)' /\ \A c \in DocId : Serves(r, c) => Serves(r, c)'
  BY <1>1, <1>2, <1>4, <1>5 DEF Serves, Serving
<1>16. Care'
  <2>1. \A c \in DocId : docs'[c].status = "processing" => docs[c].status = "processing" \/ Serves(r, c)'
    BY <1>12, <1>15
  <2>2. \A c \in DocId : docs[c].status = "none" /\ docs'[c].status = "completed" => docs'[c].raw
    BY <1>12
  <2> QED
    BY <1>5, <1>10, <1>11, <1>14, <1>15, <1>18, <2>1, <2>2, RequestKeeps DEF IInv
<1>17. Numbers' /\ Latest'
  <2>1. Current' = Current
    BY <1>19, <1>13 DEF Current, Docs
  <2>2. \A q \in Request : reqs'[q].pc \in {"clear", "create"} => reqs'[q] = reqs[q]
    BY <1>4, <1>5
  <2>3. \A q \in Request : reqs'[q].pc \in {"clear", "create"} => NumberOK(reqs'[q].num)
    BY <2>2 DEF IInv, Numbers
  <2>4. \A c \in Docs : docs'[c].version = docs[c].version
    BY <1>12 DEF Docs
  <2> QED
    BY <1>13, <2>1, <2>2, <2>3, <2>4, NumbersRest DEF IInv
<1> QED
  BY <1>11, <1>16, <1>17 DEF IInv

\* The job is dispatched: it tends the document from now on.
LEMMA DispatchStep == ASSUME IInv, NEW r \in Request, DispatchParsing(r) PROVE IInv'
<1>1. /\ reqs[r] \in ReqRow /\ reqs[r].pc = "dispatch" /\ reqs[r].doc \in Docs
      /\ reqs[r].ext \in ExtId /\ exts[reqs[r].ext].status # "none"
      /\ exts[reqs[r].ext].doc = reqs[r].doc
  BY DEF IInv, Typed, Care, Places, PlaceOK, Serving, DispatchParsing
<1>2. PICK e \in ExtId : e = reqs[r].ext
  BY <1>1
<1>3. PICK row \in ReqRow : row = [reqs[r] EXCEPT !.pc = "done"]
  BY <1>1 DEF ReqRow
<1>4. reqs' = [reqs EXCEPT ![r] = row] /\ row.pc = "done"
  BY <1>1, <1>3 DEF DispatchParsing, ReqRow
<1>5. /\ reqs' \in [Request -> ReqRow] /\ reqs'[r] = row
      /\ \A q \in Request : q # r => reqs'[q] = reqs[q]
  BY <1>4, RequestRow DEF IInv
<1>6. /\ stage[e] = "none" /\ stage' = [stage EXCEPT ![e] = "pending"]
      /\ owner' = owner /\ docs' = docs /\ exts' = exts /\ hand' = hand
  BY <1>2 DEF DispatchParsing, Submit
<1>7. /\ stage' \in [JobId -> Stages] /\ stage'[e] = "pending"
      /\ \A f \in ExtId : f # e => stage'[f] = stage[f]
  BY <1>6 DEF IInv, Typed, Stages, ExtId
<1>8. Typed'
  BY <1>5, <1>6, <1>7 DEF IInv, Typed
<1>9. Docs' = Docs
  BY <1>6 DEF Docs
<1>10. Jobs'
  BY <1>1, <1>2, <1>6, <1>7 DEF IInv, Care, Jobs
<1>11. Rows'
  BY <1>6, <1>9 DEF IInv, Care, Rows
<1>12. Places'
  <2> SUFFICES ASSUME NEW q \in Request PROVE PlaceOK(q)'
    BY DEF Places
  <2>1. CASE q = r
    BY <2>1, <1>4, <1>5 DEF PlaceOK, Serving
  <2>2. CASE q # r
    <3>1. reqs'[q] = reqs[q] /\ PlaceOK(q)
      BY <2>2, <1>5 DEF IInv, Care, Places
    <3> QED
      BY <3>1, <1>6, <1>9 DEF PlaceOK
  <2> QED
    BY <2>1, <2>2
<1>13. Ready'
  BY <1>6 DEF IInv, Care, Ready
<1>14. CompletedHasData'
  <2>1. JobsHaveData'
    BY <1>6, <1>7 DEF IInv, Care, CompletedHasData, JobsHaveData
  <2>2. DocumentsHaveData'
    BY <1>6 DEF IInv, Care, CompletedHasData, DocumentsHaveData, Docs, ExtsOf
  <2> QED
    BY <2>1, <2>2 DEF CompletedHasData
<1>15. Cared'
  <2> SUFFICES ASSUME NEW d \in DocId, docs[d].status = "processing" PROVE Tended(d)'
    BY <1>6 DEF Cared
  <2>1. ASSUME NEW f \in ExtId, exts[f].status # "none", exts[f].doc = d, Minded(f) PROVE Tended(d)'
    <3>1. Minded(f)'
      <4>1. CASE f = e
        BY <4>1, <1>7 DEF Minded
      <4>2. CASE f # e
        BY <4>2, <2>1, <1>6, <1>7 DEF Minded, Orphan, WillComplete
      <4> QED
        BY <4>1, <4>2
    <3> QED
      BY <2>1, <3>1, <1>6 DEF Tended
  <2>2. ASSUME NEW q \in Request, q # r, Serves(q, d) PROVE Tended(d)'
    BY <2>2, <1>5 DEF Serves, Tended
  <2>3. ASSUME Serves(r, d) PROVE Tended(d)'
    <3>1. exts[e].doc = d /\ exts[e].status # "none"
      BY <2>3, <1>1, <1>2 DEF Serves
    <3>2. Minded(e)'
      BY <1>7 DEF Minded
    <3> QED
      BY <3>1, <3>2, <1>6 DEF Tended
  <2> QED
    BY <2>1, <2>2, <2>3 DEF IInv, Care, Cared, Tended
<1>16. Numbers' /\ Latest'
  <2>1. Current' = Current
    BY <1>6 DEF Current, Docs
  <2>2. \A q \in Request : reqs'[q].pc \in {"clear", "create"} => reqs'[q] = reqs[q]
    BY <1>4, <1>5
  <2>3. \A q \in Request : reqs'[q].pc \in {"clear", "create"} => NumberOK(reqs'[q].num)
    BY <2>2 DEF IInv, Numbers
  <2>4. \A c \in Docs : docs'[c].version = docs[c].version
    BY <1>6
  <2> QED
    BY <1>9, <2>1, <2>2, <2>3, <2>4, NumbersRest DEF IInv
<1> QED
  BY <1>8, <1>10, <1>11, <1>12, <1>13, <1>14, <1>15, <1>16 DEF IInv, Care
-----------------------------------------------------------------------------
(* Handlers *)

\* Requests and the order of documents do not notice a handler.
LEMMA OrderRests ==
  ASSUME IInv, reqs' = reqs, Docs' = Docs, Current' = Current,
         \A d \in Docs : docs'[d].version = docs[d].version
  PROVE  Numbers' /\ Latest'
<1>1. \A q \in Request : reqs'[q].pc \in {"clear", "create"} => NumberOK(reqs'[q].num)
  BY DEF IInv, Numbers
<1>2. \A q \in Request : reqs'[q].pc = "create" => reqs[q].pc = "create" /\ reqs'[q].num = reqs[q].num
  OBVIOUS
<1> QED
  BY <1>1, <1>2, NumbersRest DEF IInv

\* A step within the run of job e by w.
LEMMA RunKeeps ==
  ASSUME IInv, NEW e \in ExtId, NEW w \in Worker, owner[e] = w,
         UNCHANGED <<stage, owner, reqs>>,
         NEW row \in HandRow, hand' = [hand EXCEPT ![w] = row], hand[w].at # "idle", row.at # "idle",
         exts' \in [ExtId -> ExtRow], \A f \in ExtId : f # e => exts'[f] = exts[f],
         exts'[e].status # "none", exts'[e].doc = exts[e].doc, exts[e].data => exts'[e].data,
         \/ docs' = docs
         \/ docs' = [docs EXCEPT ![exts[e].doc].status = "completed"] /\ exts'[e].data,
         row.at \in {"document", "return"} => exts'[e].status = "completed" /\ exts'[e].data = TRUE,
         WillComplete(w) /\ docs[exts[e].doc].status = "processing" =>
           WillComplete(w)' \/ docs'[exts[e].doc].status = "completed"
  PROVE  IInv'
<1>1. /\ hand' \in [Worker -> HandRow] /\ hand'[w] = row
      /\ \A v \in Worker : v # w => hand'[v] = hand[v]
  BY DEF IInv, Typed
<1>2. /\ stage' = stage /\ owner' = owner /\ reqs' = reqs
      /\ owner[e] # NoOne /\ stage[e] = "processing" /\ exts[e].status # "none"
      /\ \A f \in ExtId : owner[f] = w => f = e
  BY LifecycleAssumption DEF IInv, Care, Jobs
<1>3. PICK d \in DocId : d = exts[e].doc /\ docs[d] \in DocRow /\ docs[d].status # "none"
  BY <1>2 DEF IInv, Typed, Care, Rows, Docs
<1>4. PICK new \in DocRow : new = [docs[d] EXCEPT !.status = "completed"]
  BY <1>3 DEF DocRow, RowStatuses
<1>5. /\ new.status = "completed" /\ new.version = docs[d].version
      /\ new.current = docs[d].current /\ new.raw = docs[d].raw
  BY <1>3, <1>4 DEF DocRow
<1>6. docs' = docs \/ (docs' = [docs EXCEPT ![d] = new] /\ exts'[e].data)
  BY <1>3, <1>4
<1>7. /\ docs' \in [DocId -> DocRow]
      /\ \A c \in DocId : docs'[c] = docs[c] \/ (c = d /\ docs'[c] = new /\ exts'[e].data)
  BY <1>6 DEF IInv, Typed
<1>8. Typed'
  BY <1>1, <1>2, <1>7 DEF IInv, Typed
<1>9. Jobs'
  <2>1. \A v \in Worker : hand'[v].at # "idle" <=> \E f \in ExtId : owner[f] = v
    BY <1>1 DEF IInv, Care, Jobs
  <2>2. \A f \in ExtId : stage[f] # "none" => exts'[f].status # "none"
    BY DEF IInv, Care, Jobs
  <2> QED
    BY <1>2, <2>1, <2>2 DEF IInv, Care, Jobs
<1>10. Care'
  <2>1. \A c \in DocId : docs'[c].raw = docs[c].raw
    BY <1>5, <1>7
  <2>2. \A c \in DocId : \/ docs'[c].status = docs[c].status
                        \/ /\ docs[c].status # "none" /\ docs'[c].status = "completed"
                           /\ c = exts[e].doc /\ exts'[e].data
    BY <1>3, <1>5, <1>7
  <2>3. Minded(e) /\ docs[exts[e].doc].status = "processing" =>
          Minded(e)' \/ docs'[exts[e].doc].status = "completed"
    <3>1. Minded(e) => WillComplete(w)
      BY <1>2 DEF Minded, Orphan
    <3>2. WillComplete(w)' => Minded(e)'
      BY <1>2 DEF Minded
    <3> QED
      BY <3>1, <3>2
  <2>4. stage'[e] # "completed" /\ \A v \in Worker : v # w => owner[e] # v /\ owner'[e] # v
    BY <1>2
  <2>5. \A f \in ExtId : f # e => stage'[f] = stage[f] /\ owner'[f] = owner[f] /\ exts'[f] = exts[f]
    BY <1>2
  <2>6. \A f \in ExtId : owner'[f] = w => f = e
    BY <1>2
  <2>7. owner'[e] = w /\ hand'[w].at \in {"document", "return"} =>
          exts'[e].status = "completed" /\ exts'[e].data = TRUE
    BY <1>1
  <2>8. \A v \in Worker : v # w => hand'[v] = hand[v] /\ owner[e] # v /\ owner'[e] # v
    BY <1>1, <2>4
  <2>9. Typed /\ Care
    BY DEF IInv
  <2>10. HandlerFrame(e, w)
    BY <1>2, <2>1, <2>2, <2>3, <2>4, <2>5, <2>6, <2>7, <2>8 DEF HandlerFrame
  <2> QED
    BY <1>8, <1>9, <2>9, <2>10, HandlerKeeps
<1>11. Numbers' /\ Latest'
  <2>1. \A c \in DocId : /\ docs'[c].status # "none" <=> docs[c].status # "none"
                        /\ docs'[c].version = docs[c].version
    BY <1>3, <1>5, <1>7
  <2>2. \A c \in DocId : docs'[c].current = docs[c].current
    BY <1>5, <1>7
  <2>3. Docs' = Docs
    BY <2>1 DEF Docs
  <2>4. Current' = Current
    BY <2>2, <2>3 DEF Current, Docs
  <2>5. \A c \in Docs : docs'[c].version = docs[c].version
    BY <2>1 DEF Docs
  <2> QED
    BY <1>2, <2>3, <2>4, <2>5, OrderRests
<1> QED
  BY <1>8, <1>10, <1>11 DEF IInv

\* The run of job e by w ends: completed after its last step, or waiting,
\* failed or orphaned.
LEMMA LeaveKeeps ==
  ASSUME IInv, NEW e \in ExtId, NEW w \in Worker,
         NEW outcome \in {"completed", "failed", "pending", "processing"},
         End(w, e, outcome), Dropped(w), outcome = "completed" => hand[w].at = "return"
  PROVE  IInv'
<1>1. /\ stage[e] = "processing" /\ owner[e] = w /\ w # NoOne
      /\ stage' = [stage EXCEPT ![e] = outcome] /\ owner' = [owner EXCEPT ![e] = NoOne]
      /\ hand' = [hand EXCEPT ![w] = NotHandling] /\ docs' = docs /\ exts' = exts /\ reqs' = reqs
  BY LifecycleAssumption DEF End, Dropped
<1>2. NotHandling \in HandRow /\ NotHandling.at = "idle"
  BY DEF NotHandling, HandRow, RowStatuses
<1>3. /\ stage' \in [JobId -> Stages] /\ stage'[e] = outcome
      /\ owner' \in [JobId -> Worker \cup {NoOne}] /\ owner'[e] = NoOne
      /\ \A f \in ExtId : f # e => stage'[f] = stage[f] /\ owner'[f] = owner[f]
      /\ hand' \in [Worker -> HandRow] /\ hand'[w] = NotHandling
      /\ \A v \in Worker : v # w => hand'[v] = hand[v]
  BY <1>1, <1>2 DEF IInv, Typed, Stages, ExtId
<1>4. Typed'
  BY <1>1, <1>3 DEF IInv, Typed
<1>5. exts[e].status # "none" /\ \A f \in ExtId : owner[f] = w => f = e
  BY <1>1 DEF IInv, Care, Jobs
<1>6. \A f \in ExtId : owner'[f] # w
  BY <1>1, <1>3, <1>5
<1>7. Jobs'
  <2>1. ASSUME NEW v \in Worker PROVE hand'[v].at # "idle" <=> \E f \in ExtId : owner'[f] = v
    <3>1. CASE v = w
      BY <3>1, <1>2, <1>3, <1>6
    <3>2. CASE v # w
      <4>1. \A f \in ExtId : owner'[f] = v <=> owner[f] = v
        BY <1>1, <1>3, <3>2, LifecycleAssumption
      <4> QED
        BY <1>3, <3>2, <4>1 DEF IInv, Care, Jobs
    <3> QED
      BY <3>1, <3>2
  <2>2. \A f \in ExtId : stage'[f] # "none" => exts'[f].status # "none"
    BY <1>1, <1>3, <1>5 DEF IInv, Care, Jobs
  <2>3. \A f \in ExtId : owner'[f] # NoOne => stage'[f] = "processing"
    BY <1>3 DEF IInv, Care, Jobs
  <2>4. \A f, g \in ExtId : owner'[f] = owner'[g] /\ owner'[f] # NoOne => f = g
    BY <1>3 DEF IInv, Care, Jobs
  <2> QED
    BY <2>1, <2>2, <2>3, <2>4 DEF Jobs
<1>8. Care'
  <2>1. Minded(e) => Minded(e)' \/ outcome = "completed"
    BY <1>3 DEF Minded, Orphan
  <2>2. outcome = "completed" => exts[e].status = "completed" /\ exts[e].data = TRUE /\ ~Minded(e)
    <3> SUFFICES ASSUME outcome = "completed"
                 PROVE  exts[e].status = "completed" /\ exts[e].data = TRUE /\ ~Minded(e)
      OBVIOUS
    <3>1. hand[w].at = "return"
      OBVIOUS
    <3>2. ~Minded(e)
      BY <1>1, <3>1, LifecycleAssumption DEF Minded, Orphan, WillComplete
    <3> QED
      BY <1>1, <3>1, <3>2 DEF IInv, Care, Ready
  <2>3. Minded(e) => Minded(e)'
    BY <2>1, <2>2
  <2>4. \A v \in Worker : v # w => hand'[v] = hand[v] /\ owner[e] # v /\ owner'[e] # v
    BY <1>1, <1>3, LifecycleAssumption
  <2>5. \A f \in ExtId : f # e => stage'[f] = stage[f] /\ owner'[f] = owner[f] /\ exts'[f] = exts[f]
    BY <1>1, <1>3
  <2>6. stage'[e] = "completed" => exts'[e].status = "completed" /\ exts'[e].data
    BY <1>1, <1>3, <2>2
  <2>7. \A c \in DocId : docs'[c].raw = docs[c].raw
    BY <1>1
  <2>8. \A c \in DocId : docs'[c].status = docs[c].status
    BY <1>1
  <2>9. owner'[e] # w /\ Typed /\ Care
    BY <1>6 DEF IInv
  <2>10. exts'[e].status # "none" /\ exts'[e].doc = exts[e].doc /\ (exts[e].data => exts'[e].data)
    BY <1>1, <1>5
  <2>11. HandlerFrame(e, w)
    BY <1>1, <1>5, <1>6, <2>3, <2>4, <2>5, <2>6, <2>7, <2>8, <2>9, <2>10 DEF HandlerFrame
  <2> QED
    BY <1>4, <1>7, <2>9, <2>11, HandlerKeeps
<1>9. Numbers' /\ Latest'
  <2>1. Docs' = Docs /\ Current' = Current
    BY <1>1 DEF Docs, Current
  <2> QED
    BY <1>1, <2>1, OrderRests
<1> QED
  BY <1>4, <1>8, <1>9 DEF IInv
\* A worker reserves a job: the run tends the document from now on.
LEMMA ReserveStep == ASSUME IInv, NEW w \in Worker, NEW e \in ExtId, Reserve(w, e) PROVE IInv'
<1>1. /\ stage[e] = "pending" /\ (\A k \in ExtId : owner[k] # w) /\ w # NoOne
      /\ stage' = [stage EXCEPT ![e] = "processing"] /\ owner' = [owner EXCEPT ![e] = w]
      /\ docs' = docs /\ exts' = exts /\ reqs' = reqs
  BY LifecycleAssumption DEF Reserve, Begin, ExtId
<1>2. hand[w] \in HandRow
  BY DEF IInv, Typed
<1>3. PICK row \in HandRow : row = [hand[w] EXCEPT !.at = "load"]
  BY <1>2 DEF HandRow
<1>4. hand' = [hand EXCEPT ![w] = row] /\ row.at = "load"
  BY <1>2, <1>3 DEF Reserve, HandRow
<1>5. /\ stage' \in [JobId -> Stages] /\ stage'[e] = "processing"
      /\ owner' \in [JobId -> Worker \cup {NoOne}] /\ owner'[e] = w
      /\ \A f \in ExtId : f # e => stage'[f] = stage[f] /\ owner'[f] = owner[f]
      /\ hand' \in [Worker -> HandRow] /\ hand'[w] = row
      /\ \A v \in Worker : v # w => hand'[v] = hand[v]
  BY <1>1, <1>4 DEF IInv, Typed, Stages, ExtId
<1>6. Typed'
  BY <1>1, <1>5 DEF IInv, Typed
<1>7. exts[e].status # "none" /\ owner[e] = NoOne
  BY <1>1 DEF IInv, Care, Jobs, Typed
<1>8. Jobs'
  <2>1. ASSUME NEW v \in Worker PROVE hand'[v].at # "idle" <=> \E f \in ExtId : owner'[f] = v
    <3>1. CASE v = w
      BY <3>1, <1>4, <1>5
    <3>2. CASE v # w
      <4>1. \A f \in ExtId : owner'[f] = v <=> owner[f] = v
        BY <1>5, <1>7, <3>2, LifecycleAssumption
      <4> QED
        BY <1>5, <3>2, <4>1 DEF IInv, Care, Jobs
    <3> QED
      BY <3>1, <3>2
  <2>2. \A f \in ExtId : stage'[f] # "none" => exts'[f].status # "none"
    BY <1>1, <1>5, <1>7 DEF IInv, Care, Jobs
  <2>3. \A f \in ExtId : owner'[f] # NoOne => stage'[f] = "processing"
    BY <1>5 DEF IInv, Care, Jobs
  <2>4. \A f, g \in ExtId : owner'[f] = owner'[g] /\ owner'[f] # NoOne => f = g
    BY <1>1, <1>5 DEF IInv, Care, Jobs
  <2> QED
    BY <2>1, <2>2, <2>3, <2>4 DEF Jobs
<1>9. Care'
  <2>1. Minded(e)'
    BY <1>4, <1>5 DEF Minded, WillComplete
  <2>2. \A v \in Worker : v # w => hand'[v] = hand[v] /\ owner[e] # v /\ owner'[e] # v
    BY <1>5, <1>7, LifecycleAssumption
  <2>3. \A f \in ExtId : f # e => stage'[f] = stage[f] /\ owner'[f] = owner[f] /\ exts'[f] = exts[f]
    BY <1>1, <1>5
  <2>4. /\ \A c \in DocId : docs'[c].status = docs[c].status
        /\ hand'[w].at \notin {"document", "return"} /\ stage'[e] # "completed"
    BY <1>1, <1>4, <1>5
  <2>5. \A c \in DocId : docs'[c].raw = docs[c].raw
    BY <1>1
  <2>6. exts'[e].status # "none" /\ exts'[e].doc = exts[e].doc /\ (exts[e].data => exts'[e].data)
    BY <1>1, <1>7
  <2>7. \A f \in ExtId : owner'[f] = w => f = e
    BY <1>1, <1>5
  <2>8. HandlerFrame(e, w)
    BY <1>1, <1>7, <2>1, <2>2, <2>3, <2>4, <2>5, <2>6, <2>7 DEF HandlerFrame
  <2>9. Typed /\ Care
    BY DEF IInv
  <2> QED
    BY <1>6, <1>8, <2>8, <2>9, HandlerKeeps
<1>10. Numbers' /\ Latest'
  <2>1. Docs' = Docs /\ Current' = Current
    BY <1>1 DEF Docs, Current
  <2> QED
    BY <1>1, <2>1, OrderRests
<1> QED
  BY <1>6, <1>9, <1>10 DEF IInv

\* The handler loads its document.
LEMMA LoadDocumentStep ==
  ASSUME IInv, NEW w \in Worker, NEW e \in ExtId, LoadDocument(w, e) PROVE IInv'
<1>1. owner[e] = w /\ hand[w].at = "load" /\ UNCHANGED <<stage, owner, reqs, docs, exts>>
  BY DEF LoadDocument, Handles, queue
<1>2. exts[e].status # "none" /\ exts[e].doc \in Docs
  BY <1>1, LifecycleAssumption DEF IInv, Care, Jobs, Rows
<1>3. PICK seen \in RowStatuses : seen = docs[exts[e].doc].status
  BY <1>2 DEF IInv, Typed, DocRow, Docs
<1>4. PICK row \in HandRow : row = [at |-> "mark", seen |-> seen]
  BY DEF HandRow
<1>5. hand' = [hand EXCEPT ![w] = row] /\ row.at = "mark" /\ row.seen = seen
  BY <1>3, <1>4 DEF LoadDocument
<1>6. hand'[w] = row
  BY <1>5 DEF IInv, Typed
<1>7. docs[exts[e].doc].status = "processing" => WillComplete(w)'
  BY <1>3, <1>5, <1>6 DEF WillComplete
<1> QED
  BY <1>1, <1>2, <1>5, <1>7, RunKeeps DEF IInv, Typed

\* The handler marks its extraction.
LEMMA MarkStep == ASSUME IInv, NEW w \in Worker, NEW e \in ExtId, MarkProcessing(w, e) PROVE IInv'
<1>1. owner[e] = w /\ hand[w].at = "mark" /\ UNCHANGED <<stage, owner, reqs, docs>>
  BY DEF MarkProcessing, Handles, queue
<1>2. hand[w] \in HandRow /\ exts[e] \in ExtRow
  BY DEF IInv, Typed
<1>3. PICK row \in HandRow : row = [hand[w] EXCEPT !.at = "extract"]
  BY <1>2 DEF HandRow
<1>4. hand' = [hand EXCEPT ![w] = row] /\ row.at = "extract" /\ row.seen = hand[w].seen
  BY <1>2, <1>3 DEF MarkProcessing, HandRow
<1>5. PICK new \in ExtRow : new = [exts[e] EXCEPT !.status = "processing"]
  BY <1>2 DEF ExtRow, RowStatuses
<1>6. /\ exts' = [exts EXCEPT ![e] = new] /\ new.status = "processing" /\ new.doc = exts[e].doc
      /\ new.data = exts[e].data
  BY <1>2, <1>5 DEF MarkProcessing, ExtRow
<1>7. /\ exts' \in [ExtId -> ExtRow] /\ exts'[e] = new
      /\ \A f \in ExtId : f # e => exts'[f] = exts[f]
  BY <1>6 DEF IInv, Typed
<1>8. exts'[e].status # "none" /\ exts'[e].doc = exts[e].doc /\ (exts[e].data => exts'[e].data)
  BY <1>6, <1>7
<1>9. hand'[w] = row
  BY <1>4 DEF IInv, Typed
<1>10. WillComplete(w) => WillComplete(w)'
  BY <1>1, <1>4, <1>9 DEF WillComplete
<1> QED
  BY <1>1, <1>4, <1>7, <1>8, <1>10, RunKeeps

\* The extraction is completed with data.
LEMMA SaveExtractionStep ==
  ASSUME IInv, NEW w \in Worker, NEW e \in ExtId, SaveExtraction(w, e) PROVE IInv'
<1>1. owner[e] = w /\ hand[w].at = "extract" /\ UNCHANGED <<stage, owner, reqs, docs>>
  BY DEF SaveExtraction, Handles, queue
<1>2. hand[w] \in HandRow /\ exts[e] \in ExtRow
  BY DEF IInv, Typed
<1>3. PICK row \in HandRow : row = [hand[w] EXCEPT !.at = "document"]
  BY <1>2 DEF HandRow
<1>4. hand' = [hand EXCEPT ![w] = row] /\ row.at = "document" /\ row.seen = hand[w].seen
  BY <1>2, <1>3 DEF SaveExtraction, HandRow
<1>5. PICK new \in ExtRow : new = [exts[e] EXCEPT !.status = "completed", !.data = TRUE]
  BY <1>2 DEF ExtRow, RowStatuses
<1>6. /\ exts' = [exts EXCEPT ![e] = new] /\ new.status = "completed" /\ new.doc = exts[e].doc
      /\ new.data = TRUE
  BY <1>2, <1>5 DEF SaveExtraction, ExtRow
<1>7. /\ exts' \in [ExtId -> ExtRow] /\ exts'[e] = new
      /\ \A f \in ExtId : f # e => exts'[f] = exts[f]
  BY <1>6 DEF IInv, Typed
<1>8. /\ exts'[e].status = "completed" /\ exts'[e].doc = exts[e].doc
      /\ exts'[e].data = TRUE
  BY <1>6, <1>7
<1>9. exts[e].data => exts'[e].data
  BY <1>8
<1>10. hand'[w] = row
  BY <1>4 DEF IInv, Typed
<1>11. WillComplete(w) => WillComplete(w)'
  BY <1>1, <1>4, <1>10 DEF WillComplete
<1> QED
  BY <1>1, <1>4, <1>7, <1>8, <1>9, <1>11, RunKeeps

\* The document is completed, if it was not when it was loaded.
LEMMA SaveDocumentStep ==
  ASSUME IInv, NEW w \in Worker, NEW e \in ExtId, SaveDocument(w, e) PROVE IInv'
<1>1. owner[e] = w /\ hand[w].at = "document" /\ UNCHANGED <<stage, owner, reqs, exts>>
  BY DEF SaveDocument, Handles, queue
<1>2. hand[w] \in HandRow
  BY DEF IInv, Typed
<1>3. /\ exts[e].status = "completed" /\ exts[e].data = TRUE
      /\ exts[e].doc \in DocId
  BY <1>1 DEF IInv, Care, Ready, Rows, Docs
<1>4. PICK row \in HandRow : row = [hand[w] EXCEPT !.at = "return"]
  BY <1>2 DEF HandRow
<1>5. hand' = [hand EXCEPT ![w] = row] /\ row.at = "return"
  BY <1>2, <1>4 DEF SaveDocument, HandRow
<1>6. \/ docs' = docs /\ hand[w].seen = "completed"
      \/ docs' = [docs EXCEPT ![exts[e].doc].status = "completed"]
  BY DEF SaveDocument
<1>7. WillComplete(w) => docs'[exts[e].doc].status = "completed"
  <2>1. PICK d \in DocId : d = exts[e].doc /\ docs[d] \in DocRow
    BY <1>3 DEF IInv, Typed
  <2>2. CASE docs' = [docs EXCEPT ![exts[e].doc].status = "completed"]
    <3>1. docs'[d] = [docs[d] EXCEPT !.status = "completed"]
      BY <2>1, <2>2 DEF IInv, Typed
    <3>2. docs'[d].status = "completed"
      BY <2>1, <3>1 DEF DocRow
    <3> QED
      BY <2>1, <3>2
  <2>3. CASE hand[w].seen = "completed"
    BY <1>1, <2>3 DEF WillComplete
  <2> QED
    BY <1>6, <2>2, <2>3
<1>8. exts' \in [ExtId -> ExtRow] /\ exts' = exts
  BY <1>1 DEF IInv, Typed
<1>9. docs' = docs \/ (docs' = [docs EXCEPT ![exts[e].doc].status = "completed"] /\ exts'[e].data)
  BY <1>3, <1>6, <1>8
<1> QED
  BY <1>1, <1>3, <1>5, <1>7, <1>8, <1>9, RunKeeps

-----------------------------------------------------------------------------
(* The invariant *)

\* The first state satisfies the invariant: there are no rows and no runs.
LEMMA InitIInv == ASSUME Init PROVE IInv
<1> USE DEF Init, LInit
<1>1. Typed
  <2>1. NoRequest \in ReqRow /\ NotHandling \in HandRow
    BY DEF NoRequest, NotHandling, ReqRow, HandRow, RowStatuses
  <2>2. /\ [status |-> "none", version |-> 0, current |-> FALSE, raw |-> FALSE] \in DocRow
        /\ [status |-> "none", doc |-> NoDoc, attempt |-> 0, data |-> FALSE] \in ExtRow
    BY DEF DocRow, ExtRow, RowStatuses
  <2>3. docs \in [DocId -> DocRow] /\ exts \in [ExtId -> ExtRow]
    BY <2>2
  <2>4. /\ reqs \in [Request -> ReqRow] /\ hand \in [Worker -> HandRow]
        /\ stage \in [JobId -> Stages] /\ owner \in [JobId -> Worker \cup {NoOne}]
    BY <2>1 DEF Stages
  <2> QED
    BY <2>3, <2>4 DEF Typed
<1>2. /\ \A d \in DocId : docs[d].status = "none"
      /\ \A e \in ExtId : exts[e].status = "none" /\ stage[e] = "none" /\ owner[e] = NoOne
      /\ \A r \in Request : reqs[r].pc = "idle"
      /\ \A w \in Worker : hand[w].at = "idle" /\ w # NoOne
  BY LifecycleAssumption DEF NoRequest, NotHandling, ExtId
<1>3. Docs = {} /\ Current = {}
  BY <1>2 DEF Docs, Current
<1>4. Jobs /\ Rows /\ Places /\ Ready
  BY <1>2 DEF Jobs, Rows, Places, PlaceOK, Ready, Serving
<1>5. CompletedHasData /\ Cared
  BY <1>2, <1>3 DEF CompletedHasData, DocumentsHaveData, JobsHaveData, Cared, ExtId
<1>6. Numbers /\ Latest
  BY <1>2, <1>3 DEF Numbers, Latest
<1> QED
  BY <1>1, <1>4, <1>5, <1>6 DEF IInv, Care

\* Every step keeps the invariant.
LEMMA NextKeeps == ASSUME IInv, [Next]_vars PROVE IInv'
<1>1. ASSUME NEW r \in Request, NEW raw \in BOOLEAN, ReadVersion(r, raw) PROVE IInv'
  BY <1>1, ReadVersionStep
<1>2. ASSUME NEW r \in Request, NEW d \in DocId, LoadForRetry(r, d) PROVE IInv'
  BY <1>2, LoadForRetryStep
<1>3. ASSUME NEW r \in Request, RequestStep(r) PROVE IInv'
  BY <1>3, ClearCurrentStep, CreateDocumentStep, ReadAttemptStep, CreateExtractionStep,
     SaveProcessingStep, DispatchStep DEF RequestStep
<1>4. ASSUME NEW r \in Request, RequestAborts(r) PROVE IInv'
  BY <1>4, AbortStep
<1>5. ASSUME NEW w \in Worker, NEW e \in ExtId, HandlerReturns(w, e) PROVE IInv'
  <2>1. End(w, e, "completed") /\ Dropped(w) /\ hand[w].at = "return"
    BY <1>5 DEF HandlerReturns, Complete, Handles
  <2> QED
    BY <2>1, LeaveKeeps
<1>6. ASSUME NEW w \in Worker, NEW e \in ExtId, HandlerStep(w, e) PROVE IInv'
  BY <1>5, <1>6, ReserveStep, LoadDocumentStep, MarkStep, SaveExtractionStep, SaveDocumentStep
     DEF HandlerStep
<1>7. ASSUME NEW w \in Worker, NEW e \in ExtId, HandlerThrows(w, e) PROVE IInv'
  <2>1. Dropped(w) /\ (End(w, e, "failed") \/ End(w, e, "pending"))
    BY <1>7 DEF HandlerThrows, Fail, PutBack
  <2> QED
    BY <2>1, LeaveKeeps
<1>8. ASSUME NEW w \in Worker, NEW e \in ExtId, WorkerLost(w, e) PROVE IInv'
  <2>1. Dropped(w) /\ End(w, e, "processing")
    BY <1>8 DEF WorkerLost, Abandon
  <2> QED
    BY <2>1, LeaveKeeps
<1>9. CASE UNCHANGED vars
  <2>1. UNCHANGED <<stage, owner, docs, exts, reqs, hand>>
    BY <1>9 DEF vars
  <2>2. Typed'
    BY <2>1 DEF IInv, Typed
  <2>3. Care'
    <3>1. Jobs' /\ Rows' /\ Places' /\ Ready'
      BY <2>1 DEF IInv, Care, Jobs, Rows, Places, PlaceOK, Ready, Docs
    <3>2. CompletedHasData'
      BY <2>1 DEF IInv, Care, CompletedHasData, DocumentsHaveData, JobsHaveData, Docs, ExtsOf
    <3>3. Cared'
      BY <2>1 DEF IInv, Care, Cared, Tended, Serves, Minded, Orphan, WillComplete
    <3> QED
      BY <3>1, <3>2, <3>3 DEF Care
  <2>4. Docs' = Docs /\ Current' = Current
    BY <2>1 DEF Docs, Current
  <2>5. Numbers' /\ Latest'
    BY <2>1, <2>4, OrderRests
  <2> QED
    BY <2>2, <2>3, <2>5 DEF IInv
<1> QED
  BY <1>1, <1>2, <1>3, <1>4, <1>6, <1>7, <1>8, <1>9 DEF Next

\* The invariant holds in every state.
LEMMA Inductive == Spec => []IInv
<1>1. Init => IInv
  BY InitIInv
<1>2. IInv /\ [Next]_vars => IInv'
  BY NextKeeps
<1> QED
  BY <1>1, <1>2, PTL DEF Spec

-----------------------------------------------------------------------------
(* Theorems *)

\* The documents, extractions and jobs keep their types, and a handler is busy
\* exactly while a job is its own.
THEOREM TypeCorrect == Spec => []TypeOK
<1>1. ASSUME IInv PROVE TypeOK
  <2>1. \A r \in Request : reqs[r].doc \in DocId \cup {NoDoc} /\ reqs[r].num \in Nat
    BY <1>1 DEF IInv, Typed, ReqRow
  <2>2. \A w \in Worker : hand[w].at # "idle" <=> \E e \in ExtId : owner[e] = w
    BY <1>1 DEF IInv, Care, Jobs
  <2> QED
    BY <1>1, <2>1, <2>2 DEF IInv, Typed, DocRow, ExtRow, TypeOK
<1> QED
  BY <1>1, Inductive, PTL

\* Whatever uploads, retries, repeated runs and failures overlap, nothing reads
\* "completed" without the data it stands for (cvParsing.handler.js).
THEOREM CompletedKeepsData == Spec => []CompletedHasData
<1>1. IInv => CompletedHasData
  BY DEF IInv, Care
<1> QED
  BY <1>1, Inductive, PTL

\* No interleaving of uploads, retries and handlers strands a document in
\* "processing"; only a failure does.
THEOREM NothingStranded == Spec => []NotStranded
<1>1. ASSUME IInv PROVE NotStranded
  <2> SUFFICES ASSUME NEW d \in Docs, docs[d].status = "processing"
               PROVE  UnderWay(d) \/ Struck(d)
    BY DEF NotStranded
  <2>1. Tended(d)
    BY <1>1 DEF IInv, Care, Cared, Docs
  <2>2. ASSUME NEW r \in Request, Serves(r, d) PROVE UnderWay(d) \/ Struck(d)
    BY <2>2 DEF Serves, Serving, UnderWay, Struck
  <2>3. ASSUME NEW e \in ExtId, exts[e].status # "none", exts[e].doc = d, Minded(e)
        PROVE  UnderWay(d) \/ Struck(d)
    <3>1. e \in ExtsOf(d)
      BY <2>3 DEF ExtsOf
    <3> QED
      BY <2>3, <3>1 DEF Minded, UnderWay, Struck
  <2> QED
    BY <2>1, <2>2, <2>3 DEF Tended
<1> QED
  BY <1>1, Inductive, PTL

\* Unless two uploads raced for one version number, the document that is served
\* as "latest" is the newest one, through every step and failure of an upload.
THEOREM LatestStaysNewest == Spec => []LatestIsNewest
<1>1. ASSUME IInv PROVE LatestIsNewest
  <2> SUFFICES ASSUME DistinctVersions, Current # {} PROVE Current = Newest
    BY DEF LatestIsNewest, Served
  <2>1. \A d \in Docs : docs[d].version \in Nat /\ d \in Nat
    BY <1>1, PipelineAssumption DEF IInv, Typed, DocRow, Docs
  <2>2. Current \subseteq Docs /\ \A d \in Current : \A c \in Docs : docs[c].version <= docs[d].version
    BY <1>1 DEF IInv, Latest, Current
  <2>3. ASSUME NEW d \in Current PROVE d \in Newest
    <3>1. ASSUME NEW c \in Docs
          PROVE  docs[c].version < docs[d].version \/ (docs[c].version = docs[d].version /\ c <= d)
      <4>1. docs[c].version <= docs[d].version /\ docs[c].version \in Nat /\ docs[d].version \in Nat
        BY <2>1, <2>2, <2>3
      <4>2. docs[c].version = docs[d].version => c = d
        BY <2>2, <2>3 DEF DistinctVersions
      <4>3. d <= d
        BY <2>1, <2>2, <2>3
      <4> QED
        BY <4>1, <4>2, <4>3
    <3> QED
      BY <2>2, <2>3, <3>1 DEF Newest
  <2>4. ASSUME NEW c \in Newest PROVE c \in Current
    <3>1. PICK d \in Current : d \in Docs /\ c \in Docs
      BY <2>2, <2>4 DEF Newest
    <3>2. docs[d].version < docs[c].version \/ docs[d].version = docs[c].version
      BY <2>4, <3>1 DEF Newest
    <3>3. docs[c].version <= docs[d].version /\ docs[c].version \in Nat /\ docs[d].version \in Nat
      BY <2>1, <2>2, <3>1
    <3>4. docs[d].version = docs[c].version
      BY <3>2, <3>3
    <3> QED
      BY <3>1, <3>4 DEF DistinctVersions
  <2> QED
    BY <2>3, <2>4
<1> QED
  BY <1>1, Inductive, PTL
=============================================================================
