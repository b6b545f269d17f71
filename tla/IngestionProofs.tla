-------------------------- MODULE IngestionProofs --------------------------
(***************************************************************************)
(* Proofs about Ingestion, for any items, batches, runs, days and          *)
(* failures.                                                               *)
(*                                                                         *)
(* A property here relates rows that different steps of different runs     *)
(* wrote, while no step sees more than the run it belongs to.  The         *)
(* invariant says what a run may rely on at each position: what the        *)
(* look-up told it (and which runs can have made it stale since), what the *)
(* post it has created is, and how far its counters are ahead of its rows. *)
(***************************************************************************)
EXTENDS Ingestion, FiniteSetTheorems, SequenceTheorems, TLAPS

Searching == {"company", "newCompany", "post"}     \* nothing like the item was found
Creating == {"skill", "newSkill", "store"}         \* its post has been created
InItem == {"look", "duplicate", "failed"} \cup Searching \cup Creating
Positions == InItem \cup {"idle", "finish", "source", "failedRun", "failedSource", "done", "lost"}

RunRow ==
  [pc : Positions, status : RunStatuses, items : Seq(Item), next : Nat \ {0},
   loaded : RunStatuses, day : 1..MaxDay, post : Nat, imported : Nat,
   duplicates : Nat, errors : Nat]

PostRow == [item : Item, day : 1..MaxDay, run : RunId]

Prints == {Fingerprint(i, d) : i \in Item, d \in 1..MaxDay} \cup {Unlocated}

RawRows ==
  [run : RunId, item : Item, ext : {ExtOf[i] : i \in Item}, print : Prints,
   outcome : {"processed", "failed"}, dedup : {"unique", "duplicate"}, post : Nat]

Typed ==
  /\ today \in 1..MaxDay
  /\ posts \in Seq(PostRow)
  /\ raw \in Seq(RawRows)
  /\ runs \in [RunId -> RunRow]
  /\ health \in RunStatuses
  /\ met \in [RunId -> SUBSET RunId]
  /\ faults \in 0..MaxFaults

\* The raw job stored with post p: later items of its vacancy are found by it.
Original(p) ==
  \E j \in DOMAIN raw : /\ raw[j].post = p
                        /\ raw[j].dedup = "unique"
                        /\ raw[j].print = PrintOf(p)
                        /\ raw[j].ext = ExtOf[posts[p].item]

\* Item i belongs to post p as far as the duplicate check can tell.
Akin(i, p) ==
  \/ JobOf[posts[p].item] = JobOf[i]
  \/ Mistakable(i, posts[p].item)
  \/ TakenFor(i, p)

\* Post p, if there is one, may be linked to item i.
LinkOK(p, i) ==
  /\ p \in 0..Len(posts)
  /\ p # NoPost => Akin(i, p) /\ Original(p)

RowOK(k) ==
  /\ raw[k].ext = ExtOf[raw[k].item]
  /\ LinkOK(raw[k].post, raw[k].item)
  /\ raw[k].outcome = "processed" =>
       /\ Covered(raw[k].item)
       /\ raw[k].dedup = "unique" =>
            raw[k].post \in DOMAIN posts /\ posts[raw[k].post].item = raw[k].item
       /\ \E d \in 1..MaxDay : raw[k].print = Fingerprint(raw[k].item, d)
  /\ raw[k].outcome = "failed" => raw[k].print = Unlocated

\* Where run n is in its items.
PlaceOK(n) ==
  /\ runs[n].next \in 1..(Len(runs[n].items) + 1)
  /\ runs[n].pc \in InItem => runs[n].next <= Len(runs[n].items)
  /\ At(n, "idle") => met[n] = {} /\ runs[n].items = <<>>
  /\ At(n, "finish") \/ runs[n].status = "completed" => runs[n].next = Len(runs[n].items) + 1
  /\ At(n, "source") => runs[n].status = "completed"
  /\ At(n, "failedSource") => runs[n].status = "failed"

\* Post p is of the vacancy run n is about to create a post for.
Again(p, n) ==
  \/ PrintOf(p) = Fingerprint(This(n), runs[n].day)
  \/ ExtOf[This(n)] # None /\ ExtOf[This(n)] = ExtOf[posts[p].item]

\* What run n has found or created.
FoundOK(n) ==
  /\ runs[n].post \in 0..Len(posts)
  /\ At(n, "duplicate") =>
       /\ LinkOK(runs[n].post, This(n))
       /\ runs[n].post = NoPost => Covered(This(n))
  /\ runs[n].pc \in Searching =>
       \A p \in DOMAIN posts : (Again(p, n) /\ Traced(p)) => posts[p].run \in met[n]
  /\ runs[n].pc \in Creating =>
       /\ runs[n].post \in DOMAIN posts
       /\ posts[runs[n].post] = [item |-> This(n), day |-> runs[n].day, run |-> n]
       /\ \A q \in DOMAIN posts : q > runs[n].post => posts[q].run \in met[n]

\* The counters of run n, ahead of its rows by the item at hand.
CountOK(n) ==
  LET found == IF At(n, "duplicate") THEN 1 ELSE 0
      failed == IF At(n, "failed") THEN 1 ELSE 0 IN
  /\ runs[n].imported = Cardinality(RowsOf(n, "processed", "unique"))
  /\ runs[n].duplicates >= Cardinality(RowsOf(n, "processed", "duplicate")) + found
  /\ runs[n].errors >= Cardinality(RowsOf(n, "failed", "unique")) + failed
  /\ runs[n].imported + runs[n].duplicates + runs[n].errors
       >= (runs[n].next - 1) + found + failed

CoverOK(n) ==
  runs[n].errors = 0 => \A k \in 1..(runs[n].next - 1) : Covered(runs[n].items[k])

\* Runs under way together have met, and a run that met no other has seen no
\* other change of the source's status.
MetOK(n) ==
  /\ n \notin met[n]
  /\ \A m \in met[n] : n \in met[m]
  /\ \A m \in RunId \ {n} : UnderWay(m) /\ UnderWay(n) => m \in met[n]
  /\ met[n] = {} /\ UnderWay(n) =>
       \/ runs[n].loaded = health
       \/ runs[n].loaded = "completed" /\ runs[n].pc \in {"failedRun", "failedSource"}

RunOK(n) == PlaceOK(n) /\ FoundOK(n) /\ CountOK(n) /\ CoverOK(n) /\ MetOK(n)

IInv ==
  /\ Typed
  /\ \A k \in DOMAIN raw : RowOK(k)
  /\ \A n \in RunId : RunOK(n)
  /\ SecondPostExplained

-----------------------------------------------------------------------------
(* Fingerprints and rows *)

\* Equal fingerprints are of mistakable items, and none is that of a failed item.
LEMMA PrintsIdentify ==
  /\ \A i, j, d, e : Fingerprint(i, d) = Fingerprint(j, e) => Mistakable(i, j)
  /\ \A i \in Item : \A d : Fingerprint(i, d) # Unlocated
<1>1. \A i, j, d, e : Fingerprint(i, d) = Fingerprint(j, e) => Mistakable(i, j)
  BY DEF Fingerprint, Mistakable
<1>2. \A i \in Item : \A d : Fingerprint(i, d) # Unlocated
  BY IngestionAssumption DEF Fingerprint, Unlocated
<1> QED
  BY <1>1, <1>2

\* What makes an item dealt with: the post of a raw job of its vacancy, or one that
\* its vacancy was taken for.
LEMMA LinkedIsCovered ==
  ASSUME Typed, NEW k \in DOMAIN raw, NEW i, JobOf[raw[k].item] = JobOf[i],
         raw[k].post # NoPost, LinkOK(raw[k].post, raw[k].item)
  PROVE  LinkOK(raw[k].post, i) /\ Covered(i)
<1> DEFINE j == raw[k].item  p == raw[k].post
<1>1. p \in DOMAIN posts /\ Akin(j, p) /\ Original(p) /\ p \in 0..Len(posts)
  BY DEF LinkOK, NoPost, Typed
<1>2. Mistakable(j, posts[p].item) => TakenFor(i, p)
  BY DEF TakenFor
<1>3. TakenFor(j, p) => TakenFor(i, p)
  BY DEF TakenFor
<1>4. JobOf[posts[p].item] = JobOf[i] \/ TakenFor(i, p)
  BY <1>1, <1>2, <1>3 DEF Akin
<1>5. LinkOK(p, i)
  BY <1>1, <1>4 DEF LinkOK, Akin
<1>6. Covered(i)
  BY <1>1, <1>4 DEF Covered, Posted
<1> QED
  BY <1>5, <1>6

\* The rows of one kind are finitely many, and a new row adds one to its kind.
LEMMA RowsAppend ==
  ASSUME Typed, NEW e \in RawRows, raw' = Append(raw, e),
         NEW n, NEW outcome, NEW dedup
  PROVE  /\ Cardinality(RowsOf(n, outcome, dedup)) \in Nat
         /\ Cardinality(RowsOf(n, outcome, dedup))' =
              Cardinality(RowsOf(n, outcome, dedup))
                + (IF e.run = n /\ e.outcome = outcome /\ e.dedup = dedup THEN 1 ELSE 0)
<1> DEFINE R == RowsOf(n, outcome, dedup)
           L == Len(raw) + 1
<1>1. /\ Len(raw) \in Nat /\ DOMAIN raw = 1..Len(raw) /\ DOMAIN raw' = 1..L
      /\ L \notin DOMAIN raw /\ DOMAIN raw' = DOMAIN raw \cup {L}
      /\ \A k \in DOMAIN raw : raw'[k] = raw[k]
      /\ raw'[L] = e
  BY AppendProperties DEF Typed
<1>2. IsFiniteSet(R)
  <2>1. IsFiniteSet(1..Len(raw)) /\ R \subseteq 1..Len(raw)
    BY <1>1, FS_Interval DEF RowsOf
  <2> QED
    BY <2>1, FS_Subset
<1>3. Cardinality(R) \in Nat
  BY <1>2, FS_CardinalityType
<1>4. CASE e.run = n /\ e.outcome = outcome /\ e.dedup = dedup
  <2>1. RowsOf(n, outcome, dedup)' = R \cup {L} /\ L \notin R
    BY <1>1, <1>4 DEF RowsOf
  <2>2. Cardinality(R \cup {L}) = Cardinality(R) + 1
    <3> HIDE DEF R, L
    <3> QED
      BY <1>2, <2>1, FS_AddElement
  <2> QED
    BY <1>3, <1>4, <2>1, <2>2
<1>5. CASE ~(e.run = n /\ e.outcome = outcome /\ e.dedup = dedup)
  <2>1. RowsOf(n, outcome, dedup)' = R
    BY <1>1, <1>5 DEF RowsOf
  <2> QED
    BY <1>3, <1>5, <2>1
<1> QED
  BY <1>4, <1>5

\* Counting rows gives numbers.
LEMMA RowsCounted ==
  ASSUME Typed, NEW n, NEW outcome, NEW dedup
  PROVE  Cardinality(RowsOf(n, outcome, dedup)) \in Nat
<1>1. Len(raw) \in Nat /\ RowsOf(n, outcome, dedup) \subseteq 1..Len(raw)
  BY DEF Typed, RowsOf
<1>2. IsFiniteSet(1..Len(raw))
  BY <1>1, FS_Interval
<1>3. IsFiniteSet(RowsOf(n, outcome, dedup))
  BY <1>1, <1>2, FS_Subset
<1> QED
  BY <1>3, FS_CardinalityType

-----------------------------------------------------------------------------
(* Nothing a run has found is taken back *)

\* A step of run n: rows are only added, its own, and a raw job it adds points at
\* no post, at one that was traced before or at its own.
Grown(n) ==
  /\ \A p \in DOMAIN posts : p \in DOMAIN posts' /\ posts'[p] = posts[p]
  /\ \A p \in DOMAIN posts' \ DOMAIN posts : posts'[p].run = n
  /\ \A k \in DOMAIN raw : k \in DOMAIN raw' /\ raw'[k] = raw[k]
  /\ \A k \in DOMAIN raw' \ DOMAIN raw :
        /\ raw'[k].run = n
        /\ raw'[k].post \in DOMAIN posts =>
             Traced(raw'[k].post) \/ posts[raw'[k].post].run = n

\* Posts, traces, originals and links stay.
LEMMA FindsLast ==
  ASSUME Typed, Typed', NEW n, Grown(n)
  PROVE  /\ \A i : Covered(i) => Covered(i)'
         /\ \A p : Traced(p) => Traced(p)'
         /\ \A p \in DOMAIN posts : (PrintOf(p))' = PrintOf(p)
         /\ \A p, i : LinkOK(p, i) => LinkOK(p, i)'
<1>1. /\ Len(posts) \in Nat /\ DOMAIN posts = 1..Len(posts)
      /\ Len(posts') \in Nat /\ DOMAIN posts' = 1..Len(posts')
  BY DEF Typed
<1>taken. ASSUME NEW i, NEW p \in DOMAIN posts, TakenFor(i, p) PROVE TakenFor(i, p)'
  <2>1. PICK k \in DOMAIN raw : /\ raw[k].post = p /\ JobOf[raw[k].item] = JobOf[i]
                               /\ Mistakable(raw[k].item, posts[p].item)
    BY <1>taken DEF TakenFor
  <2>2. k \in DOMAIN raw' /\ raw'[k] = raw[k] /\ posts'[p] = posts[p]
    BY DEF Grown
  <2>3. Mistakable(raw'[k].item, posts'[p].item)
    BY <2>1, <2>2
  <2>4. Mistakable(raw[k].item, posts[p].item)'
    BY <2>3 DEF Mistakable
  <2> QED
    BY <2>1, <2>2, <2>4 DEF TakenFor
<1>2. ASSUME NEW i, Covered(i) PROVE Covered(i)'
  <2>1. CASE Posted(i) \/ FailedBefore(i)
    BY <2>1 DEF Covered, Posted, FailedBefore, TakenFor, Mistakable, Grown
  <2>2. CASE \E p \in DOMAIN posts : TakenFor(i, p)
    BY <2>2, <1>taken DEF Covered, Grown
  <2> QED
    BY <1>2, <2>1, <2>2 DEF Covered
<1>3. \A p : Traced(p) => Traced(p)'
  BY DEF Traced, Grown
<1>4. \A p \in DOMAIN posts : (PrintOf(p))' = PrintOf(p)
  BY DEF PrintOf, Fingerprint, Grown
<1>5. ASSUME NEW p \in DOMAIN posts, Original(p) PROVE Original(p)'
  <2>1. (PrintOf(p))' = PrintOf(p)
    BY <1>4
  <2> QED
    BY <1>5, <2>1 DEF Original, Grown
<1>6. ASSUME NEW p, NEW i, LinkOK(p, i) PROVE LinkOK(p, i)'
  <2>1. CASE p = NoPost
    BY <1>1, <2>1 DEF LinkOK, NoPost
  <2>2. CASE p # NoPost
    <3>1. p \in DOMAIN posts /\ p \in DOMAIN posts'
      BY <1>1, <1>6, <2>2 DEF LinkOK, NoPost, Grown
    <3>2. Original(p)' /\ Akin(i, p)'
      <4>1. Original(p) /\ Akin(i, p) /\ posts'[p] = posts[p]
        BY <1>6, <2>2, <3>1 DEF LinkOK, Grown
      <4>2. Mistakable(i, posts[p].item) => Mistakable(i, posts[p].item)'
        BY <4>1 DEF Mistakable
      <4> QED
        BY <1>5, <1>taken, <3>1, <4>1, <4>2 DEF Akin
    <3> QED
      BY <1>1, <3>1, <3>2 DEF LinkOK
  <2> QED
    BY <2>1, <2>2
<1> QED
  BY <1>2, <1>3, <1>4, <1>6

\* A raw job that is there stays as good as it is.
LEMMA RowLasts ==
  ASSUME Typed, Typed', NEW n, Grown(n), NEW k \in DOMAIN raw, RowOK(k)
  PROVE  RowOK(k)'
<1>1. PICK i, p : i = raw[k].item /\ p = raw[k].post
  OBVIOUS
<1>2. raw'[k] = raw[k]
  BY DEF Grown
<1>3. LinkOK(p, i)' /\ (Covered(i) => Covered(i)')
  BY <1>1, FindsLast DEF RowOK
<1>4. LinkOK(raw[k].post, raw[k].item)'
  BY <1>1, <1>2, <1>3 DEF LinkOK, Akin, TakenFor, Mistakable, Original, PrintOf, Fingerprint
<1>5. Covered(raw[k].item) => Covered(raw[k].item)'
  BY <1>1, <1>2, <1>3 DEF Covered, Posted, FailedBefore, TakenFor, Mistakable
<1>6. \A d : Fingerprint(raw[k].item, d)' = Fingerprint(raw[k].item, d)
  BY <1>2 DEF Fingerprint
<1>7. (raw[k].post \in DOMAIN posts /\ posts[raw[k].post].item = raw[k].item)
        => (raw[k].post \in DOMAIN posts /\ posts[raw[k].post].item = raw[k].item)'
  BY <1>2 DEF Grown
<1> QED
  BY <1>2, <1>4, <1>5, <1>6, <1>7 DEF RowOK, Unlocated

\* A run that is under way, and the runs under way together with it.
LEMMA MetTogether ==
  ASSUME IInv, NEW n \in RunId, NEW m \in RunId \ {n}, UnderWay(n), UnderWay(m)
  PROVE  n \in met[m] /\ m \in met[n]
  BY DEF IInv, RunOK, MetOK

\* A step of run n, as other runs see it, keeps what the invariant says of run m.
LEMMA OthersKeep ==
  ASSUME IInv, Typed', NEW n \in RunId, UnderWay(n), Grown(n), UNCHANGED met,
         \A k \in RunId \ {n} : runs'[k] = runs[k], NEW m \in RunId \ {n}
  PROVE  RunOK(m)'
<1>1. /\ Typed /\ RunOK(m) /\ runs'[m] = runs[m] /\ met'[m] = met[m]
      /\ Len(posts) \in Nat /\ DOMAIN posts = 1..Len(posts)
      /\ Len(posts') \in Nat /\ DOMAIN posts' = 1..Len(posts')
  BY DEF IInv, Typed
<1>2. PlaceOK(m)'
  BY <1>1 DEF RunOK, PlaceOK, At
<1>3. FoundOK(m)'
  <2>1. FoundOK(m) /\ (UnderWay(m) => n \in met[m])
    BY <1>1, MetTogether DEF RunOK
  <2>2. runs[m].post \in 0..Len(posts')
    <3>1. Len(posts) <= Len(posts')
      BY <1>1 DEF Grown
    <3> QED
      BY <1>1, <2>1, <3>1 DEF FoundOK
  <2>3. ASSUME At(m, "duplicate")
        PROVE  LinkOK(runs[m].post, This(m))' /\ (runs[m].post = NoPost => Covered(This(m)))'
    <3>1. PICK i, p : i = This(m) /\ p = runs[m].post
      OBVIOUS
    <3>2. LinkOK(p, i)' /\ (p = NoPost => Covered(i)')
      BY <1>1, <2>1, <2>3, <3>1, FindsLast DEF FoundOK
    <3>3. This(m)' = i /\ runs'[m].post = p
      BY <1>1, <3>1 DEF This
    <3> QED
      BY <3>2, <3>3 DEF LinkOK, Akin, TakenFor, Mistakable, Original, PrintOf, Fingerprint,
                             Covered, Posted, FailedBefore
  <2>4. ASSUME runs[m].pc \in Searching, NEW p \in DOMAIN posts', Again(p, m)', Traced(p)'
        PROVE  posts'[p].run \in met[m]
    <3>1. n \in met[m]
      BY <2>1, <2>4 DEF UnderWay, Searching
    <3>2. CASE p \notin DOMAIN posts
      BY <3>1, <3>2 DEF Grown
    <3>3. CASE p \in DOMAIN posts
      <4>1. posts'[p] = posts[p] /\ (PrintOf(p))' = PrintOf(p) /\ This(m)' = This(m)
        BY <1>1, <3>3, FindsLast DEF Grown, This
      <4>2. Again(p, m)
        <5>1. Fingerprint(This(m), runs[m].day)' = Fingerprint(This(m), runs[m].day)
          BY <1>1, <4>1 DEF Fingerprint
        <5> QED
          BY <2>4, <4>1, <5>1 DEF Again
      <4>3. Traced(p) \/ posts[p].run = n
        BY <2>4, <3>3 DEF Traced, Grown
      <4> QED
        BY <2>1, <2>4, <3>1, <3>3, <4>1, <4>2, <4>3 DEF FoundOK
    <3> QED
      BY <3>2, <3>3
  <2>5. ASSUME runs[m].pc \in Creating
        PROVE  /\ runs[m].post \in DOMAIN posts'
               /\ posts'[runs[m].post] = [item |-> This(m)', day |-> runs[m].day, run |-> m]
               /\ \A q \in DOMAIN posts' : q > runs[m].post => posts'[q].run \in met[m]
    <3>1. n \in met[m] /\ This(m)' = This(m)
      BY <1>1, <2>1, <2>5 DEF UnderWay, Creating, This
    <3> QED
      BY <2>1, <2>5, <3>1 DEF FoundOK, Grown
  <2> QED
    BY <1>1, <2>2, <2>3, <2>4, <2>5 DEF FoundOK, At
<1>4. CountOK(m)'
  <2>1. \A outcome, dedup : RowsOf(m, outcome, dedup)' = RowsOf(m, outcome, dedup)
    BY DEF RowsOf, Grown
  <2>2. CountOK(m)
    BY <1>1 DEF RunOK
  <2> QED
    BY <1>1, <2>1, <2>2 DEF CountOK, At
<1>5. CoverOK(m)'
  <2>1. CoverOK(m) /\ \A i : Covered(i) => Covered(i)'
    BY <1>1, FindsLast DEF RunOK
  <2>2. ASSUME NEW k, Covered(runs[m].items[k]) PROVE Covered(runs[m].items[k])'
    <3>1. PICK i : i = runs[m].items[k]
      OBVIOUS
    <3>2. Covered(i)'
      BY <2>1, <2>2, <3>1
    <3> QED
      BY <1>1, <3>1, <3>2 DEF Covered, Posted, FailedBefore, TakenFor, Mistakable
  <2> QED
    BY <1>1, <2>1, <2>2 DEF CoverOK
<1>6. MetOK(m)'
  <2>1. MetOK(m) /\ \A k \in RunId : UnderWay(k)' => UnderWay(k)
    BY <1>1 DEF RunOK, UnderWay
  <2>2. UnderWay(m) => met[m] # {}
    BY MetTogether
  <2> QED
    BY <1>1, <2>1, <2>2 DEF MetOK
<1> QED
  BY <1>2, <1>3, <1>4, <1>5, <1>6 DEF RunOK

\* What the proof of a step of run n shows.
Kept(n) ==
  /\ Typed'
  /\ UnderWay(n) /\ Grown(n) /\ UNCHANGED met
  /\ \A m \in RunId \ {n} : runs'[m] = runs[m]
  /\ \A k \in DOMAIN raw' \ DOMAIN raw : RowOK(k)'
  /\ RunOK(n)'
  /\ SecondPostExplained'

\* That is enough.
LEMMA KeptIsEnough ==
  ASSUME IInv, NEW n \in RunId, Kept(n)
  PROVE  IInv'
<1>1. \A k \in DOMAIN raw' : RowOK(k)'
  BY RowLasts DEF Kept, IInv
<1>2. \A m \in RunId : RunOK(m)'
  BY OthersKeep DEF Kept
<1> QED
  BY <1>1, <1>2 DEF Kept, IInv

\* A run moves on and changes neither posts nor raw jobs.
LEMMA MoveKeeps ==
  ASSUME IInv, NEW n \in RunId, NEW x \in RunRow, UnderWay(n),
         runs' = [runs EXCEPT ![n] = x], UNCHANGED <<today, posts, raw, met>>,
         health' \in RunStatuses, faults' \in 0..MaxFaults, RunOK(n)'
  PROVE  IInv'
<1>1. Typed'
  BY DEF IInv, Typed
<1>2. Grown(n)
  BY DEF Grown
<1>3. \A m \in RunId \ {n} : runs'[m] = runs[m]
  BY DEF IInv, Typed
<1>4. SecondPostExplained'
  BY DEF IInv, SecondPostExplained, SameVacancy, PrintOf, Traced, Fingerprint
<1>5. Kept(n)
  BY <1>1, <1>2, <1>3, <1>4 DEF Kept
<1> QED
  BY <1>5, KeptIsEnough

-----------------------------------------------------------------------------
(* Steps that change neither posts nor raw jobs *)

\* The counters of a run, whatever its position.
LEMMA CountsAtLeast ==
  ASSUME Typed, NEW n \in RunId, CountOK(n)
  PROVE  /\ runs[n].imported = Cardinality(RowsOf(n, "processed", "unique"))
         /\ runs[n].duplicates >= Cardinality(RowsOf(n, "processed", "duplicate"))
         /\ runs[n].errors >= Cardinality(RowsOf(n, "failed", "unique"))
         /\ runs[n].imported + runs[n].duplicates + runs[n].errors >= runs[n].next - 1
<1>1. /\ runs[n].imported \in Nat /\ runs[n].duplicates \in Nat
      /\ runs[n].errors \in Nat /\ runs[n].next \in Nat
  BY DEF Typed, RunRow
<1>2. \A outcome, dedup : Cardinality(RowsOf(n, outcome, dedup)) \in Nat
  BY RowsCounted
<1> DEFINE i == runs[n].imported  d == runs[n].duplicates  e == runs[n].errors
           x == runs[n].next
           I == Cardinality(RowsOf(n, "processed", "unique"))
           D == Cardinality(RowsOf(n, "processed", "duplicate"))
           F == Cardinality(RowsOf(n, "failed", "unique"))
<1>3. PICK f \in Nat, g \in Nat :
        i = I /\ d >= D + f /\ e >= F + g /\ i + d + e >= (x - 1) + f + g
  BY DEF CountOK
<1>4. i \in Nat /\ d \in Nat /\ e \in Nat /\ x \in Nat /\ D \in Nat /\ F \in Nat
  BY <1>1, <1>2
<1>5. i = I /\ d >= D /\ e >= F /\ i + d + e >= x - 1
  <2> HIDE DEF i, d, e, x, I, D, F
  <2> QED
    BY <1>3, <1>4
<1> QED
  BY <1>5

\* A run goes on with its item.
LEMMA GoesOn ==
  ASSUME IInv, NEW n \in RunId, NEW pc,
         \/ runs[n].pc \in Searching /\ pc \in Searching
         \/ runs[n].pc \in Creating /\ pc \in Creating,
         runs' = [runs EXCEPT ![n] = [runs[n] EXCEPT !.pc = pc]],
         UNCHANGED <<today, posts, raw, health, met, faults>>
  PROVE  IInv'
<1> DEFINE x == [runs[n] EXCEPT !.pc = pc]
<1>1. x \in RunRow /\ UnderWay(n)
  <2>1. pc \in Positions /\ runs[n] \in RunRow
    BY DEF IInv, Typed, Positions, InItem
  <2>2. x \in RunRow
    BY <2>1 DEF RunRow
  <2> QED
    BY <2>2 DEF UnderWay, Searching, Creating
<1>2. /\ x.pc = pc /\ x.status = runs[n].status /\ x.items = runs[n].items
      /\ x.next = runs[n].next /\ x.loaded = runs[n].loaded /\ x.day = runs[n].day
      /\ x.post = runs[n].post /\ x.imported = runs[n].imported
      /\ x.duplicates = runs[n].duplicates /\ x.errors = runs[n].errors
      /\ runs' = [runs EXCEPT ![n] = x]
  BY DEF IInv, Typed, RunRow
<1> HIDE DEF x
<1>3. runs'[n] = x
  BY <1>2 DEF IInv, Typed
<1>4. This(n)' = This(n)
  BY <1>2, <1>3 DEF This
<1>5. RunOK(n)
  BY DEF IInv
<1>6. PlaceOK(n)'
  BY <1>2, <1>3, <1>5 DEF RunOK, PlaceOK, At, InItem, Searching, Creating
<1>7. FoundOK(n)'
  <2>1. \A p \in DOMAIN posts : (Again(p, n)' => Again(p, n)) /\ (Traced(p)' => Traced(p))
    BY <1>2, <1>3, <1>4 DEF Again, Traced, PrintOf, Fingerprint
  <2> QED
    BY <1>2, <1>3, <1>4, <1>5, <2>1 DEF RunOK, FoundOK, At, Searching, Creating
<1>8. CountOK(n)'
  BY <1>2, <1>3, <1>5 DEF RunOK, CountOK, RowsOf, At, Searching, Creating
<1>9. CoverOK(n)'
  BY <1>2, <1>3, <1>5 DEF RunOK, CoverOK, Covered, Posted, FailedBefore, TakenFor, Mistakable
<1>10. MetOK(n)'
  <2>1. \A m \in RunId : UnderWay(m)' => UnderWay(m)
    BY <1>1, <1>2 DEF UnderWay, IInv, Typed
  <2>2. runs[n].pc \notin {"failedRun", "failedSource"}
    BY DEF Searching, Creating
  <2> QED
    BY <1>1, <1>2, <1>3, <1>5, <2>1, <2>2 DEF RunOK, MetOK
<1>11. health' \in RunStatuses /\ faults' \in 0..MaxFaults
  BY DEF IInv, Typed
<1> QED
  BY <1>1, <1>2, <1>6, <1>7, <1>8, <1>9, <1>10, <1>11, MoveKeeps DEF RunOK

\* A run's item fails.
LEMMA ItemFails ==
  ASSUME IInv, NEW n \in RunId, runs[n].pc \in InItem \ {"failed"},
         runs' = [runs EXCEPT ![n] =
                    [runs[n] EXCEPT !.pc = "failed", !.errors = runs[n].errors + 1]],
         UNCHANGED <<today, posts, raw, health, met>>, faults' \in 0..MaxFaults
  PROVE  IInv'
<1> DEFINE x == [runs[n] EXCEPT !.pc = "failed", !.errors = runs[n].errors + 1]
<1>1. x \in RunRow /\ UnderWay(n) /\ runs[n] \in RunRow
  <2>1. "failed" \in Positions /\ runs[n] \in RunRow /\ runs[n].errors + 1 \in Nat
    BY DEF IInv, Typed, Positions, InItem, RunRow
  <2>2. x \in RunRow
    BY <2>1 DEF RunRow
  <2> QED
    BY <2>1, <2>2 DEF UnderWay, InItem, Searching, Creating
<1>2. /\ x.pc = "failed" /\ x.status = runs[n].status /\ x.items = runs[n].items
      /\ x.next = runs[n].next /\ x.loaded = runs[n].loaded
      /\ x.post = runs[n].post /\ x.imported = runs[n].imported
      /\ x.duplicates = runs[n].duplicates /\ x.errors = runs[n].errors + 1
      /\ runs' = [runs EXCEPT ![n] = x]
  BY DEF IInv, Typed, RunRow
<1> HIDE DEF x
<1>3. runs'[n] = x
  BY <1>2 DEF IInv, Typed
<1>4. RunOK(n) /\ runs[n].pc # "failed"
  BY DEF IInv
<1>5. PlaceOK(n)'
  BY <1>2, <1>3, <1>4 DEF RunOK, PlaceOK, At, InItem
<1>6. FoundOK(n)'
  BY <1>2, <1>3, <1>4 DEF RunOK, FoundOK, At, Searching, Creating
<1>7. CountOK(n)'
  <2>1. \A outcome, dedup : RowsOf(n, outcome, dedup)' = RowsOf(n, outcome, dedup)
    BY DEF RowsOf
  <2>2. \A outcome, dedup : Cardinality(RowsOf(n, outcome, dedup)) \in Nat
    BY RowsCounted DEF IInv
  <2>3. /\ runs[n].imported \in Nat /\ runs[n].duplicates \in Nat
        /\ runs[n].errors \in Nat /\ runs[n].next \in Nat
    BY <1>1 DEF RunRow
  <2>4. CountOK(n)
    BY <1>4 DEF RunOK
  <2> QED
    BY <1>2, <1>3, <1>4, <2>1, <2>2, <2>3, <2>4 DEF CountOK, At
<1>8. CoverOK(n)'
  <2>1. runs[n].errors + 1 # 0
    <3>1. runs[n].errors \in Nat
      BY <1>1 DEF RunRow
    <3> QED
      BY <3>1
  <2> QED
    BY <1>2, <1>3, <2>1 DEF CoverOK
<1>9. MetOK(n)'
  <2>1. \A m \in RunId : UnderWay(m)' => UnderWay(m)
    BY <1>1, <1>2 DEF UnderWay, IInv, Typed
  <2>2. runs[n].pc \notin {"failedRun", "failedSource"}
    BY DEF InItem, Searching, Creating
  <2> QED
    BY <1>1, <1>2, <1>3, <1>4, <2>1, <2>2 DEF RunOK, MetOK
<1>10. health' \in RunStatuses
  BY DEF IInv, Typed
<1> QED
  BY <1>1, <1>2, <1>5, <1>6, <1>7, <1>8, <1>9, <1>10, MoveKeeps DEF RunOK

\* A run that is dealt with as far as run n is.
SameItems(x, n) ==
  /\ x.items = runs[n].items /\ x.next = runs[n].next /\ x.post = runs[n].post
  /\ x.imported = runs[n].imported /\ x.duplicates = runs[n].duplicates
  /\ x.errors = runs[n].errors

\* A run goes on after its items, or ends.
LEMMA GoesOnAfterItems ==
  ASSUME IInv, NEW n \in RunId, UnderWay(n), NEW x \in RunRow, SameItems(x, n),
         x.pc \in {"source", "failedRun", "failedSource", "done", "lost"},
         x.status = "completed" => runs[n].next = Len(runs[n].items) + 1,
         x.pc = "source" => x.status = "completed",
         x.pc = "failedSource" => x.status = "failed",
         x.pc \notin {"done", "lost"} /\ met[n] = {} =>
           \/ x.loaded = health'
           \/ x.loaded = "completed" /\ x.pc \in {"failedRun", "failedSource"},
         runs' = [runs EXCEPT ![n] = x], UNCHANGED <<today, posts, raw, met>>,
         health' \in RunStatuses, faults' \in 0..MaxFaults
  PROVE  IInv'
<1>1. runs[n] \in RunRow
  BY DEF IInv, Typed
<1>2. /\ x.items = runs[n].items /\ x.next = runs[n].next
      /\ x.post = runs[n].post /\ x.imported = runs[n].imported
      /\ x.duplicates = runs[n].duplicates /\ x.errors = runs[n].errors
      /\ runs' = [runs EXCEPT ![n] = x]
  BY DEF SameItems
<1>3. runs'[n] = x
  BY <1>2 DEF IInv, Typed
<1>4. RunOK(n)
  BY DEF IInv
<1>5. PlaceOK(n)'
  BY <1>2, <1>3, <1>4 DEF RunOK, PlaceOK, At, InItem, Searching, Creating
<1>6. FoundOK(n)'
  BY <1>2, <1>3, <1>4 DEF RunOK, FoundOK, At, Searching, Creating
<1>7. CountOK(n)'
  <2>1. \A outcome, dedup : RowsOf(n, outcome, dedup)' = RowsOf(n, outcome, dedup)
    BY DEF RowsOf
  <2>2. \A outcome, dedup : Cardinality(RowsOf(n, outcome, dedup)) \in Nat
    BY RowsCounted DEF IInv
  <2>3. /\ runs[n].imported \in Nat /\ runs[n].duplicates \in Nat
        /\ runs[n].errors \in Nat /\ runs[n].next \in Nat
    BY <1>1 DEF RunRow
  <2>4. /\ runs[n].imported = Cardinality(RowsOf(n, "processed", "unique"))
        /\ runs[n].duplicates >= Cardinality(RowsOf(n, "processed", "duplicate"))
        /\ runs[n].errors >= Cardinality(RowsOf(n, "failed", "unique"))
        /\ runs[n].imported + runs[n].duplicates + runs[n].errors >= runs[n].next - 1
    BY <1>4, CountsAtLeast, <1>1 DEF RunOK, IInv
  <2>5. ~At(n, "duplicate")' /\ ~At(n, "failed")'
    BY <1>2, <1>3 DEF At
  <2> QED
    BY <1>2, <1>3, <2>1, <2>2, <2>3, <2>4, <2>5 DEF CountOK
<1>8. CoverOK(n)'
  BY <1>2, <1>3, <1>4 DEF RunOK, CoverOK, Covered, Posted, FailedBefore, TakenFor, Mistakable
<1>9. MetOK(n)'
  <2>1. \A m \in RunId : UnderWay(m)' => UnderWay(m)
    BY <1>1, <1>2 DEF UnderWay, IInv, Typed
  <2> QED
    BY <1>2, <1>3, <1>4, <2>1 DEF RunOK, MetOK, UnderWay
<1> QED
  BY <1>1, <1>2, <1>5, <1>6, <1>7, <1>8, <1>9, MoveKeeps DEF RunOK

\* The post of a row that matches an item may be linked to it, and an item whose
\* match has no post is dealt with.
LEMMA MatchIsRight ==
  ASSUME IInv, NEW k \in DOMAIN raw, NEW i \in Item, NEW d, Matches(raw[k], i, d)
  PROVE  LinkOK(raw[k].post, i) /\ (raw[k].post = NoPost => Covered(i))
<1>1. RowOK(k) /\ raw[k] \in RawRows /\ Typed
  <2>1. RowOK(k) /\ raw \in Seq(RawRows) /\ Typed
    BY DEF IInv, Typed
  <2> QED
    BY <2>1
<1> DEFINE j == raw[k].item  p == raw[k].post
<1>2. /\ raw[k].outcome \in {"processed", "failed"} /\ j \in Item
      /\ raw[k].ext = ExtOf[j] /\ LinkOK(p, j)
  BY <1>1 DEF RawRows, RowOK
<1>3. CASE ExtOf[i] # None /\ raw[k].ext = ExtOf[i]
  <2>1. JobOf[j] = JobOf[i] /\ ExtOf[j] = ExtOf[i] /\ ExtOf[i] # None
    BY <1>2, <1>3, ExternalIdAssumption
  <2>2. CASE p # NoPost
    BY <1>1, <1>2, <2>1, <2>2, LinkedIsCovered
  <2>3. CASE p = NoPost
    <3>1. LinkOK(p, i)
      BY <1>2, <2>3 DEF LinkOK
    <3>2. CASE raw[k].outcome = "processed"
      <4>1. Covered(j)
        BY <1>1, <3>2 DEF RowOK
      <4>2. Posted(j) => Posted(i)
        BY <2>1 DEF Posted
      <4>3. FailedBefore(j) => FailedBefore(i)
        BY <2>1 DEF FailedBefore
      <4>4. \A q : TakenFor(j, q) => TakenFor(i, q)
        BY <2>1 DEF TakenFor
      <4>5. Covered(i)
        BY <4>1, <4>2, <4>3, <4>4 DEF Covered
      <4> QED
        BY <3>1, <4>5
    <3>3. CASE raw[k].outcome = "failed"
      BY <1>3, <3>1, <3>3 DEF Covered, FailedBefore
    <3> QED
      BY <1>2, <3>2, <3>3
  <2> QED
    BY <2>2, <2>3
<1>4. CASE raw[k].print = Fingerprint(i, d) /\ raw[k].dedup = "unique"
  <2>1. raw[k].outcome = "processed"
    BY <1>1, <1>2, <1>4, PrintsIdentify DEF RowOK
  <2>2. PICK e : raw[k].print = Fingerprint(j, e)
    BY <1>1, <2>1 DEF RowOK
  <2>3. Mistakable(i, j)
    <3>1. Fingerprint(i, d) = Fingerprint(j, e)
      BY <1>4, <2>2
    <3> HIDE DEF j
    <3> QED
      BY <3>1, PrintsIdentify
  <2>4. p \in DOMAIN posts /\ posts[p].item = j
    BY <1>1, <1>4, <2>1 DEF RowOK
  <2>5. p # NoPost
    BY <1>1, <2>4 DEF Typed, NoPost
  <2>6. LinkOK(p, i)
    BY <1>2, <2>3, <2>4, <2>5 DEF LinkOK, Akin
  <2> QED
    BY <2>5, <2>6
<1> QED
  BY <1>3, <1>4 DEF Matches

\* Where the item of a run is.
LEMMA ThisIsAnItem ==
  ASSUME IInv, NEW n \in RunId, runs[n].pc \in InItem
  PROVE  /\ runs[n].next \in 1..Len(runs[n].items) /\ This(n) \in Item
         /\ runs[n].status # "completed" /\ UnderWay(n)
<1>1. PlaceOK(n) /\ runs[n] \in RunRow
  BY DEF IInv, RunOK, Typed
<1>2. runs[n].items \in Seq(Item) /\ runs[n].next \in Nat
  BY <1>1 DEF RunRow
<1>3. runs[n].next \in 1..Len(runs[n].items)
  BY <1>1, <1>2 DEF PlaceOK
<1>4. This(n) \in Item
  BY <1>2, <1>3 DEF This
<1>5. runs[n].status # "completed"
  BY <1>1, <1>2, <1>3 DEF PlaceOK
<1> QED
  BY <1>3, <1>4, <1>5 DEF UnderWay, InItem, Searching, Creating

\* The look-up for a duplicate.
LEMMA LookKeeps ==
  ASSUME IInv, NEW n \in RunId, Look(n)
  PROVE  IInv'
<1>1. /\ runs[n].pc = "look" /\ runs[n].pc \in InItem /\ UnderWay(n) /\ runs[n] \in RunRow
      /\ This(n) \in Item /\ runs[n].status # "completed"
      /\ UNCHANGED <<today, posts, raw, health, met, faults>> /\ RunOK(n)
      /\ today \in 1..MaxDay
  BY ThisIsAnItem DEF Look, At, InItem, IInv, Typed
<1> DEFINE Row(x) == /\ x \in RunRow /\ runs' = [runs EXCEPT ![n] = x]
                     /\ x.status = runs[n].status /\ x.items = runs[n].items
                     /\ x.next = runs[n].next /\ x.loaded = runs[n].loaded
                     /\ x.day = today /\ x.imported = runs[n].imported
                     /\ x.errors = runs[n].errors
<1>2. PICK x : /\ Row(x)
               /\ \/ /\ x.pc = "company" /\ x.post = runs[n].post
                     /\ x.duplicates = runs[n].duplicates
                     /\ \A k \in DOMAIN raw : ~Matches(raw[k], This(n), today)
                  \/ /\ x.pc = "duplicate" /\ x.duplicates = runs[n].duplicates + 1
                     /\ LinkOK(x.post, This(n))
                     /\ x.post = NoPost => Covered(This(n))
  <2>1. CASE {k \in DOMAIN raw : Matches(raw[k], This(n), today)} = {}
    <3> DEFINE x == [runs[n] EXCEPT !.pc = "company", !.day = today]
    <3>1. Row(x) /\ x.pc = "company" /\ x.post = runs[n].post
          /\ x.duplicates = runs[n].duplicates
      BY <1>1, <2>1 DEF Look, RunRow, Positions, InItem, Searching
    <3>2. \A k \in DOMAIN raw : ~Matches(raw[k], This(n), today)
      BY <2>1
    <3> HIDE DEF x, Row
    <3> QED
      BY <3>1, <3>2
  <2>2. ASSUME NEW k \in DOMAIN raw, Matches(raw[k], This(n), today),
               runs' = [runs EXCEPT ![n] = [runs[n] EXCEPT !.pc = "duplicate", !.day = today,
                          !.post = raw[k].post, !.duplicates = runs[n].duplicates + 1]]
        PROVE  \E x : /\ Row(x) /\ x.pc = "duplicate"
                      /\ x.duplicates = runs[n].duplicates + 1
                      /\ LinkOK(x.post, This(n))
                      /\ x.post = NoPost => Covered(This(n))
    <3> DEFINE x == [runs[n] EXCEPT !.pc = "duplicate", !.day = today,
                       !.post = raw[k].post, !.duplicates = runs[n].duplicates + 1]
    <3>1. raw[k].post \in Nat /\ runs[n].duplicates + 1 \in Nat
      <4>1. raw[k] \in RawRows
        <5>1. raw \in Seq(RawRows)
          BY DEF IInv, Typed
        <5> QED
          BY <5>1, <2>2
      <4> QED
        BY <1>1, <4>1 DEF RawRows, RunRow
    <3>2. Row(x) /\ x.pc = "duplicate" /\ x.duplicates = runs[n].duplicates + 1
          /\ x.post = raw[k].post
      BY <1>1, <2>2, <3>1 DEF RunRow, Positions, InItem
    <3>3. LinkOK(raw[k].post, This(n)) /\ (raw[k].post = NoPost => Covered(This(n)))
      BY <1>1, <2>2, MatchIsRight
    <3> HIDE DEF x, Row
    <3> QED
      BY <3>2, <3>3
  <2> QED
    BY <2>1, <2>2 DEF Look
<1>3. runs'[n] = x /\ This(n)' = This(n)
  BY <1>2 DEF IInv, Typed, This
<1>4. PlaceOK(n)'
  BY <1>1, <1>2, <1>3 DEF RunOK, PlaceOK, At, InItem, Searching
<1>5. FoundOK(n)'
  <2>1. CASE x.pc = "company"
    <3>1. \A k \in DOMAIN raw : ~Matches(raw[k], This(n), today)
      BY <1>2, <2>1
    <3>2. ASSUME NEW p \in DOMAIN posts, Again(p, n)', Traced(p) PROVE FALSE
      <4>1. PICK k \in DOMAIN raw : raw[k].post = p
        BY <3>2 DEF Traced
      <4>2. p # NoPost /\ LinkOK(p, raw[k].item)
        BY <4>1 DEF IInv, RowOK, Typed, NoPost
      <4>3. PICK j \in DOMAIN raw : /\ raw[j].dedup = "unique" /\ raw[j].print = PrintOf(p)
                                    /\ raw[j].ext = ExtOf[posts[p].item]
        BY <4>2 DEF LinkOK, Akin, Original
      <4>4. \/ PrintOf(p) = Fingerprint(This(n), today)
            \/ ExtOf[This(n)] # None /\ ExtOf[This(n)] = ExtOf[posts[p].item]
        BY <1>1, <1>2, <1>3, <3>2 DEF Again, PrintOf, Fingerprint
      <4>5. Matches(raw[j], This(n), today)
        BY <4>3, <4>4 DEF Matches
      <4> QED
        BY <3>1, <4>5
    <3>3. \A p : Traced(p)' => Traced(p)
      BY <1>1 DEF Traced
    <3> QED
      BY <1>1, <1>2, <1>3, <2>1, <3>2, <3>3 DEF RunOK, FoundOK, At, Creating
  <2>2. CASE x.pc = "duplicate"
    <3>1. LinkOK(x.post, This(n)) /\ (x.post = NoPost => Covered(This(n)))
      BY <1>2, <2>2
    <3>2. LinkOK(runs[n].post, This(n))'
      BY <1>1, <1>3, <3>1 DEF LinkOK, Akin, TakenFor, Mistakable, Original, PrintOf, Fingerprint
    <3>3. x.post = NoPost => Covered(This(n))'
      BY <1>1, <1>3, <3>1 DEF Covered, Posted, FailedBefore, TakenFor, Mistakable
    <3>4. x.post \in 0..Len(posts)
      BY <3>1 DEF LinkOK
    <3> QED
      BY <1>1, <1>2, <1>3, <2>2, <3>2, <3>3, <3>4 DEF FoundOK, At, Searching, Creating
  <2> QED
    BY <1>2, <2>1, <2>2
<1>6. CountOK(n)'
  <2>1. \A outcome, dedup : RowsOf(n, outcome, dedup)' = RowsOf(n, outcome, dedup)
    BY <1>1 DEF RowsOf
  <2>2. \A outcome, dedup : Cardinality(RowsOf(n, outcome, dedup)) \in Nat
    BY RowsCounted DEF IInv
  <2>3. /\ runs[n].imported \in Nat /\ runs[n].duplicates \in Nat
        /\ runs[n].errors \in Nat /\ runs[n].next \in Nat
    BY <1>1 DEF RunRow
  <2>4. CountOK(n) /\ ~At(n, "duplicate") /\ ~At(n, "failed")
    BY <1>1 DEF RunOK, At
  <2>5. CASE x.pc = "company"
    BY <1>2, <1>3, <2>1, <2>4, <2>5 DEF CountOK, At
  <2>6. CASE x.pc = "duplicate"
    BY <1>2, <1>3, <2>1, <2>2, <2>3, <2>4, <2>6 DEF CountOK, At
  <2> QED
    BY <1>2, <2>5, <2>6
<1>7. CoverOK(n)'
  BY <1>1, <1>2, <1>3 DEF RunOK, CoverOK, Covered, Posted, FailedBefore, TakenFor, Mistakable
<1>8. MetOK(n)'
  <2>1. \A m \in RunId : UnderWay(m)' => UnderWay(m)
    BY <1>1, <1>2 DEF UnderWay, IInv, Typed
  <2> QED
    BY <1>1, <1>2, <1>3, <2>1 DEF RunOK, MetOK
<1> QED
  <2>1. health' \in RunStatuses /\ faults' \in 0..MaxFaults
    BY <1>1 DEF IInv, Typed
  <2>2. RunOK(n)'
    BY <1>4, <1>5, <1>6, <1>7, <1>8 DEF RunOK
  <2> QED
    BY <1>1, <1>2, <2>1, <2>2, MoveKeeps

\* Companies and skills are found or created; a unique index may refuse.
LEMMA NamesKeep ==
  ASSUME IInv, NEW n \in RunId,
         FindCompany(n) \/ FindSkill(n) \/ CreateCompany(n) \/ CreateSkill(n)
  PROVE  IInv'
<1>1. faults' \in 0..MaxFaults /\ UNCHANGED <<today, posts, raw, health, met, faults>>
  BY DEF FindCompany, FindSkill, CreateCompany, CreateSkill, CreateNamed, IInv, Typed
<1>2. \/ \E pc : /\ runs' = [runs EXCEPT ![n] = [runs[n] EXCEPT !.pc = pc]]
                 /\ \/ runs[n].pc \in Searching /\ pc \in Searching
                    \/ runs[n].pc \in Creating /\ pc \in Creating
      \/ /\ runs[n].pc \in InItem \ {"failed"}
         /\ runs' = [runs EXCEPT ![n] =
                       [runs[n] EXCEPT !.pc = "failed", !.errors = runs[n].errors + 1]]
  <2>1. CASE FindCompany(n)
    BY <2>1 DEF FindCompany, Goto, At, Searching
  <2>2. CASE FindSkill(n)
    BY <2>2 DEF FindSkill, Goto, At, Creating
  <2>3. CASE CreateCompany(n)
    BY <2>3 DEF CreateCompany, CreateNamed, Conflict, At, Searching, InItem
  <2>4. CASE CreateSkill(n)
    BY <2>4 DEF CreateSkill, CreateNamed, Conflict, At, Creating, InItem
  <2> QED
    BY <2>1, <2>2, <2>3, <2>4
<1> QED
  BY <1>1, <1>2, GoesOn, ItemFails

\* The run and the source are saved.
LEMMA SavesKeep ==
  ASSUME IInv, NEW n \in RunId,
         SaveRun(n) \/ SaveSource(n) \/ SaveFailedRun(n) \/ SaveFailedSource(n)
  PROVE  IInv'
<1>1. /\ UNCHANGED <<today, posts, raw, met, faults>> /\ UnderWay(n)
      /\ faults' \in 0..MaxFaults /\ RunOK(n) /\ runs[n] \in RunRow
  BY DEF SaveRun, SaveSource, SaveFailedRun, SaveFailedSource, IInv, Typed, UnderWay, At
<1>2. /\ runs[n].status \in RunStatuses /\ runs[n].loaded \in RunStatuses
      /\ health \in RunStatuses
      /\ runs[n].status = "completed" => runs[n].next = Len(runs[n].items) + 1
  BY <1>1 DEF RunRow, RunOK, PlaceOK, IInv, Typed
<1>3. met[n] = {} => \/ runs[n].loaded = health
                     \/ runs[n].loaded = "completed" /\ runs[n].pc \in {"failedRun", "failedSource"}
  BY <1>1 DEF RunOK, MetOK
<1>4. PICK x \in RunRow :
        /\ runs' = [runs EXCEPT ![n] = x] /\ SameItems(x, n) /\ x.loaded = runs[n].loaded
        /\ health' \in RunStatuses
        /\ \/ /\ At(n, "finish") /\ x.pc = "source" /\ x.status = "completed"
              /\ health' = health
           \/ /\ At(n, "failedRun") /\ x.pc = "failedSource" /\ x.status = "failed"
              /\ health' = health
           \/ x.pc = "done" /\ x.status = runs[n].status
  <2>1. CASE SaveRun(n)
    <3> DEFINE x == [runs[n] EXCEPT !.status = "completed", !.pc = "source"]
    <3>1. x \in RunRow /\ SameItems(x, n) /\ x.loaded = runs[n].loaded
          /\ x.pc = "source" /\ x.status = "completed"
      BY <1>1 DEF RunRow, RunStatuses, Positions, SameItems
    <3>2. runs' = [runs EXCEPT ![n] = x] /\ At(n, "finish") /\ health' = health
      BY <2>1 DEF SaveRun
    <3> HIDE DEF x
    <3> QED
      BY <1>2, <3>1, <3>2
  <2>2. CASE SaveFailedRun(n)
    <3> DEFINE x == [runs[n] EXCEPT !.status = "failed", !.pc = "failedSource"]
    <3>1. x \in RunRow /\ SameItems(x, n) /\ x.loaded = runs[n].loaded
          /\ x.pc = "failedSource" /\ x.status = "failed"
      BY <1>1 DEF RunRow, RunStatuses, Positions, SameItems
    <3>2. runs' = [runs EXCEPT ![n] = x] /\ At(n, "failedRun") /\ health' = health
      BY <2>2 DEF SaveFailedRun, FailedRun
    <3> HIDE DEF x
    <3> QED
      BY <1>2, <3>1, <3>2
  <2>3. CASE SaveSource(n) \/ SaveFailedSource(n)
    <3> DEFINE x == [runs[n] EXCEPT !.pc = "done"]
    <3>1. x \in RunRow /\ SameItems(x, n) /\ x.loaded = runs[n].loaded
          /\ x.pc = "done" /\ x.status = runs[n].status
      BY <1>1 DEF RunRow, Positions, SameItems
    <3>2. runs' = [runs EXCEPT ![n] = x]
      BY <2>3 DEF SaveSource, SaveFailedSource, Goto
    <3>3. health' \in RunStatuses
      BY <1>2, <2>3 DEF SaveSource, SaveFailedSource, SourceStatus, RunStatuses
    <3> HIDE DEF x
    <3> QED
      BY <3>1, <3>2, <3>3
  <2> QED
    BY <2>1, <2>2, <2>3
<1>5. /\ x.pc \in {"source", "failedRun", "failedSource", "done", "lost"}
      /\ x.status = "completed" => runs[n].next = Len(runs[n].items) + 1
      /\ x.pc = "source" => x.status = "completed"
      /\ x.pc = "failedSource" => x.status = "failed"
  BY <1>1, <1>2, <1>4 DEF RunOK, PlaceOK
<1>6. x.pc \notin {"done", "lost"} /\ met[n] = {} =>
        \/ x.loaded = health'
        \/ x.loaded = "completed" /\ x.pc \in {"failedRun", "failedSource"}
  BY <1>3, <1>4 DEF At
<1> QED
  BY <1>1, <1>4, <1>5, <1>6, GoesOnAfterItems

\* The process dies.
LEMMA CrashKeeps ==
  ASSUME IInv, NEW n \in RunId, Crash(n)
  PROVE  IInv'
<1>1. /\ UNCHANGED <<today, posts, raw, health, met>> /\ UnderWay(n)
      /\ faults' \in 0..MaxFaults /\ RunOK(n) /\ runs[n] \in RunRow
      /\ health' \in RunStatuses
  BY IngestionAssumption DEF Crash, Fault, IInv, Typed
<1> DEFINE x == [runs[n] EXCEPT !.pc = "lost"]
<1>2. x \in RunRow /\ SameItems(x, n) /\ x.pc = "lost" /\ x.status = runs[n].status
  BY <1>1 DEF RunRow, Positions, SameItems
<1>3. runs' = [runs EXCEPT ![n] = x]
  BY DEF Crash, Goto
<1>4. runs[n].status = "completed" => runs[n].next = Len(runs[n].items) + 1
  BY <1>1 DEF RunOK, PlaceOK
<1> HIDE DEF x
<1> QED
  BY <1>1, <1>2, <1>3, <1>4, GoesOnAfterItems

-----------------------------------------------------------------------------
(* Steps that store a raw job, and end an item *)

\* The record of a run that has dealt with its item.
LEMMA AdvancedRow ==
  ASSUME NEW run \in RunRow, run.next <= Len(run.items)
  PROVE  /\ Advanced(run) \in RunRow
         /\ Advanced(run).next = run.next + 1 /\ Advanced(run).post = NoPost
         /\ Advanced(run).pc = IF run.next = Len(run.items) THEN "finish" ELSE "look"
         /\ Advanced(run).items = run.items /\ Advanced(run).status = run.status
         /\ Advanced(run).loaded = run.loaded /\ Advanced(run).errors = run.errors
         /\ Advanced(run).imported = run.imported
         /\ Advanced(run).duplicates = run.duplicates
<1>1. run.next + 1 \in Nat \ {0} /\ NoPost \in Nat
  BY DEF RunRow, NoPost
<1> QED
  BY <1>1 DEF Advanced, RunRow, Positions, InItem

\* Run n leaves its item: what it stored is sound, and counted.
LEMMA AdvanceKeeps ==
  ASSUME IInv, NEW n \in RunId, runs[n].pc \in InItem, NEW i, i = This(n),
         NEW x \in RunRow, runs' = [runs EXCEPT ![n] = x],
         x.next = runs[n].next + 1, x.post = NoPost,
         x.pc = IF runs[n].next = Len(runs[n].items) THEN "finish" ELSE "look",
         x.items = runs[n].items, x.status = runs[n].status, x.loaded = runs[n].loaded,
         x.errors = runs[n].errors,
         UNCHANGED <<today, posts, health, met>>, faults' \in 0..MaxFaults,
         raw' \in Seq(RawRows), Grown(n),
         \A k \in DOMAIN raw' \ DOMAIN raw : RowOK(k)',
         CountOK(n)', runs[n].errors = 0 => Covered(i)',
         \A p \in DOMAIN posts : Traced(p)' /\ ~Traced(p) =>
            \A q \in DOMAIN posts : q > p => posts[q].run \in met[posts[p].run]
  PROVE  IInv'
<1>1. /\ Typed /\ RunOK(n) /\ runs[n] \in RunRow /\ runs'[n] = x
      /\ \A m \in RunId \ {n} : runs'[m] = runs[m]
      /\ runs[n].next \in 1..Len(runs[n].items) /\ UnderWay(n)
      /\ runs[n].status # "completed" /\ runs[n].next \in Nat
      /\ Len(runs[n].items) \in Nat
  <2>1. /\ Typed /\ RunOK(n) /\ runs[n] \in RunRow /\ runs'[n] = x
        /\ \A m \in RunId \ {n} : runs'[m] = runs[m]
    BY DEF IInv, Typed
  <2>2. runs[n].items \in Seq(Item) /\ runs[n].next \in Nat
    BY <2>1 DEF RunRow
  <2> QED
    BY <2>1, <2>2, ThisIsAnItem
<1>2. Typed'
  BY <1>1 DEF Typed
<1>3. PlaceOK(n)'
  <2>1. x.next \in 1..(Len(x.items) + 1)
    BY <1>1
  <2>2. x.pc = "look" => x.next <= Len(x.items)
    BY <1>1
  <2>3. x.pc = "finish" => x.next = Len(x.items) + 1
    BY <1>1
  <2>4. x.pc \in {"look", "finish"}
    OBVIOUS
  <2> QED
    BY <1>1, <2>1, <2>2, <2>3, <2>4 DEF PlaceOK, At, InItem, Searching, Creating
<1>4. FoundOK(n)'
  <2>1. NoPost \in 0..Len(posts)
    BY <1>1 DEF Typed, NoPost
  <2>2. x.pc \in {"finish", "look"}
    OBVIOUS
  <2> QED
    BY <1>1, <2>1, <2>2 DEF FoundOK, At, Searching, Creating
<1>5. CoverOK(n)'
  <2> SUFFICES ASSUME runs[n].errors = 0, NEW k \in 1..runs[n].next
               PROVE  Covered(runs[n].items[k])'
    BY <1>1 DEF CoverOK
  <2>1. PICK j : j = runs[n].items[k]
    OBVIOUS
  <2>2. CASE k = runs[n].next
    <3>1. j = i
      BY <2>1, <2>2 DEF This
    <3>2. Covered(j)'
      BY <3>1
    <3> QED
      BY <1>1, <2>1, <3>2 DEF Covered, Posted, FailedBefore, TakenFor, Mistakable
  <2>3. CASE k # runs[n].next
    <3>1. k \in 1..(runs[n].next - 1)
      BY <1>1, <2>3
    <3>2. Covered(j)
      BY <1>1, <2>1, <3>1 DEF RunOK, CoverOK
    <3>3. Covered(j)'
      BY <1>1, <1>2, <3>2, FindsLast
    <3> QED
      BY <1>1, <2>1, <3>3 DEF Covered, Posted, FailedBefore, TakenFor, Mistakable
  <2> QED
    BY <2>2, <2>3
<1>6. MetOK(n)'
  <2>1. \A m \in RunId : UnderWay(m)' => UnderWay(m)
    BY <1>1 DEF UnderWay
  <2>2. runs[n].pc \notin {"failedRun", "failedSource"}
    BY DEF InItem, Searching, Creating
  <2> QED
    BY <1>1, <2>1, <2>2 DEF RunOK, MetOK
<1>7. SecondPostExplained'
  <2>1. \A p, q : SameVacancy(p, q)' => SameVacancy(p, q)
    BY DEF SameVacancy, PrintOf, Fingerprint
  <2> QED
    BY <2>1 DEF IInv, SecondPostExplained
<1>8. Kept(n)
  BY <1>1, <1>2, <1>3, <1>4, <1>5, <1>6, <1>7 DEF Kept, RunOK
<1> QED
  BY <1>8, KeptIsEnough

\* A raw job is added.
LEMMA RawAppended ==
  ASSUME Typed, NEW e \in RawRows, raw' = Append(raw, e)
  PROVE  /\ raw' \in Seq(RawRows)
         /\ \A k \in DOMAIN raw : k \in DOMAIN raw' /\ raw'[k] = raw[k]
         /\ \A k \in DOMAIN raw' \ DOMAIN raw : raw'[k] = e
         /\ \E k \in DOMAIN raw' : raw'[k] = e
         /\ \A p : Traced(p)' => Traced(p) \/ p = e.post
<1>1. /\ raw' \in Seq(RawRows) /\ Len(raw) \in Nat /\ DOMAIN raw = 1..Len(raw)
      /\ DOMAIN raw' = 1..(Len(raw) + 1)
      /\ \A k \in DOMAIN raw : raw'[k] = raw[k]
      /\ raw'[Len(raw) + 1] = e
  BY AppendProperties DEF Typed
<1>2. \A k \in DOMAIN raw' : k \in DOMAIN raw \/ k = Len(raw) + 1
  BY <1>1
<1> QED
  BY <1>1, <1>2 DEF Traced

\* The raw job a run stores for its item.
LEMMA RawRowTyped ==
  ASSUME IInv, NEW n \in RunId, runs[n].pc \in InItem, NEW print \in Prints,
         NEW outcome \in {"processed", "failed"}, NEW dedup \in {"unique", "duplicate"},
         NEW p \in Nat
  PROVE  /\ RawRow(n, print, outcome, dedup, p) \in RawRows
         /\ RawRow(n, print, outcome, dedup, p)
              = [run |-> n, item |-> This(n), ext |-> ExtOf[This(n)], print |-> print,
                 outcome |-> outcome, dedup |-> dedup, post |-> p]
<1>1. This(n) \in Item
  BY ThisIsAnItem
<1> QED
  BY <1>1 DEF RawRow, RawRows

\* A duplicate is stored, with the link of the raw job it matched.
LEMMA StoreDuplicateKeeps ==
  ASSUME IInv, NEW n \in RunId, StoreDuplicate(n)
  PROVE  IInv'
<1> DEFINE i == This(n)  p == runs[n].post
           print == Fingerprint(i, runs[n].day)
           e == RawRow(n, print, "processed", "duplicate", p)
           x == Advanced(runs[n])
<1>1. /\ runs[n].pc = "duplicate" /\ runs[n].pc \in InItem /\ Typed /\ runs[n] \in RunRow
      /\ i \in Item /\ runs[n].next <= Len(runs[n].items) /\ RunOK(n)
  BY ThisIsAnItem DEF StoreDuplicate, At, InItem, IInv, Typed
<1>2. /\ raw' = Append(raw, e) /\ runs' = [runs EXCEPT ![n] = x]
      /\ UNCHANGED <<today, posts, health, met, faults>>
  BY DEF StoreDuplicate
<1>3. p \in Nat /\ runs[n].day \in 1..MaxDay /\ print \in Prints
  BY <1>1 DEF RunRow, Prints
<1>4. /\ e \in RawRows /\ e.run = n /\ e.item = i /\ e.ext = ExtOf[i] /\ e.print = print
      /\ e.outcome = "processed" /\ e.dedup = "duplicate" /\ e.post = p
  BY <1>1, <1>3, RawRowTyped
<1>5. LinkOK(p, i) /\ (p = NoPost => Covered(i))
  BY <1>1 DEF RunOK, FoundOK, At
<1>6. p \in DOMAIN posts => Traced(p)
  BY <1>1, <1>5 DEF LinkOK, Original, Traced, NoPost, Typed
<1> HIDE DEF e
<1>7. /\ raw' \in Seq(RawRows)
      /\ \A k \in DOMAIN raw : k \in DOMAIN raw' /\ raw'[k] = raw[k]
      /\ \A k \in DOMAIN raw' \ DOMAIN raw : raw'[k] = e
      /\ \E k \in DOMAIN raw' : raw'[k] = e
      /\ \A q : Traced(q)' => Traced(q) \/ q = p
  BY <1>1, <1>2, <1>4, RawAppended
<1>8. Grown(n)
  BY <1>2, <1>4, <1>6, <1>7 DEF Grown
<1>9. /\ x \in RunRow /\ x.next = runs[n].next + 1 /\ x.post = NoPost
      /\ x.pc = IF runs[n].next = Len(runs[n].items) THEN "finish" ELSE "look"
      /\ x.items = runs[n].items /\ x.status = runs[n].status
      /\ x.loaded = runs[n].loaded /\ x.errors = runs[n].errors
      /\ x.imported = runs[n].imported /\ x.duplicates = runs[n].duplicates
  BY <1>1, AdvancedRow
<1> HIDE DEF x
<1>10. Typed' /\ runs'[n] = x
  BY <1>1, <1>2, <1>7, <1>9 DEF Typed
<1>dealt. ASSUME NEW c, NEW d, c = i, d = p PROVE LinkOK(d, c)' /\ Covered(c)'
  <2>1. LinkOK(d, c)' /\ (Covered(c) => Covered(c)')
    BY <1>1, <1>5, <1>8, <1>10, <1>dealt, FindsLast
  <2>2. CASE d = NoPost
    BY <1>5, <1>dealt, <2>1, <2>2
  <2>3. CASE d # NoPost
    <3>1. PICK k \in DOMAIN raw' : raw'[k] = e
      BY <1>7
    <3>2. (JobOf[raw[k].item] = JobOf[c] /\ raw[k].post = d)'
      BY <1>4, <1>dealt, <3>1
    <3>3. LinkOK(raw[k].post, raw[k].item)'
      BY <1>4, <1>dealt, <2>1, <3>1 DEF LinkOK, Akin, TakenFor, Mistakable, Original, PrintOf, Fingerprint
    <3>4. Akin(c, d)' /\ d \in DOMAIN posts'
      BY <1>10, <2>1, <2>3 DEF LinkOK, NoPost, Typed
    <3>5. (JobOf[posts[d].item] = JobOf[c])' => Covered(c)'
      BY <3>4 DEF Covered, Posted
    <3>6. TakenFor(c, d)' => Covered(c)'
      BY <3>4 DEF Covered
    <3>7. Mistakable(c, posts[d].item)' => TakenFor(c, d)'
      BY <1>4, <1>dealt, <3>1 DEF TakenFor, Mistakable
    <3>8. Covered(c)'
      BY <3>4, <3>5, <3>6, <3>7 DEF Akin
    <3> QED
      BY <2>1, <3>8
  <2> QED
    BY <2>2, <2>3
<1>11. ASSUME NEW k \in DOMAIN raw' \ DOMAIN raw PROVE RowOK(k)'
  <2>1. PICK c, d : c = i /\ d = p
    OBVIOUS
  <2>2. LinkOK(d, c)' /\ Covered(c)'
    BY <1>dealt, <2>1
  <2>3. raw'[k] = e
    BY <1>7
  <2>4. LinkOK(raw[k].post, raw[k].item)'
    BY <1>4, <2>1, <2>2, <2>3 DEF LinkOK, Akin, TakenFor, Mistakable, Original, PrintOf, Fingerprint
  <2>5. Covered(raw[k].item)'
    BY <1>4, <2>1, <2>2, <2>3 DEF Covered, Posted, FailedBefore, TakenFor, Mistakable
  <2>6. raw'[k].print = Fingerprint(raw'[k].item, runs[n].day)
    BY <1>4, <2>3
  <2>7. (\E b \in 1..MaxDay : raw[k].print = Fingerprint(raw[k].item, b))'
    BY <1>3, <2>6 DEF Fingerprint
  <2> QED
    BY <1>4, <2>3, <2>4, <2>5, <2>7 DEF RowOK
<1>12. CountOK(n)'
  <2> DEFINE I == Cardinality(RowsOf(n, "processed", "unique"))
             D == Cardinality(RowsOf(n, "processed", "duplicate"))
             F == Cardinality(RowsOf(n, "failed", "unique"))
  <2>1. I \in Nat /\ D \in Nat /\ F \in Nat /\ I' = I + 0 /\ D' = D + 1 /\ F' = F + 0
    BY <1>1, <1>2, <1>4, RowsAppend
  <2>2. /\ runs[n].imported = I /\ runs[n].duplicates >= D + 1 /\ runs[n].errors >= F + 0
        /\ runs[n].imported + runs[n].duplicates + runs[n].errors
             >= (runs[n].next - 1) + 1 + 0
    BY <1>1 DEF RunOK, CountOK, At
  <2>3. /\ runs[n].imported \in Nat /\ runs[n].duplicates \in Nat
        /\ runs[n].errors \in Nat /\ runs[n].next \in Nat
    BY <1>1 DEF RunRow
  <2>4. /\ runs[n].imported = I' /\ runs[n].duplicates >= D' + 0 /\ runs[n].errors >= F' + 0
        /\ runs[n].imported + runs[n].duplicates + runs[n].errors
             >= ((runs[n].next + 1) - 1) + 0 + 0
    BY <2>1, <2>2, <2>3
  <2>5. ~At(n, "duplicate")' /\ ~At(n, "failed")'
    BY <1>9, <1>10 DEF At
  <2> QED
    BY <1>9, <1>10, <2>4, <2>5 DEF CountOK
<1>13. PICK c : c = i
  OBVIOUS
<1>14. Covered(c)'
  BY <1>13, <1>dealt
<1>15. \A q \in DOMAIN posts : Traced(q)' => Traced(q)
  BY <1>6, <1>7
<1>16. faults' \in 0..MaxFaults
  BY <1>1, <1>2 DEF Typed
<1> HIDE DEF i
<1> QED
  BY <1>1, <1>2, <1>7, <1>8, <1>9, <1>11, <1>12, <1>13, <1>14, <1>15, <1>16, AdvanceKeeps DEF i

\* A raw job is stored with the post the run has created: from now on, the post is
\* found.
LEMMA StoreUniqueKeeps ==
  ASSUME IInv, NEW n \in RunId, StoreUnique(n)
  PROVE  IInv'
<1> DEFINE i == This(n)  p == runs[n].post
           print == Fingerprint(i, runs[n].day)
           e == RawRow(n, print, "processed", "unique", p)
           run == [runs[n] EXCEPT !.imported = runs[n].imported + 1]
           x == Advanced(run)
<1>1. /\ runs[n].pc = "store" /\ runs[n].pc \in InItem /\ Typed /\ runs[n] \in RunRow
      /\ i \in Item /\ runs[n].next <= Len(runs[n].items) /\ RunOK(n)
  BY ThisIsAnItem DEF StoreUnique, At, InItem, Creating, IInv, Typed
<1>2. /\ raw' = Append(raw, e) /\ runs' = [runs EXCEPT ![n] = x]
      /\ UNCHANGED <<today, posts, health, met, faults>>
  BY DEF StoreUnique, Imported
<1>3. p \in Nat /\ runs[n].day \in 1..MaxDay /\ print \in Prints
  BY <1>1 DEF RunRow, Prints
<1>4. /\ e \in RawRows /\ e.run = n /\ e.item = i /\ e.ext = ExtOf[i] /\ e.print = print
      /\ e.outcome = "processed" /\ e.dedup = "unique" /\ e.post = p
  BY <1>1, <1>3, RawRowTyped
<1>5. /\ p \in DOMAIN posts /\ p \in 0..Len(posts) /\ p # NoPost
      /\ posts[p].item = i /\ posts[p].day = runs[n].day /\ posts[p].run = n
      /\ \A q \in DOMAIN posts : q > p => posts[q].run \in met[n]
  BY <1>1 DEF RunOK, FoundOK, Creating, NoPost, Typed
<1> HIDE DEF e
<1>6. /\ raw' \in Seq(RawRows)
      /\ \A k \in DOMAIN raw : k \in DOMAIN raw' /\ raw'[k] = raw[k]
      /\ \A k \in DOMAIN raw' \ DOMAIN raw : raw'[k] = e
      /\ \E k \in DOMAIN raw' : raw'[k] = e
      /\ \A q : Traced(q)' => Traced(q) \/ q = p
  BY <1>1, <1>2, <1>4, RawAppended
<1>7. Grown(n)
  BY <1>2, <1>4, <1>5, <1>6 DEF Grown
<1>8. /\ x \in RunRow /\ x.next = runs[n].next + 1 /\ x.post = NoPost
      /\ x.pc = IF runs[n].next = Len(runs[n].items) THEN "finish" ELSE "look"
      /\ x.items = runs[n].items /\ x.status = runs[n].status
      /\ x.loaded = runs[n].loaded /\ x.errors = runs[n].errors
      /\ x.imported = runs[n].imported + 1 /\ x.duplicates = runs[n].duplicates
  <2>1. runs[n].imported + 1 \in Nat
    BY <1>1 DEF RunRow
  <2>2. /\ run \in RunRow /\ run.next = runs[n].next /\ run.items = runs[n].items
        /\ run.status = runs[n].status /\ run.loaded = runs[n].loaded
        /\ run.errors = runs[n].errors /\ run.duplicates = runs[n].duplicates
        /\ run.imported = runs[n].imported + 1
    BY <1>1, <2>1 DEF RunRow
  <2> HIDE DEF run
  <2> QED
    BY <1>1, <2>2, AdvancedRow
<1> HIDE DEF x
<1>9. Typed' /\ runs'[n] = x
  BY <1>1, <1>2, <1>6, <1>8 DEF Typed
<1>10. PICK c, d : c = i /\ d = p
  OBVIOUS
<1>11. LinkOK(d, c)' /\ Covered(c)'
  <2>1. Fingerprint(posts[d].item, posts[d].day) = print
    BY <1>5, <1>10
  <2>2. PrintOf(d)' = print
    BY <1>2, <2>1 DEF PrintOf, Fingerprint
  <2>3. Original(d)'
    BY <1>2, <1>4, <1>5, <1>6, <1>10, <2>2 DEF Original
  <2> QED
    BY <1>2, <1>5, <1>10, <2>3 DEF LinkOK, Akin, Covered, Posted
<1>12. ASSUME NEW k \in DOMAIN raw' \ DOMAIN raw PROVE RowOK(k)'
  <2>1. raw'[k] = e
    BY <1>6
  <2>2. LinkOK(raw[k].post, raw[k].item)'
    BY <1>4, <1>10, <1>11, <2>1 DEF LinkOK, Akin, TakenFor, Mistakable, Original, PrintOf, Fingerprint
  <2>3. Covered(raw[k].item)'
    BY <1>4, <1>10, <1>11, <2>1 DEF Covered, Posted, FailedBefore, TakenFor, Mistakable
  <2>4. raw'[k].print = Fingerprint(raw'[k].item, runs[n].day)
    BY <1>4, <2>1
  <2>5. (\E b \in 1..MaxDay : raw[k].print = Fingerprint(raw[k].item, b))'
    BY <1>3, <2>4 DEF Fingerprint
  <2>6. (raw[k].post \in DOMAIN posts /\ posts[raw[k].post].item = raw[k].item)'
    BY <1>2, <1>4, <1>5, <2>1
  <2> QED
    BY <1>4, <2>1, <2>2, <2>3, <2>5, <2>6 DEF RowOK
<1>13. CountOK(n)'
  <2> DEFINE I == Cardinality(RowsOf(n, "processed", "unique"))
             D == Cardinality(RowsOf(n, "processed", "duplicate"))
             F == Cardinality(RowsOf(n, "failed", "unique"))
  <2>1. I \in Nat /\ D \in Nat /\ F \in Nat /\ I' = I + 1 /\ D' = D + 0 /\ F' = F + 0
    BY <1>1, <1>2, <1>4, RowsAppend
  <2>2. /\ runs[n].imported = I /\ runs[n].duplicates >= D + 0 /\ runs[n].errors >= F + 0
        /\ runs[n].imported + runs[n].duplicates + runs[n].errors
             >= (runs[n].next - 1) + 0 + 0
    BY <1>1 DEF RunOK, CountOK, At
  <2>3. /\ runs[n].imported \in Nat /\ runs[n].duplicates \in Nat
        /\ runs[n].errors \in Nat /\ runs[n].next \in Nat
    BY <1>1 DEF RunRow
  <2>4. /\ runs[n].imported + 1 = I' /\ runs[n].duplicates >= D' + 0
        /\ runs[n].errors >= F' + 0
        /\ (runs[n].imported + 1) + runs[n].duplicates + runs[n].errors
             >= ((runs[n].next + 1) - 1) + 0 + 0
    BY <2>1, <2>2, <2>3
  <2>5. ~At(n, "duplicate")' /\ ~At(n, "failed")'
    BY <1>8, <1>9 DEF At
  <2> QED
    BY <1>8, <1>9, <2>4, <2>5 DEF CountOK
<1>14. \A q \in DOMAIN posts : Traced(q)' /\ ~Traced(q) =>
          \A b \in DOMAIN posts : b > q => posts[b].run \in met[posts[q].run]
  BY <1>5, <1>6
<1>15. faults' \in 0..MaxFaults
  BY <1>1, <1>2 DEF Typed
<1> HIDE DEF i
<1> QED
  BY <1>1, <1>2, <1>6, <1>7, <1>8, <1>10, <1>11, <1>12, <1>13, <1>14, <1>15, AdvanceKeeps DEF i

\* A failed item is stored, or its run gives that up.
LEMMA FailedItemKeeps ==
  ASSUME IInv, NEW n \in RunId, runs[n].pc = "failed",
         runs' = [runs EXCEPT ![n] = Advanced(runs[n])],
         raw' \in {raw, Append(raw, RawRow(n, Unlocated, "failed", "unique", NoPost))},
         UNCHANGED <<today, posts, health, met>>, faults' \in 0..MaxFaults
  PROVE  IInv'
<1> DEFINE i == This(n)
           e == RawRow(n, Unlocated, "failed", "unique", NoPost)
           x == Advanced(runs[n])
<1>1. /\ runs[n].pc \in InItem /\ Typed /\ runs[n] \in RunRow
      /\ i \in Item /\ runs[n].next <= Len(runs[n].items) /\ RunOK(n)
  BY ThisIsAnItem DEF InItem, IInv, Typed
<1>2. /\ e \in RawRows /\ e.run = n /\ e.item = i /\ e.ext = ExtOf[i]
      /\ e.print = Unlocated
      /\ e.outcome = "failed" /\ e.dedup = "unique" /\ e.post = NoPost
  <2>1. Unlocated \in Prints /\ NoPost \in Nat
    BY <1>1 DEF Prints, NoPost
  <2> QED
    BY <1>1, <2>1, RawRowTyped
<1> HIDE DEF e
<1>3. /\ raw' \in Seq(RawRows)
      /\ \A k \in DOMAIN raw : k \in DOMAIN raw' /\ raw'[k] = raw[k]
      /\ \A k \in DOMAIN raw' \ DOMAIN raw : raw'[k] = e
      /\ \A q : Traced(q)' => Traced(q) \/ q = NoPost
  <2>1. CASE raw' = raw
    BY <1>1, <2>1 DEF Traced, Typed
  <2>2. CASE raw' = Append(raw, e)
    BY <1>1, <1>2, <2>2, RawAppended
  <2> QED
    BY <2>1, <2>2 DEF e
<1>4. NoPost \notin DOMAIN posts /\ NoPost \in 0..Len(posts)
  BY <1>1 DEF Typed, NoPost
<1>5. Grown(n)
  BY <1>2, <1>3, <1>4 DEF Grown
<1>6. /\ x \in RunRow /\ x.next = runs[n].next + 1 /\ x.post = NoPost
      /\ x.pc = IF runs[n].next = Len(runs[n].items) THEN "finish" ELSE "look"
      /\ x.items = runs[n].items /\ x.status = runs[n].status
      /\ x.loaded = runs[n].loaded /\ x.errors = runs[n].errors
      /\ x.imported = runs[n].imported /\ x.duplicates = runs[n].duplicates
  BY <1>1, AdvancedRow
<1> HIDE DEF x
<1>7. runs' = [runs EXCEPT ![n] = x] /\ runs'[n] = x
  BY <1>1 DEF x, Typed
<1>8. ASSUME NEW k \in DOMAIN raw' \ DOMAIN raw PROVE RowOK(k)'
  <2>1. raw'[k] = e
    BY <1>3
  <2>2. LinkOK(raw[k].post, raw[k].item)'
    BY <1>2, <1>4, <2>1 DEF LinkOK
  <2> QED
    BY <1>2, <2>1, <2>2 DEF RowOK, Unlocated
<1>9. /\ runs[n].imported \in Nat /\ runs[n].duplicates \in Nat
      /\ runs[n].errors \in Nat /\ runs[n].next \in Nat
  BY <1>1 DEF RunRow
<1> DEFINE I == Cardinality(RowsOf(n, "processed", "unique"))
           D == Cardinality(RowsOf(n, "processed", "duplicate"))
           F == Cardinality(RowsOf(n, "failed", "unique"))
<1>10. /\ runs[n].imported = I /\ runs[n].duplicates >= D + 0 /\ runs[n].errors >= F + 1
       /\ runs[n].imported + runs[n].duplicates + runs[n].errors
            >= (runs[n].next - 1) + 0 + 1
  BY <1>1 DEF RunOK, CountOK, At
<1>11. I \in Nat /\ D \in Nat /\ F \in Nat /\ I' = I /\ D' = D /\ F' \in {F, F + 1}
  <2>1. I \in Nat /\ D \in Nat /\ F \in Nat
    BY <1>1, RowsCounted
  <2>2. CASE raw' = raw
    BY <2>1, <2>2 DEF RowsOf
  <2>3. CASE raw' = Append(raw, e)
    <3>1. I' = I + 0 /\ D' = D + 0 /\ F' = F + 1
      BY <1>1, <1>2, <2>3, RowsAppend
    <3> QED
      BY <2>1, <3>1
  <2> QED
    BY <2>2, <2>3 DEF e
<1>12. CountOK(n)'
  <2>1. /\ runs[n].imported = I' /\ runs[n].duplicates >= D' + 0 /\ runs[n].errors >= F' + 0
        /\ runs[n].imported + runs[n].duplicates + runs[n].errors
             >= ((runs[n].next + 1) - 1) + 0 + 0
    BY <1>9, <1>10, <1>11
  <2>2. ~At(n, "duplicate")' /\ ~At(n, "failed")'
    BY <1>6, <1>7 DEF At
  <2> QED
    BY <1>6, <1>7, <2>1, <2>2 DEF CountOK
<1>13. runs[n].errors # 0
  BY <1>9, <1>10, <1>11
<1>14. \A q \in DOMAIN posts : Traced(q)' => Traced(q)
  BY <1>3, <1>4
<1>15. PICK c : c = i
  OBVIOUS
<1> HIDE DEF i, I, D, F
<1> QED
  BY <1>1, <1>3, <1>5, <1>6, <1>7, <1>8, <1>12, <1>13, <1>14, <1>15, AdvanceKeeps DEF i

\* A call of a run fails.
LEMMA CallFailsKeeps ==
  ASSUME IInv, NEW n \in RunId, CallFails(n)
  PROVE  IInv'
<1>1. /\ UNCHANGED <<today, posts, raw, health, met>> /\ UnderWay(n)
      /\ faults' \in 0..MaxFaults /\ RunOK(n) /\ runs[n] \in RunRow
      /\ health' \in RunStatuses
  BY IngestionAssumption DEF CallFails, Fault, IInv, Typed
<1>2. CASE runs[n].pc = "failed"
  <2>1. runs' = [runs EXCEPT ![n] = Advanced(runs[n])]
    BY <1>2 DEF CallFails, At
  <2> QED
    BY <1>1, <1>2, <2>1, FailedItemKeeps
<1>3. CASE runs[n].pc \in {"finish", "source", "failedRun", "failedSource"}
  <2>1. /\ runs[n].status \in RunStatuses /\ runs[n].loaded \in RunStatuses
        /\ runs[n].status = "completed" => runs[n].next = Len(runs[n].items) + 1
        /\ met[n] = {} => runs[n].loaded = health \/ runs[n].loaded = "completed"
    BY <1>1 DEF RunRow, RunOK, PlaceOK, MetOK
  <2>2. PICK x \in RunRow :
          /\ runs' = [runs EXCEPT ![n] = x] /\ SameItems(x, n) /\ x.status = runs[n].status
          /\ \/ x.pc = "failedRun" /\ x.loaded = "completed"
             \/ x.pc = "failedRun" /\ x.loaded = runs[n].loaded /\ runs[n].pc = "finish"
             \/ x.pc \in {"lost", "done"}
    <3>1. CASE runs[n].pc = "finish"
      <4> DEFINE x == [runs[n] EXCEPT !.pc = "failedRun"]
      <4>1. x \in RunRow /\ SameItems(x, n) /\ x.status = runs[n].status
            /\ x.pc = "failedRun" /\ x.loaded = runs[n].loaded
        BY <1>1 DEF RunRow, Positions, SameItems
      <4>2. runs' = [runs EXCEPT ![n] = x]
        BY <3>1 DEF CallFails, At
      <4> HIDE DEF x
      <4> QED
        BY <3>1, <4>1, <4>2
    <3>2. CASE runs[n].pc = "source"
      <4> DEFINE x == [runs[n] EXCEPT !.pc = "failedRun", !.loaded = "completed"]
      <4>1. x \in RunRow /\ SameItems(x, n) /\ x.status = runs[n].status
            /\ x.pc = "failedRun" /\ x.loaded = "completed"
        BY <1>1 DEF RunRow, Positions, SameItems, RunStatuses
      <4>2. runs' = [runs EXCEPT ![n] = x]
        BY <3>2 DEF CallFails, At
      <4> HIDE DEF x
      <4> QED
        BY <4>1, <4>2
    <3>3. ASSUME NEW pc \in {"lost", "done"}, runs' = [runs EXCEPT ![n] = [runs[n] EXCEPT !.pc = pc]]
          PROVE  \E x \in RunRow : /\ runs' = [runs EXCEPT ![n] = x] /\ SameItems(x, n)
                                   /\ x.status = runs[n].status /\ x.pc \in {"lost", "done"}
      <4> DEFINE x == [runs[n] EXCEPT !.pc = pc]
      <4>1. x \in RunRow /\ SameItems(x, n) /\ x.status = runs[n].status
            /\ x.pc \in {"lost", "done"}
        BY <1>1 DEF RunRow, Positions, SameItems
      <4>2. runs' = [runs EXCEPT ![n] = x]
        BY <3>3
      <4> HIDE DEF x
      <4> QED
        BY <4>1, <4>2
    <3>4. runs[n].pc = "failedRun" =>
            runs' = [runs EXCEPT ![n] = [runs[n] EXCEPT !.pc = "lost"]]
      BY DEF CallFails, At
    <3>5. runs[n].pc = "failedSource" =>
            runs' = [runs EXCEPT ![n] = [runs[n] EXCEPT !.pc = "done"]]
      BY DEF CallFails, At
    <3> QED
      BY <1>3, <3>1, <3>2, <3>3, <3>4, <3>5
  <2>3. x.pc \notin {"done", "lost"} /\ met[n] = {} =>
          \/ x.loaded = health'
          \/ x.loaded = "completed" /\ x.pc \in {"failedRun", "failedSource"}
    BY <1>1, <2>1, <2>2
  <2> QED
    BY <1>1, <2>1, <2>2, <2>3, GoesOnAfterItems
<1>4. CASE runs[n].pc \in InItem \ {"failed"}
  <2>1. runs' = [runs EXCEPT ![n] =
                   [runs[n] EXCEPT !.pc = "failed", !.errors = runs[n].errors + 1]]
    BY <1>4 DEF CallFails, At, InItem, Searching, Creating
  <2> QED
    BY <1>1, <1>4, <2>1, ItemFails
<1> QED
  BY <1>1, <1>2, <1>3, <1>4 DEF RunRow, Positions, UnderWay

-----------------------------------------------------------------------------
(* The other steps *)

\* A post is created: whoever has one of the same vacancy was under way meanwhile,
\* or has left no trace of it.
LEMMA CreatePostKeeps ==
  ASSUME IInv, NEW n \in RunId, CreatePost(n)
  PROVE  IInv'
<1> DEFINE i == This(n)  L == Len(posts) + 1
           pc == IF SkillOf[i] = None THEN "store" ELSE "skill"
           e == [item |-> i, day |-> runs[n].day, run |-> n]
           x == [runs[n] EXCEPT !.post = L, !.pc = pc]
<1>1. /\ runs[n].pc = "post" /\ runs[n].pc \in InItem /\ Typed /\ runs[n] \in RunRow
      /\ i \in Item /\ UnderWay(n) /\ RunOK(n)
  BY ThisIsAnItem DEF CreatePost, At, InItem, Searching, IInv, Typed
<1>2. /\ posts' = Append(posts, e) /\ runs' = [runs EXCEPT ![n] = x]
      /\ UNCHANGED <<today, raw, health, met, faults>>
  BY DEF CreatePost
<1>3. e \in PostRow /\ e.item = i /\ e.day = runs[n].day /\ e.run = n
  BY <1>1 DEF PostRow, RunRow
<1>4. /\ posts' \in Seq(PostRow) /\ Len(posts) \in Nat /\ DOMAIN posts = 1..Len(posts)
      /\ Len(posts') = L /\ DOMAIN posts' = 1..L
      /\ \A p \in DOMAIN posts : p \in DOMAIN posts' /\ posts'[p] = posts[p]
      /\ posts'[L] = e /\ L \in DOMAIN posts'
      /\ \A p \in DOMAIN posts' : p \in DOMAIN posts \/ p = L
  <2> HIDE DEF e
  <2>1. /\ posts' \in Seq(PostRow) /\ Len(posts) \in Nat /\ DOMAIN posts = 1..Len(posts)
        /\ Len(posts') = L /\ DOMAIN posts' = 1..L
        /\ \A p \in DOMAIN posts : posts'[p] = posts[p]
        /\ posts'[L] = e
    BY <1>1, <1>2, <1>3, AppendProperties DEF Typed
  <2> QED
    BY <2>1
<1>5. /\ x \in RunRow /\ x.pc = pc /\ x.post = L /\ x.status = runs[n].status
      /\ x.items = runs[n].items /\ x.next = runs[n].next /\ x.loaded = runs[n].loaded
      /\ x.day = runs[n].day /\ x.imported = runs[n].imported
      /\ x.duplicates = runs[n].duplicates /\ x.errors = runs[n].errors
  <2>1. pc \in Positions /\ L \in Nat
    BY <1>4 DEF Positions, InItem, Creating
  <2> HIDE DEF pc, L
  <2> QED
    BY <1>1, <2>1 DEF RunRow
<1>6. pc \in {"store", "skill"}
  OBVIOUS
<1> HIDE DEF x, pc
<1>7. /\ runs'[n] = x /\ This(n)' = i
      /\ \A m \in RunId \ {n} : runs'[m] = runs[m]
  BY <1>1, <1>2, <1>5 DEF Typed, This
<1>8. Typed'
  BY <1>1, <1>2, <1>4, <1>5 DEF Typed
<1>9. Grown(n)
  BY <1>2, <1>3, <1>4 DEF Grown
<1>10. PlaceOK(n)'
  BY <1>1, <1>2, <1>5, <1>6, <1>7 DEF RunOK, PlaceOK, At, InItem, Creating
<1>11. FoundOK(n)'
  <2>1. \A q \in DOMAIN posts' : ~(q > L)
    BY <1>4
  <2>2. L \in 0..Len(posts')
    BY <1>4
  <2>3. posts'[L] = [item |-> This(n)', day |-> x.day, run |-> n]
    BY <1>4, <1>5, <1>7
  <2> HIDE DEF L, i, e
  <2> QED
    BY <1>4, <1>5, <1>6, <1>7, <2>1, <2>2, <2>3 DEF FoundOK, At, Searching, Creating
<1>12. CountOK(n)'
  <2>1. \A outcome, dedup : RowsOf(n, outcome, dedup)' = RowsOf(n, outcome, dedup)
    BY <1>2 DEF RowsOf
  <2>2. CountOK(n) /\ ~At(n, "duplicate") /\ ~At(n, "failed")
    BY <1>1 DEF RunOK, At
  <2>3. ~At(n, "duplicate")' /\ ~At(n, "failed")'
    BY <1>5, <1>6, <1>7 DEF At
  <2> QED
    BY <1>5, <1>7, <2>1, <2>2, <2>3 DEF CountOK
<1>13. CoverOK(n)'
  <2> SUFFICES ASSUME runs[n].errors = 0, NEW k \in 1..(runs[n].next - 1)
               PROVE  Covered(runs[n].items[k])'
    BY <1>5, <1>7 DEF CoverOK
  <2>1. PICK j : j = runs[n].items[k]
    OBVIOUS
  <2>2. Covered(j)
    BY <1>1, <2>1 DEF RunOK, CoverOK
  <2>3. Covered(j)'
    BY <1>1, <1>8, <1>9, <2>2, FindsLast
  <2> QED
    BY <1>5, <1>7, <2>1, <2>3 DEF Covered, Posted, FailedBefore, TakenFor, Mistakable
<1>14. MetOK(n)'
  <2>1. \A m \in RunId : UnderWay(m)' => UnderWay(m)
    BY <1>1, <1>7 DEF UnderWay
  <2> QED
    BY <1>1, <1>2, <1>5, <1>7, <2>1 DEF RunOK, MetOK
<1>15. SecondPostExplained'
  <2> SUFFICES ASSUME NEW p \in DOMAIN posts', NEW q \in DOMAIN posts', p < q,
                      SameVacancy(p, q)', Traced(p)'
               PROVE  posts'[q].run \in met[posts'[p].run]
    BY <1>2 DEF SecondPostExplained
  <2>1. p \in DOMAIN posts /\ posts'[p] = posts[p] /\ (PrintOf(p))' = PrintOf(p) /\ Traced(p)
    <3>1. p \in DOMAIN posts
      BY <1>4
    <3> QED
      BY <1>1, <1>2, <1>4, <1>8, <1>9, <3>1, FindsLast DEF Traced
  <2>2. CASE q \in DOMAIN posts
    <3>1. posts'[q] = posts[q] /\ (PrintOf(q))' = PrintOf(q)
      BY <1>1, <1>4, <1>8, <1>9, <2>2, FindsLast
    <3>2. SameVacancy(p, q)
      BY <2>1, <3>1 DEF SameVacancy
    <3> QED
      BY <2>1, <2>2, <3>1, <3>2 DEF IInv, SecondPostExplained
  <2>3. CASE q = L
    <3>1. posts'[q].item = i /\ posts'[q].day = runs[n].day /\ posts'[q].run = n
      BY <1>3, <1>4, <2>3
    <3>2. (PrintOf(q))' = Fingerprint(i, runs[n].day)
      BY <3>1 DEF PrintOf, Fingerprint
    <3>3. Again(p, n)
      BY <2>1, <3>1, <3>2 DEF SameVacancy, Again
    <3>4. posts[p].run \in met[n]
      BY <1>1, <2>1, <3>3 DEF RunOK, FoundOK, Searching
    <3>5. n \in met[posts[p].run]
      BY <1>1, <3>4 DEF RunOK, MetOK
    <3> QED
      BY <2>1, <3>1, <3>5
  <2> QED
    BY <1>4, <2>2, <2>3
<1>16. Kept(n)
  <2>1. DOMAIN raw' \ DOMAIN raw = {}
    BY <1>2
  <2> QED
    BY <1>1, <1>2, <1>7, <1>8, <1>9, <1>10, <1>11, <1>12, <1>13, <1>14, <1>15, <2>1
       DEF Kept, RunOK
<1> QED
  BY <1>16, KeptIsEnough

\* The day changes, or nothing does.
LEMMA DayKeeps ==
  ASSUME IInv, UNCHANGED <<posts, raw, runs, health, met, faults>>, today' \in 1..MaxDay
  PROVE  IInv'
<1>1. Typed /\ Typed'
  BY DEF IInv, Typed
<1>2. SecondPostExplained'
  BY DEF IInv, SecondPostExplained, SameVacancy, PrintOf, Traced, Fingerprint
<1>3. \A n : Grown(n)
  BY DEF Grown
<1>4. \A k \in DOMAIN raw' : RowOK(k)'
  BY <1>1, <1>3, RowLasts DEF IInv
<1>5. ASSUME NEW n \in RunId PROVE RunOK(n)'
  <2>1. RunOK(n)
    BY DEF IInv
  <2>2. PlaceOK(n)' /\ CountOK(n)'
    BY <2>1 DEF RunOK, PlaceOK, CountOK, RowsOf, At
  <2>3. FoundOK(n)'
    BY <2>1 DEF RunOK, FoundOK, LinkOK, Akin, Original, Covered, Posted, FailedBefore, TakenFor, Mistakable, Again,
                Traced, PrintOf, Fingerprint, This, At
  <2>4. CoverOK(n)' /\ MetOK(n)'
    BY <2>1 DEF RunOK, CoverOK, MetOK, Covered, Posted, FailedBefore, TakenFor, Mistakable, UnderWay
  <2> QED
    BY <2>2, <2>3, <2>4 DEF RunOK
<1> QED
  BY <1>1, <1>2, <1>4, <1>5 DEF IInv

-----------------------------------------------------------------------------
(* A run begins *)

\* A run begins: it meets the runs that are under way, and they meet it.
LEMMA StartKeeps ==
  ASSUME IInv, NEW n \in RunId, NEW items \in Batches, Start(n, items)
  PROVE  IInv'
<1> DEFINE x == [runs[n] EXCEPT !.status = "in_progress", !.items = items,
                    !.loaded = health, !.pc = IF items = <<>> THEN "finish" ELSE "look"]
<1>1. /\ Typed /\ runs[n] \in RunRow /\ runs[n].pc = "idle" /\ RunOK(n)
      /\ items \in Seq(Item) /\ UNCHANGED <<today, posts, raw, health, faults>>
  BY IngestionAssumption DEF IInv, Typed, Start, At
<1>2. /\ x \in RunRow /\ runs' = [runs EXCEPT ![n] = x]
      /\ x.status = "in_progress" /\ x.items = items /\ x.loaded = health
      /\ x.pc = IF items = <<>> THEN "finish" ELSE "look"
      /\ x.next = runs[n].next /\ x.post = runs[n].post /\ x.imported = runs[n].imported
      /\ x.duplicates = runs[n].duplicates /\ x.errors = runs[n].errors
  BY <1>1 DEF Start, RunRow, RunStatuses, Positions, InItem, Typed
<1> HIDE DEF x
<1>3. runs'[n] = x /\ \A m \in RunId \ {n} : runs'[m] = runs[m]
  BY <1>1, <1>2 DEF Typed
<1>4. /\ ~UnderWay(n) /\ UnderWay(n)'
      /\ \A m \in RunId \ {n} : UnderWay(m)' <=> UnderWay(m)
  BY <1>1, <1>2, <1>3 DEF UnderWay
<1>5. runs[n].next = 1 /\ met[n] = {}
  BY <1>1 DEF RunOK, PlaceOK, At
<1>6. /\ met'[n] = {k \in RunId : UnderWay(k)}
      /\ \A m \in RunId \ {n} : met'[m] = IF UnderWay(m) THEN met[m] \cup {n} ELSE met[m]
  BY DEF Start
<1>7. \A m \in RunId : met[m] \subseteq met'[m] /\ met'[m] \subseteq RunId
  BY <1>1, <1>5, <1>6 DEF Typed
<1>8. met' \in [RunId -> SUBSET RunId]
  <2>1. met' = [m \in RunId |-> met'[m]]
    BY DEF Start
  <2> QED
    BY <1>7, <2>1
<1>9. Typed'
  BY <1>1, <1>2, <1>8 DEF Typed
<1>10. \A k \in DOMAIN raw' : RowOK(k)'
  <2>1. Grown(n)
    BY <1>1 DEF Grown
  <2> QED
    BY <1>1, <1>9, <2>1, RowLasts DEF IInv
<1>11. SecondPostExplained'
  <2>1. \A p \in DOMAIN posts : posts[p].run \in RunId
    <3>1. \A p \in DOMAIN posts : posts[p] \in PostRow
      BY <1>1 DEF Typed
    <3> QED
      BY <3>1 DEF PostRow
  <2>2. \A p, q \in DOMAIN posts : SameVacancy(p, q)' <=> SameVacancy(p, q)
    BY <1>1 DEF SameVacancy, PrintOf, Fingerprint
  <2>3. \A p : Traced(p)' <=> Traced(p)
    BY <1>1 DEF Traced
  <2> QED
    BY <1>1, <1>7, <2>1, <2>2, <2>3 DEF IInv, SecondPostExplained
<1>12. MetOK(n)'
  BY <1>1, <1>2, <1>3, <1>4, <1>6 DEF MetOK
<1>13. RunOK(n)'
  <2>1. PlaceOK(n)'
    BY <1>1, <1>2, <1>3, <1>5 DEF PlaceOK, At, InItem, Searching, Creating
  <2>2. FoundOK(n)'
    BY <1>1, <1>2, <1>3 DEF RunOK, FoundOK, At, Searching, Creating
  <2>3. CountOK(n)'
    BY <1>1, <1>2, <1>3 DEF RunOK, CountOK, RowsOf, At
  <2>4. CoverOK(n)'
    BY <1>2, <1>3, <1>5 DEF CoverOK
  <2> QED
    BY <1>12, <2>1, <2>2, <2>3, <2>4 DEF RunOK
<1>14. ASSUME NEW m \in RunId \ {n} PROVE RunOK(m)'
  <2>1. RunOK(m) /\ runs'[m] = runs[m] /\ met[m] \subseteq met'[m]
    BY <1>3, <1>7 DEF IInv
  <2>2. PlaceOK(m)'
    BY <2>1, <1>1, <1>6 DEF RunOK, PlaceOK, At, UnderWay
  <2>3. FoundOK(m)'
    <3>1. \A p, i : LinkOK(p, i)' <=> LinkOK(p, i)
      BY <1>1 DEF LinkOK, Akin, TakenFor, Mistakable, Original, PrintOf, Fingerprint
    <3>2. \A i : Covered(i)' <=> Covered(i)
      BY <1>1 DEF Covered, Posted, FailedBefore, TakenFor, Mistakable
    <3>3. \A p, q, d : /\ PrintOf(p)' = PrintOf(p) /\ (Traced(p)' <=> Traced(p))
                      /\ Fingerprint(q, d)' = Fingerprint(q, d)
      BY <1>1 DEF PrintOf, Traced, Fingerprint
    <3>4. PICK i, o : i = This(m) /\ o = runs[m].post
      OBVIOUS
    <3>5. This(m)' = i /\ runs'[m].post = o
      BY <2>1, <3>4 DEF This
    <3>6. At(m, "duplicate")' => LinkOK(o, i)' /\ (o = NoPost => Covered(i)')
      BY <2>1, <3>1, <3>2, <3>4 DEF RunOK, FoundOK, At
    <3>7. (At(m, "duplicate") => /\ LinkOK(runs[m].post, This(m))
                                 /\ runs[m].post = NoPost => Covered(This(m)))'
      BY <3>5, <3>6 DEF LinkOK, Akin, TakenFor, Mistakable, Original, PrintOf, Fingerprint,
                        Covered, Posted, FailedBefore
    <3>8. ASSUME runs[m].pc \in Searching, NEW p \in DOMAIN posts, Again(p, m)', Traced(p)
          PROVE  posts[p].run \in met'[m]
      <4>1. Again(p, m)
        BY <1>1, <2>1, <3>3, <3>4, <3>5, <3>8 DEF Again, PrintOf, Fingerprint
      <4> QED
        BY <2>1, <3>8, <4>1 DEF RunOK, FoundOK
    <3>9. runs[m].pc \in Creating =>
            /\ runs[m].post \in DOMAIN posts
            /\ posts[runs[m].post] = [item |-> i, day |-> runs[m].day, run |-> m]
            /\ \A q \in DOMAIN posts : q > runs[m].post => posts[q].run \in met'[m]
      BY <2>1, <3>4 DEF RunOK, FoundOK
    <3>10. runs[m].post \in 0..Len(posts)
      BY <2>1 DEF RunOK, FoundOK
    <3> QED
      BY <1>1, <2>1, <3>3, <3>5, <3>7, <3>8, <3>9, <3>10 DEF FoundOK
  <2>4. CountOK(m)' /\ CoverOK(m)'
    BY <1>1, <2>1 DEF RunOK, CountOK, CoverOK, RowsOf, At, Covered, Posted, FailedBefore, TakenFor, Mistakable
  <2>5. MetOK(m)'
    <3>1. MetOK(m) /\ n \notin met[m]
      BY <1>5, <2>1 DEF RunOK, MetOK
    <3>2. m \notin met'[m] /\ \A k \in met'[m] : m \in met'[k]
      <4>1. m \notin met'[m]
        BY <1>6, <3>1 DEF MetOK
      <4>2. ASSUME n \in met'[m] PROVE m \in met'[n]
        BY <1>6, <3>1, <4>2
      <4>3. ASSUME NEW k \in met'[m], k # n PROVE m \in met'[k]
        <5>1. k \in met[m] /\ k \in RunId
          BY <1>6, <1>7, <4>3
        <5> QED
          BY <1>7, <3>1, <5>1 DEF MetOK
      <4> QED
        BY <4>1, <4>2, <4>3
    <3>3. \A k \in RunId \ {m} : UnderWay(k)' /\ UnderWay(m)' => k \in met'[m]
      BY <1>4, <1>6, <1>7, <3>1 DEF MetOK
    <3>4. UnderWay(m)' => met'[m] # {}
      BY <1>4, <1>6
    <3> QED
      BY <3>2, <3>3, <3>4 DEF MetOK
  <2> QED
    BY <2>2, <2>3, <2>4, <2>5 DEF RunOK
<1> QED
  BY <1>9, <1>10, <1>11, <1>13, <1>14 DEF IInv

-----------------------------------------------------------------------------
(* The invariant and what it gives *)

\* Before the first run, nothing is recorded.
LEMMA InitIInv ==
  ASSUME Init
  PROVE  IInv
<1>1. Typed
  <2>1. \A n \in RunId : runs[n] \in RunRow
    BY IngestionAssumption DEF Init, RunRow, RunStatuses, Positions, NoPost
  <2> QED
    BY <2>1, IngestionAssumption DEF Init, Typed, RunStatuses
<1>2. \A n \in RunId :
        /\ runs[n].pc = "idle" /\ runs[n].status = "none" /\ runs[n].items = <<>>
        /\ runs[n].next = 1 /\ runs[n].post = 0 /\ runs[n].imported = 0
        /\ runs[n].duplicates = 0 /\ runs[n].errors = 0 /\ met[n] = {}
  BY DEF Init, NoPost
<1>3. DOMAIN raw = {} /\ DOMAIN posts = {} /\ Len(posts) = 0
  BY DEF Init
<1>4. \A n \in RunId : RunOK(n)
  <2>1. \A n, outcome, dedup : RowsOf(n, outcome, dedup) = {}
    BY <1>3 DEF RowsOf
  <2>2. Cardinality({}) = 0
    BY FS_EmptySet
  <2>3. ASSUME NEW n \in RunId PROVE RunOK(n)
    <3>1. PlaceOK(n) /\ FoundOK(n)
      BY <1>2, <1>3 DEF PlaceOK, FoundOK, At, InItem, Searching, Creating
    <3>2. CountOK(n)
      <4>1. \A outcome, dedup : Cardinality(RowsOf(n, outcome, dedup)) = 0
        BY <2>1, <2>2
      <4>2. ~At(n, "duplicate") /\ ~At(n, "failed")
        BY <1>2 DEF At
      <4> QED
        BY <1>2, <4>1, <4>2 DEF CountOK
    <3>3. CoverOK(n) /\ MetOK(n)
      BY <1>2 DEF CoverOK, MetOK, UnderWay
    <3> QED
      BY <3>1, <3>2, <3>3 DEF RunOK
  <2> QED
    BY <2>3
<1> QED
  BY <1>1, <1>3, <1>4 DEF IInv, SecondPostExplained

\* Every step keeps the invariant.
LEMMA NextKeeps ==
  ASSUME IInv, [Next]_vars
  PROVE  IInv'
<1>1. CASE NextDay
  BY <1>1, DayKeeps, IngestionAssumption DEF NextDay, IInv, Typed
<1>2. CASE UNCHANGED vars
  BY <1>2, DayKeeps DEF vars, IInv, Typed
<1>3. ASSUME NEW n \in RunId, Step(n) PROVE IInv'
  <2>1. CASE StoreFailed(n)
    <3>1. faults' \in 0..MaxFaults
      BY <2>1 DEF StoreFailed, IInv, Typed
    <3> QED
      BY <2>1, <3>1, FailedItemKeeps DEF StoreFailed, At
  <2> QED
    BY <1>3, <2>1, LookKeeps, StoreDuplicateKeeps, NamesKeep, CreatePostKeeps,
       StoreUniqueKeeps, SavesKeep DEF Step
<1> QED
  BY <1>1, <1>2, <1>3, StartKeeps, CallFailsKeeps, CrashKeeps DEF Next

\* The invariant holds.
LEMMA InvariantHolds == Spec => []IInv
<1> QED
  BY InitIInv, NextKeeps, PTL DEF Spec

\* Every row and every run stays of its type: a raw job and a run point at posts
\* that exist, a run stays within its items, and a status is one of the column's.
THEOREM TypesAreKept == Spec => []TypeOK
<1>1. ASSUME IInv PROVE TypeOK
  <2>1. \A p \in DOMAIN posts : posts[p].item \in Item /\ posts[p].run \in RunId
    <3>1. \A p \in DOMAIN posts : posts[p] \in PostRow
      BY <1>1 DEF IInv, Typed
    <3> QED
      BY <3>1 DEF PostRow
  <2>2. \A k \in DOMAIN raw : raw[k].item \in Item /\ raw[k].post \in 0..Len(posts)
    <3>1. \A k \in DOMAIN raw : raw[k] \in RawRows /\ RowOK(k)
      BY <1>1 DEF IInv, Typed
    <3> QED
      BY <3>1 DEF RawRows, RowOK, LinkOK
  <2>3. ASSUME NEW n \in RunId
        PROVE  /\ runs[n].status \in RunStatuses
               /\ runs[n].next \in 1..(Len(runs[n].items) + 1)
               /\ runs[n].post \in 0..Len(posts)
    <3>1. runs[n] \in RunRow /\ PlaceOK(n) /\ FoundOK(n)
      BY <1>1 DEF IInv, Typed, RunOK
    <3> QED
      BY <3>1 DEF RunRow, PlaceOK, FoundOK
  <2> QED
    BY <1>1, <2>1, <2>2, <2>3 DEF TypeOK, IInv, Typed
<1> QED
  BY <1>1, InvariantHolds, PTL

\* What is recorded is as true as the fingerprint allows, whichever runs were under
\* way together and whatever failed: a raw job points at a post of its own vacancy, or
\* of one whose normalized strings and day were those of an item of its vacancy, and a
\* completed run has counted its imports exactly and each of its items at least once.
THEOREM RecordsStayTrue == Spec => []RecordsAreTrue
<1>1. ASSUME IInv PROVE LinksAreRight
  <2>1. ASSUME NEW k \in DOMAIN raw
        PROVE  /\ raw[k].post # NoPost =>
                    \/ JobOf[posts[raw[k].post].item] = JobOf[raw[k].item]
                    \/ TakenFor(raw[k].item, raw[k].post)
               /\ (raw[k].outcome = "processed" /\ raw[k].dedup = "unique")
                    => raw[k].post # NoPost
    <3>1. RowOK(k) /\ Typed
      BY <1>1 DEF IInv
    <3>2. Mistakable(raw[k].item, posts[raw[k].post].item) => TakenFor(raw[k].item, raw[k].post)
      BY DEF TakenFor
    <3>3. raw[k].post \in DOMAIN posts => raw[k].post # NoPost
      BY <3>1 DEF Typed, NoPost
    <3> QED
      BY <3>1, <3>2, <3>3 DEF RowOK, LinkOK, Akin
  <2> QED
    BY <2>1 DEF LinksAreRight
<1>2. ASSUME IInv PROVE CountersAgree
  <2>1. ASSUME NEW n \in RunId, runs[n].status = "completed"
        PROVE  /\ runs[n].imported = Cardinality(RowsOf(n, "processed", "unique"))
               /\ runs[n].duplicates >= Cardinality(RowsOf(n, "processed", "duplicate"))
               /\ runs[n].errors >= Cardinality(RowsOf(n, "failed", "unique"))
               /\ runs[n].imported + runs[n].duplicates + runs[n].errors
                    >= Len(runs[n].items)
    <3>1. Typed /\ PlaceOK(n) /\ CountOK(n) /\ runs[n] \in RunRow
      BY <1>2 DEF IInv, RunOK, Typed
    <3>2. Len(runs[n].items) \in Nat /\ runs[n].next - 1 = Len(runs[n].items)
      BY <2>1, <3>1 DEF RunRow, PlaceOK
    <3> QED
      BY <3>1, <3>2, CountsAtLeast
  <2> QED
    BY <2>1 DEF CountersAgree
<1> QED
  BY <1>1, <1>2, InvariantHolds, PTL DEF RecordsAreTrue

\* A vacancy gets a second post only if the run that created it had been under way
\* together with the run of the first one, or if no raw job records the first one.
THEOREM SecondPostsAreExplained == Spec => []SecondPostExplained
<1>1. IInv => SecondPostExplained
  BY DEF IInv
<1> QED
  BY <1>1, InvariantHolds, PTL

\* A run that completes without an error has posted, or found posted, every item it
\* was given, unless the item's vacancy was taken for one that is posted and has the
\* same normalized strings, or its external id was stored with a failure before.
THEOREM CleanRunsCover == Spec => []CleanRunCovers
<1>1. ASSUME IInv PROVE CleanRunCovers
  <2>1. ASSUME NEW n \in RunId, runs[n].status = "completed", runs[n].errors = 0,
               NEW k \in DOMAIN runs[n].items
        PROVE  Covered(runs[n].items[k])
    <3>1. PlaceOK(n) /\ CoverOK(n) /\ runs[n] \in RunRow
      BY <1>1 DEF IInv, RunOK, Typed
    <3>2. k \in 1..(runs[n].next - 1)
      BY <2>1, <3>1 DEF RunRow, PlaceOK
    <3> QED
      BY <2>1, <3>1, <3>2 DEF CoverOK
  <2> QED
    BY <2>1 DEF CleanRunCovers
<1> QED
  BY <1>1, InvariantHolds, PTL

\* A run that met no other leaves its own status as last_status of the source, also
\* when the outer catch clause fails it after it was saved as completed.
THEOREM HealthFollows == Spec => HealthFollowsRun
<1>1. ASSUME IInv, [Next]_vars, NEW n \in RunId,
             met[n] = {}, UnderWay(n), runs'[n].pc = "done", faults' = faults
      PROVE  health' = runs[n].status
  <2>1. SaveSource(n) \/ SaveFailedSource(n)
    <3>1. /\ runs[n].pc # "done" /\ faults \in Nat
          /\ runs[n] \in RunRow /\ runs \in [RunId -> RunRow]
      BY <1>1, IngestionAssumption DEF IInv, Typed, UnderWay
    <3>2. runs' # runs
      BY <1>1, <3>1
    <3>3. ASSUME NEW m \in RunId, CallFails(m) \/ Crash(m) PROVE FALSE
      BY <1>1, <3>1, <3>3 DEF CallFails, Crash, Fault
    <3>4. ASSUME NEW m \in RunId, runs'[m].pc # "done", \A k \in RunId \ {m} : runs'[k] = runs[k]
          PROVE  FALSE
      BY <1>1, <3>1, <3>4
    <3>5. ASSUME NEW m \in RunId, NEW items, Start(m, items) PROVE FALSE
      <4>1. runs'[m].pc # "done" /\ \A k \in RunId \ {m} : runs'[k] = runs[k]
        BY <3>1, <3>5 DEF Start, Typed
      <4> QED
        BY <3>4, <4>1
    <3>6. ASSUME NEW m \in RunId, Step(m), ~SaveSource(m), ~SaveFailedSource(m) PROVE FALSE
      <4>1. runs[m] \in RunRow
        BY <3>1
      <4>2. runs'[m].pc # "done" /\ \A k \in RunId \ {m} : runs'[k] = runs[k]
        <5>1. ASSUME NEW x, runs' = [runs EXCEPT ![m] = x], x.pc # "done"
              PROVE  runs'[m].pc # "done" /\ \A k \in RunId \ {m} : runs'[k] = runs[k]
          BY <3>1, <5>1
        <5>2. CASE StoreDuplicate(m) \/ StoreFailed(m)
          <6>1. Advanced(runs[m]).pc # "done"
            BY <4>1 DEF Advanced, RunRow
          <6> QED
            BY <5>1, <5>2, <6>1 DEF StoreDuplicate, StoreFailed
        <5>3. CASE StoreUnique(m)
          <6> DEFINE run == [runs[m] EXCEPT !.imported = Imported(runs[m])]
          <6>1. Advanced(run).pc # "done" /\ runs' = [runs EXCEPT ![m] = Advanced(run)]
            BY <4>1, <5>3 DEF Advanced, RunRow, StoreUnique
          <6> QED
            BY <5>1, <6>1
        <5>4. CASE Look(m)
          BY <3>1, <4>1, <5>4, ZenonT(40) DEF Look, RunRow
        <5>5. CASE FindCompany(m) \/ FindSkill(m)
          BY <3>1, <4>1, <5>5, SMTT(20) DEF FindCompany, FindSkill, Goto, RunRow
        <5>6. CASE CreateCompany(m) \/ CreateSkill(m)
          <6>1. PICK x \in {Conflict(runs[m]), [runs[m] EXCEPT !.pc = "post"],
                            [runs[m] EXCEPT !.pc = "store"]} : runs' = [runs EXCEPT ![m] = x]
            BY <5>6 DEF CreateCompany, CreateSkill, CreateNamed
          <6>2. x.pc \in {"failed", "post", "store"}
            BY <4>1 DEF Conflict, RunRow
          <6> QED
            BY <5>1, <6>1, <6>2
        <5>7. CASE CreatePost(m) \/ SaveRun(m) \/ SaveFailedRun(m)
          BY <3>1, <4>1, <5>7, ZenonT(40) DEF CreatePost, SaveRun, SaveFailedRun, FailedRun, RunRow
        <5> QED
          BY <3>6, <5>2, <5>3, <5>4, <5>5, <5>6, <5>7 DEF Step
      <4> QED
        BY <3>4, <4>2
    <3>7. PICK m \in RunId : SaveSource(m) \/ SaveFailedSource(m)
      BY <1>1, <3>2, <3>3, <3>5, <3>6 DEF Next, NextDay, vars
    <3>8. m = n
      BY <1>1, <3>1, <3>7 DEF SaveSource, SaveFailedSource, Goto
    <3> QED
      BY <3>7, <3>8
  <2>2. PlaceOK(n) /\ MetOK(n)
    BY <1>1 DEF IInv, RunOK
  <2>3. \/ runs[n].loaded = health
        \/ runs[n].loaded = "completed" /\ runs[n].pc \in {"failedRun", "failedSource"}
    BY <1>1, <2>2 DEF MetOK
  <2>4. CASE SaveSource(n)
    BY <2>2, <2>3, <2>4 DEF SaveSource, SourceStatus, PlaceOK, At
  <2>5. CASE SaveFailedSource(n)
    BY <2>2, <2>3, <2>5 DEF SaveFailedSource, SourceStatus, PlaceOK, At
  <2> QED
    BY <2>1, <2>4, <2>5
<1>2. ASSUME IInv, [Next]_vars
      PROVE  [\A n \in RunId :
                (met[n] = {} /\ UnderWay(n) /\ runs'[n].pc = "done" /\ faults' = faults)
                  => health' = runs[n].status]_vars
  BY <1>1, <1>2
<1> QED
  BY <1>2, InvariantHolds, PTL DEF Spec, HealthFollowsRun
=============================================================================
