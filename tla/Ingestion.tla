----------------------------- MODULE Ingestion -----------------------------
(***************************************************************************)
(* Ingestion runs of a job source: triggerRun of                           *)
(* src/Backend/src/services/jobIngestion.service.js with the fingerprint   *)
(* of jobFingerprint.service.js.                                           *)
(*                                                                         *)
(* A run is an HTTP request.  For each item it looks for a duplicate,      *)
(* resolves or creates the company, creates the job post, resolves or      *)
(* creates the skill and stores the raw job.  No step shares a transaction *)
(* with another, so runs triggered at the same time interleave, and a      *)
(* failed call leaves the rows written before it.                          *)
(*                                                                         *)
(* One source is modelled.  An item is the vacancy it advertises, the      *)
(* company name it was scraped with, its external id, its skill and what   *)
(* its fingerprint is made of: a label, and its date of publication.  The  *)
(* hash is taken to be injective, the normalisation before it is not: it   *)
(* keeps a-z, 0-9 and blanks only, and one word for the place of a remote  *)
(* job, so that several vacancies may share a label.  Descriptions,        *)
(* salaries, links between posts and skills, times, and published_at       *)
(* values that are no dates, are left out.                                 *)
(***************************************************************************)
EXTENDS Naturals, Sequences, FiniteSets

CONSTANTS
  RunId,       \* bound: ingestion runs
  Batches,     \* bound: item lists a run is triggered with
  Item,        \* items a source delivers
  JobOf,       \* JobOf[i]: the vacancy i advertises
  NameOf,      \* NameOf[i]: company name of i
  CompanyOf,   \* CompanyOf[i]: the company that name resolves to, by name or alias
  SkillOf,     \* SkillOf[i]: skill of i, or None
  ExtOf,       \* ExtOf[i]: external_id of i, or None
  LabelOf,     \* LabelOf[i]: company name, title, place and employment type of i, normalized
  DateOf,      \* DateOf[i]: the day of published_at, or None
  Known,       \* companies and skills that exist before the first run
  None,
  MaxDay,      \* bound: days
  MaxFaults    \* bound: failed calls and lost processes

ASSUME IngestionAssumption ==
  /\ Batches \subseteq Seq(Item)
  /\ \A f \in {JobOf, NameOf, CompanyOf, SkillOf, ExtOf, LabelOf, DateOf} : Item \subseteq DOMAIN f
  /\ \A i \in Item : /\ LabelOf[i] # None
                     /\ NameOf[i] # CompanyOf[i] => CompanyOf[i] \in Known
  /\ MaxDay \in Nat \ {0}
  /\ MaxFaults \in Nat

\* An external id names one vacancy of its source: the duplicate check trusts it.
ASSUME ExternalIdAssumption ==
  \A i, j \in Item : (ExtOf[i] # None /\ ExtOf[i] = ExtOf[j]) => JobOf[i] = JobOf[j]

VARIABLES
  today,    \* the calendar day
  known,    \* normalized names of companies and skills
  posts,    \* job_posts, oldest first
  raw,      \* raw_jobs, oldest first
  runs,     \* runs[n]: the ingestion_runs row, position and locals of run n
  health,   \* last_status of the source
  met,      \* met[n]: runs that were under way together with n
  faults    \* failures so far

vars == <<today, known, posts, raw, runs, health, met, faults>>

NoPost == 0

Init ==
  /\ today = 1
  /\ known = Known
  /\ posts = <<>>
  /\ raw = <<>>
  /\ runs = [n \in RunId |-> [pc |-> "idle", status |-> "none", items |-> <<>>, next |-> 1,
               loaded |-> "none", day |-> 1, post |-> NoPost, imported |-> 0, duplicates |-> 0, errors |-> 0]]
  /\ health = "none"
  /\ met = [n \in RunId |-> {}]
  /\ faults = 0

UnderWay(n) == runs[n].pc \notin {"idle", "done", "lost"}
This(n) == runs[n].items[runs[n].next]
At(n, pc) == runs[n].pc = pc

Goto(n, pc) == runs' = [runs EXCEPT ![n].pc = pc]

\* The record of run n once it has dealt with its item.
Advanced(run) ==
  [run EXCEPT !.next = @ + 1, !.post = NoPost,
              !.pc = IF run.next = Len(run.items) THEN "finish" ELSE "look"]

Fault == faults < MaxFaults /\ faults' = faults + 1

NextDay ==
  /\ today < MaxDay
  /\ today' = today + 1
  /\ UNCHANGED <<known, posts, raw, runs, health, met, faults>>

Start(n, items) ==
  /\ At(n, "idle")
  /\ runs' = [runs EXCEPT ![n] = [@ EXCEPT !.status = "in_progress", !.items = items,
                                    !.loaded = health,
                                    !.pc = IF items = <<>> THEN "finish" ELSE "look"]]
  /\ met' = [m \in RunId |->
       IF m = n THEN {k \in RunId : UnderWay(k)}
       ELSE IF UnderWay(m) THEN met[m] \cup {n} ELSE met[m]]
  /\ UNCHANGED <<today, known, posts, raw, health, faults>>

-----------------------------------------------------------------------------
(* One item *)

\* Mutant: the title is left out of the fingerprint.
Fingerprint_NoTitle(i, day) ==
  [label |-> NameOf[i], day |-> IF DateOf[i] = None THEN day ELSE DateOf[i]]

\* An item without a date gets the current one.
Fingerprint(i, day) ==
  [label |-> LabelOf[i], day |-> IF DateOf[i] = None THEN day ELSE DateOf[i]]

\* A failed item is stored without place and date: no item has this fingerprint.
Unlocated == [label |-> None, day |-> None]

\* Mutant: only external ids are compared.
Matches_ExternalOnly(row, i, day) == ExtOf[i] # None /\ row.ext = ExtOf[i]

Matches(row, i, day) ==
  \/ row.print = Fingerprint(i, day) /\ row.dedup = "unique"
  \/ ExtOf[i] # None /\ row.ext = ExtOf[i]

RawRow(n, print, outcome, dedup, post) ==
  [run |-> n, item |-> This(n), ext |-> ExtOf[This(n)], print |-> print,
   outcome |-> outcome, dedup |-> dedup, post |-> post]

\* findOne without an order: any matching row.
Look(n) ==
  LET found == {k \in DOMAIN raw : Matches(raw[k], This(n), today)} IN
  /\ At(n, "look")
  /\ IF found = {}
     THEN runs' = [runs EXCEPT ![n] = [@ EXCEPT !.pc = "company", !.day = today]]
     ELSE \E k \in found :
            runs' = [runs EXCEPT ![n] = [@ EXCEPT !.pc = "duplicate", !.day = today,
                        !.post = raw[k].post, !.duplicates = runs[n].duplicates + 1]]
  /\ UNCHANGED <<today, known, posts, raw, health, met, faults>>

StoreDuplicate(n) ==
  /\ At(n, "duplicate")
  /\ raw' = Append(raw, RawRow(n, Fingerprint(This(n), runs[n].day), "processed",
                               "duplicate", runs[n].post))
  /\ runs' = [runs EXCEPT ![n] = Advanced(@)]
  /\ UNCHANGED <<today, known, posts, health, met, faults>>

FindCompany(n) ==
  /\ At(n, "company")
  /\ Goto(n, IF CompanyOf[This(n)] \in known THEN "post" ELSE "newCompany")
  /\ UNCHANGED <<today, known, posts, raw, health, met, faults>>

\* Mutant: a company that exists by now ends the item without a trace.
Conflict_Skips(run) == Advanced(run)

\* A unique index refuses the row: the catch clause counts an error.
Conflict(run) == [run EXCEPT !.pc = "failed", !.errors = @ + 1]

\* Create the company or skill named x, and go on at pc.
CreateNamed(n, x, pc) ==
  /\ known' = known \cup {x}
  /\ runs' = [runs EXCEPT ![n] = IF x \in known THEN Conflict(@) ELSE [@ EXCEPT !.pc = pc]]
  /\ UNCHANGED <<today, posts, raw, health, met, faults>>

CreateCompany(n) == At(n, "newCompany") /\ CreateNamed(n, NameOf[This(n)], "post")

CreatePost(n) ==
  /\ At(n, "post")
  /\ posts' = Append(posts, [item |-> This(n), day |-> runs[n].day, run |-> n])
  /\ runs' = [runs EXCEPT ![n] = [@ EXCEPT !.post = Len(posts) + 1,
                !.pc = IF SkillOf[This(n)] = None THEN "store" ELSE "skill"]]
  /\ UNCHANGED <<today, known, raw, health, met, faults>>

FindSkill(n) ==
  /\ At(n, "skill")
  /\ Goto(n, IF SkillOf[This(n)] \in known THEN "store" ELSE "newSkill")
  /\ UNCHANGED <<today, known, posts, raw, health, met, faults>>

CreateSkill(n) == At(n, "newSkill") /\ CreateNamed(n, SkillOf[This(n)], "store")

Imported(run) == run.imported + 1

StoreUnique(n) ==
  /\ At(n, "store")
  /\ raw' = Append(raw, RawRow(n, Fingerprint(This(n), runs[n].day), "processed",
                               "unique", runs[n].post))
  /\ runs' = [runs EXCEPT ![n] = Advanced([@ EXCEPT !.imported = Imported(runs[n])])]
  /\ UNCHANGED <<today, known, posts, health, met, faults>>

\* The failed item is stored as "unique", without a post.
StoreFailed(n) ==
  /\ At(n, "failed")
  /\ raw' = Append(raw, RawRow(n, Unlocated, "failed", "unique", NoPost))
  /\ runs' = [runs EXCEPT ![n] = Advanced(@)]
  /\ UNCHANGED <<today, known, posts, health, met, faults>>

-----------------------------------------------------------------------------
(* The end of a run *)

SaveRun(n) ==
  /\ At(n, "finish")
  /\ runs' = [runs EXCEPT ![n] = [@ EXCEPT !.status = "completed", !.pc = "source"]]
  /\ UNCHANGED <<today, known, posts, raw, health, met, faults>>

\* Mutant: the status is written when it is the one the source was loaded with.
SourceStatus_Inverted(n, status) == IF runs[n].loaded = status THEN status ELSE health

\* last_status after run n saved the source: the column is written when it differs
\* from the value in memory, which is the one loaded before the run.
SourceStatus(n, status) == IF runs[n].loaded = status THEN health ELSE status

SaveSource(n) ==
  /\ At(n, "source")
  /\ health' = SourceStatus(n, "completed")
  /\ Goto(n, "done")
  /\ UNCHANGED <<today, known, posts, raw, met, faults>>

\* Mutant: the outer catch clause does not save the run.
FailedRun_Unsaved(run) == [run EXCEPT !.pc = "failedSource"]

\* Mutant: the run gets a status outside the enumeration of its column.
FailedRun_Error(run) == [run EXCEPT !.status = "error", !.pc = "failedSource"]

FailedRun(run) == [run EXCEPT !.status = "failed", !.pc = "failedSource"]

SaveFailedRun(n) ==
  /\ At(n, "failedRun")
  /\ runs' = [runs EXCEPT ![n] = FailedRun(@)]
  /\ UNCHANGED <<today, known, posts, raw, health, met, faults>>

SaveFailedSource(n) ==
  /\ At(n, "failedSource")
  /\ health' = SourceStatus(n, "failed")
  /\ Goto(n, "done")
  /\ UNCHANGED <<today, known, posts, raw, met, faults>>

\* A call fails.  In an item, the inner catch clause counts an error, and gives up
\* on storing the failed item; after the items, the outer one fails the run, even
\* one that was saved as "completed"; in the outer one, the request ends.
CallFails(n) ==
  /\ UnderWay(n)
  /\ Fault
  /\ runs' = [runs EXCEPT ![n] =
       CASE At(n, "failed") -> Advanced(@)
         [] At(n, "finish") -> [@ EXCEPT !.pc = "failedRun"]
         [] At(n, "source") -> [@ EXCEPT !.pc = "failedRun", !.loaded = "completed"]
         [] At(n, "failedRun") -> [@ EXCEPT !.pc = "lost"]
         [] At(n, "failedSource") -> [@ EXCEPT !.pc = "done"]
         [] OTHER -> [@ EXCEPT !.pc = "failed", !.errors = runs[n].errors + 1]]
  /\ UNCHANGED <<today, known, posts, raw, health, met>>

\* The process dies.
Crash(n) ==
  /\ UnderWay(n)
  /\ Fault
  /\ Goto(n, "lost")
  /\ UNCHANGED <<today, known, posts, raw, health, met>>

-----------------------------------------------------------------------------
Step(n) ==
  \/ Look(n)
  \/ StoreDuplicate(n)
  \/ FindCompany(n)
  \/ CreateCompany(n)
  \/ CreatePost(n)
  \/ FindSkill(n)
  \/ CreateSkill(n)
  \/ StoreUnique(n)
  \/ StoreFailed(n)
  \/ SaveRun(n)
  \/ SaveSource(n)
  \/ SaveFailedRun(n)
  \/ SaveFailedSource(n)

Next ==
  \/ NextDay
  \/ \E n \in RunId :
        \/ \E items \in Batches : Start(n, items)
        \/ Step(n)
        \/ CallFails(n)
        \/ Crash(n)

Spec == Init /\ [][Next]_vars

\* The request of a run goes on while its process lives.
FairSpec == Spec /\ \A n \in RunId : WF_vars(Step(n))

-----------------------------------------------------------------------------
(* Properties *)

RunStatuses == {"none", "in_progress", "completed", "failed"}

TypeOK ==
  /\ today \in 1..MaxDay
  /\ \A p \in DOMAIN posts : posts[p].item \in Item /\ posts[p].run \in RunId
  /\ \A k \in DOMAIN raw : raw[k].item \in Item /\ raw[k].post \in 0..Len(posts)
  /\ \A n \in RunId :
        /\ runs[n].status \in RunStatuses
        /\ runs[n].next \in 1..(Len(runs[n].items) + 1)
        /\ runs[n].post \in 0..Len(posts)
  /\ health \in RunStatuses
  /\ faults \in 0..MaxFaults

\* Normalized, the strings of i and j are the same, and so may be their days.
Mistakable(i, j) ==
  /\ LabelOf[i] = LabelOf[j]
  /\ DateOf[i] = DateOf[j] \/ None \in {DateOf[i], DateOf[j]}

\* The vacancy of i has been taken for that of post p: a raw job says so.
TakenFor(i, p) ==
  \E k \in DOMAIN raw : /\ raw[k].post = p
                        /\ JobOf[raw[k].item] = JobOf[i]
                        /\ Mistakable(raw[k].item, posts[p].item)

\* A raw job points at no post of another vacancy, except one its own was taken for,
\* and at a post if it was imported.
LinksAreRight ==
  \A k \in DOMAIN raw :
    /\ raw[k].post # NoPost =>
         \/ JobOf[posts[raw[k].post].item] = JobOf[raw[k].item]
         \/ TakenFor(raw[k].item, raw[k].post)
    /\ (raw[k].outcome = "processed" /\ raw[k].dedup = "unique") => raw[k].post # NoPost

RowsOf(n, outcome, dedup) ==
  {k \in DOMAIN raw : raw[k].run = n /\ raw[k].outcome = outcome /\ raw[k].dedup = dedup}

\* Imports are counted exactly, and every item at least once, whatever failed.
CountersAgree ==
  \A n \in RunId : runs[n].status = "completed" =>
    /\ runs[n].imported = Cardinality(RowsOf(n, "processed", "unique"))
    /\ runs[n].duplicates >= Cardinality(RowsOf(n, "processed", "duplicate"))
    /\ runs[n].errors >= Cardinality(RowsOf(n, "failed", "unique"))
    /\ runs[n].imported + runs[n].duplicates + runs[n].errors >= Len(runs[n].items)

\* What the runs have recorded is true as far as the fingerprint can tell: a raw job
\* points at the post of its own vacancy, or of one that was delivered with the same
\* normalized strings, and the counters of a completed run agree with its raw jobs.
RecordsAreTrue == LinksAreRight /\ CountersAgree

PrintOf(p) == Fingerprint(posts[p].item, posts[p].day)
SameVacancy(p, q) ==
  \/ PrintOf(p) = PrintOf(q)
  \/ ExtOf[posts[p].item] # None /\ ExtOf[posts[p].item] = ExtOf[posts[q].item]
Traced(p) == \E k \in DOMAIN raw : raw[k].post = p

\* Two posts of one fingerprint or external id exist only because runs were
\* under way together, or because a failure kept the raw job of the first one from
\* being stored.
SecondPostExplained ==
  \A p, q \in DOMAIN posts :
    (p < q /\ SameVacancy(p, q)) =>
      posts[q].run \in met[posts[p].run] \/ ~Traced(p)

Posted(i) == \E p \in DOMAIN posts : JobOf[posts[p].item] = JobOf[i]
FailedBefore(i) ==
  ExtOf[i] # None /\ \E k \in DOMAIN raw : raw[k].outcome = "failed" /\ raw[k].ext = ExtOf[i]

\* What became of an item that is dealt with.
Covered(i) == Posted(i) \/ FailedBefore(i) \/ \E p \in DOMAIN posts : TakenFor(i, p)

\* A run that completes and reports no error has a post for every item it was
\* given, except for vacancies taken for one that has a post, and for items whose
\* external id was stored with a failure.
CleanRunCovers ==
  \A n \in RunId : (runs[n].status = "completed" /\ runs[n].errors = 0) =>
    \A k \in DOMAIN runs[n].items : Covered(runs[n].items[k])

\* After a run that met no other, last_status of the source is that run's status.
HealthFollowsRun ==
  [][\A n \in RunId :
       (met[n] = {} /\ UnderWay(n) /\ runs'[n].pc = "done" /\ faults' = faults)
         => health' = runs[n].status]_vars

\* A run leaves "in_progress", unless its process dies or fails to say so.
RunEnds == \A n \in RunId :
  runs[n].status = "in_progress" ~> (runs[n].status # "in_progress" \/ At(n, "lost"))

\* Delivery Scope: a transient failure is retried.  A later run that reports no
\* error has a post for every item.
RetryImports ==
  \A n \in RunId : (runs[n].status = "completed" /\ runs[n].errors = 0) =>
    \A k \in DOMAIN runs[n].items : Posted(runs[n].items[k])
=============================================================================
