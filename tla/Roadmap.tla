------------------------------ MODULE Roadmap ------------------------------
(***************************************************************************)
(* The learning roadmaps of one candidate                                  *)
(* (src/Backend/src/services/roadmap.service.js): generateRoadmap,         *)
(* completeTask with its recalculation, refreshRoadmap and addXp.          *)
(*                                                                         *)
(* A roadmap is a tree: phases hold milestones, milestones hold tasks; a   *)
(* milestone of an AI answer may hold none.  completeTask saves the task,  *)
(* the award, and then, from one snapshot of the tree, each milestone, each*)
(* phase and the roadmap, one await after the other and outside any        *)
(* transaction.  The two creations are transactions, one step each.        *)
(*                                                                         *)
(* Sequelize writes changed columns only: a unit whose new status is the   *)
(* one in the snapshot is not written.  "progress" is always written       *)
(* (DECIMAL is loaded as a string); it is kept here as completed weight,   *)
(* the percentage being a function of it.  Titles, evidence, notes and     *)
(* target skills are left out; every generated tree has the shape given    *)
(* by the constants.                                                       *)
(***************************************************************************)
EXTENDS Naturals, Sequences, FiniteSetsExt

CONSTANTS
  RoadmapId,   \* bound: ids of roadmaps rows, in insertion order
  Request,     \* bound: HTTP requests of the candidate
  Task,        \* tasks of a roadmap
  Units,       \* milestones and phases, in the order they are recalculated
  Children,    \* Children[u]: tasks of milestone u, milestones of phase u
  Weight,      \* Weight[t]: weight of task t
  Opened,      \* units the generator starts as "in_progress"
  MaxFaults    \* bound: failed calls

Unit == {Units[i] : i \in DOMAIN Units}

ASSUME RoadmapAssumption ==
  /\ RoadmapId \subseteq Nat \ {0}
  /\ Units \in Seq(Unit)
  /\ IsFiniteSet(Task) /\ Task \cap Unit = {}
  /\ Children \in [Unit -> SUBSET (Task \cup Unit)]
  /\ Weight \in [Task -> Nat \ {0}]
  /\ Opened \subseteq Unit
  /\ MaxFaults \in Nat

\* Milestones hold tasks and phases hold milestones; each is recalculated once,
\* a phase after its milestones.
ASSUME TreeAssumption ==
  /\ \A u \in Unit : \/ Children[u] \subseteq Task
                     \/ \A c \in Children[u] : c \in Unit /\ Children[c] \subseteq Task
  /\ \A i, j \in DOMAIN Units : Units[i] = Units[j] => i = j
  /\ \A i \in DOMAIN Units : \A c \in Children[Units[i]] \cap Unit :
        \E k \in 1..(i - 1) : Units[k] = c

NoRoadmap == 0

VARIABLES
  maps,     \* roadmaps
  tasks,    \* tasks[a]: completed tasks of roadmap a
  units,    \* units[a][u]: status of milestone or phase u
  reqs,     \* reqs[r]: position, roadmap, task and snapshot of request r
  calm,     \* requests whose recalculation no write has crossed
  faults    \* failures so far

vars == <<maps, tasks, units, reqs, calm, faults>>

Fresh == [u \in Unit |-> IF u \in Opened THEN "in_progress" ELSE "pending"]

NoRow == [status |-> "none", progress |-> 0, xp |-> 0, previous |-> NoRoadmap]

Idle == [pc |-> "idle", id |-> NoRoadmap, task |-> "none", step |-> 1,
         status |-> "none", done |-> {}, units |-> Fresh]

Init ==
  /\ maps = [a \in RoadmapId |-> NoRow]
  /\ tasks = [a \in RoadmapId |-> {}]
  /\ units = [a \in RoadmapId |-> Fresh]
  /\ reqs = [r \in Request |-> Idle]
  /\ calm = {}
  /\ faults = 0

Maps == {a \in RoadmapId : maps[a].status # "none"}
NextMap(a) == a \notin Maps /\ \A b \in RoadmapId : b < a => b \in Maps

WeightOf(S) == MapThenSumSet(LAMBDA t : Weight[t], S)

At(r, pc) == reqs[r].pc = pc
Others(r) == {q \in Request : q # r /\ reqs[q].id = reqs[r].id}

\* A write of r reaches the roadmap: recalculations of others are crossed.
Crossed(r) == calm' = calm \ Others(r)

-----------------------------------------------------------------------------
(* generateRoadmap: all calls before the transaction are reads *)

\* Mutant: a roadmap starts as "pending", which the recalculation asks about.
NewRow_Pending(previous) == [NoRow EXCEPT !.status = "pending", !.previous = previous]

NewRow(previous) == [NoRow EXCEPT !.status = "in_progress", !.previous = previous]

Generate(r, a) ==
  /\ At(r, "idle")
  /\ NextMap(a)
  /\ maps' = [maps EXCEPT ![a] = NewRow(NoRoadmap)]
  /\ reqs' = [reqs EXCEPT ![r].pc = "done"]
  /\ UNCHANGED <<tasks, units, calm, faults>>

-----------------------------------------------------------------------------
(* completeTask *)

\* Neither the status of the task nor that of the roadmap is looked at.
LoadTask(r, a, t) ==
  /\ At(r, "idle")
  /\ a \in Maps
  /\ reqs' = [reqs EXCEPT ![r] = [@ EXCEPT !.pc = "task", !.id = a, !.task = t]]
  /\ UNCHANGED <<maps, tasks, units, calm, faults>>

SaveTask(r) ==
  /\ At(r, "task")
  /\ tasks' = [tasks EXCEPT ![reqs[r].id] = @ \cup {reqs[r].task}]
  /\ reqs' = [reqs EXCEPT ![r].pc = "award"]
  /\ Crossed(r)
  /\ UNCHANGED <<maps, units, faults>>

\* What save() leaves in the row after the award.  The loaded metadata object is
\* changed in place and assigned to its own attribute, so that Sequelize compares
\* it with itself, finds no change and writes nothing.
Stored(xp) == xp

\* The award of a completed task, or of addXp.
Award(r) ==
  /\ reqs[r].pc \in {"award", "add"}
  /\ maps' = [maps EXCEPT ![reqs[r].id].xp = Stored(@)]
  /\ reqs' = [reqs EXCEPT ![r].pc = IF At(r, "award") THEN "read" ELSE "done"]
  /\ UNCHANGED <<tasks, units, calm, faults>>

ReadTree(r) ==
  LET a == reqs[r].id IN
  /\ At(r, "read")
  /\ reqs' = [reqs EXCEPT ![r] = [@ EXCEPT !.pc = "save", !.step = 1,
       !.status = maps[a].status, !.done = tasks[a], !.units = units[a]]]
  /\ calm' = IF \E q \in Others(r) : At(q, "save") THEN calm ELSE calm \cup {r}
  /\ UNCHANGED <<maps, tasks, units, faults>>

StatusIn(done, us, c) ==
  IF c \in Task THEN (IF c \in done THEN "completed" ELSE "pending") ELSE us[c]

\* Mutant: a unit that was completed or started is not looked at again.
RolledUp_Once(done, us, u) ==
  LET below == {StatusIn(done, us, c) : c \in Children[u]} IN
  IF us[u] # "pending" THEN us[u]
  ELSE IF below = {"completed"} THEN "completed"
  ELSE IF below \cap {"completed", "in_progress"} # {} THEN "in_progress" ELSE us[u]

\* The status a milestone gets from its tasks, a phase from its milestones.
RolledUp(done, us, u) ==
  LET below == {StatusIn(done, us, c) : c \in Children[u]} IN
  IF below = {"completed"} THEN "completed"
  ELSE IF below \cap {"completed", "in_progress"} # {} THEN "in_progress"
  ELSE us[u]

SaveUnit(r) ==
  LET a   == reqs[r].id
      u   == Units[reqs[r].step]
      new == RolledUp(reqs[r].done, reqs[r].units, u) IN
  /\ At(r, "save")
  /\ reqs[r].step <= Len(Units)
  /\ IF new = reqs[r].units[u]
     THEN UNCHANGED <<units, calm>>
     ELSE units' = [units EXCEPT ![a][u] = new] /\ Crossed(r)
  /\ reqs' = [reqs EXCEPT ![r] = [@ EXCEPT !.step = reqs[r].step + 1, !.units[u] = new]]
  /\ UNCHANGED <<maps, tasks, faults>>

\* Mutant: the weight of the task is added to the progress of the row.
Progress_Added(r) == maps[reqs[r].id].progress + Weight[reqs[r].task]

Progress(r) == WeightOf(reqs[r].done)

\* Mutant: every column is written back.
Reached_WholeRow(r, now) == IF reqs[r].done = Task THEN "completed" ELSE reqs[r].status

\* The status is written when it changes to "completed"; no row is "pending".
Reached(r, now) ==
  IF reqs[r].done = Task /\ reqs[r].status # "completed" THEN "completed" ELSE now

SaveRoadmap(r) ==
  /\ At(r, "save")
  /\ reqs[r].step = Len(Units) + 1
  /\ maps' = [maps EXCEPT ![reqs[r].id] =
       [@ EXCEPT !.progress = Progress(r), !.status = Reached(r, maps[reqs[r].id].status)]]
  /\ reqs' = [reqs EXCEPT ![r].pc = "done"]
  /\ Crossed(r)
  /\ UNCHANGED <<tasks, units, faults>>

-----------------------------------------------------------------------------
(* refreshRoadmap: read the roadmap, generate, archive and create *)

LoadForRefresh(r, a) ==
  /\ At(r, "idle")
  /\ a \in Maps
  /\ reqs' = [reqs EXCEPT ![r] = [@ EXCEPT !.pc = "refresh", !.id = a,
                                           !.status = maps[a].status]]
  /\ UNCHANGED <<maps, tasks, units, calm, faults>>

Refresh(r, b) ==
  LET a == reqs[r].id IN
  /\ At(r, "refresh")
  /\ NextMap(b)
  /\ maps' = [maps EXCEPT ![b] = NewRow(a),
       ![a].status = IF reqs[r].status = "archived" THEN @ ELSE "archived"]
  /\ reqs' = [reqs EXCEPT ![r].pc = "done"]
  /\ Crossed(r)
  /\ UNCHANGED <<tasks, units, faults>>

\* addXp, for a given roadmap or the latest one.
LoadForAward(r, a) ==
  /\ At(r, "idle")
  /\ a \in Maps
  /\ reqs' = [reqs EXCEPT ![r] = [@ EXCEPT !.pc = "add", !.id = a]]
  /\ UNCHANGED <<maps, tasks, units, calm, faults>>

\* A call fails: the request ends where it is, an open transaction rolls back.
Abort(r) ==
  /\ reqs[r].pc \notin {"idle", "done", "aborted"}
  /\ faults < MaxFaults
  /\ faults' = faults + 1
  /\ reqs' = [reqs EXCEPT ![r].pc = "aborted"]
  /\ UNCHANGED <<maps, tasks, units, calm>>

-----------------------------------------------------------------------------
Next == \E r \in Request :
  \/ \E a \in RoadmapId :
        \/ Generate(r, a)
        \/ \E t \in Task : LoadTask(r, a, t)
        \/ LoadForRefresh(r, a)
        \/ Refresh(r, a)
        \/ LoadForAward(r, a)
  \/ SaveTask(r)
  \/ Award(r)
  \/ ReadTree(r)
  \/ SaveUnit(r)
  \/ SaveRoadmap(r)
  \/ Abort(r)

Spec == Init /\ [][Next]_vars

-----------------------------------------------------------------------------
(* Properties *)

UnitStatuses == {"pending", "in_progress", "completed"}
Row == [status : {"none", "in_progress", "completed", "archived"},
        progress : Nat, xp : Nat, previous : RoadmapId \cup {NoRoadmap}]

TypeOK ==
  /\ maps \in [RoadmapId -> Row]
  /\ tasks \in [RoadmapId -> SUBSET Task]
  /\ units \in [RoadmapId -> [Unit -> UnitStatuses]]
  /\ \A r \in Request :
        /\ reqs[r].id \in RoadmapId \cup {NoRoadmap}
        /\ reqs[r].done \subseteq Task
        /\ reqs[r].units \in [Unit -> UnitStatuses]
        /\ reqs[r].step \in 1..(Len(Units) + 1)
  /\ calm \subseteq Request
  /\ faults \in 0..MaxFaults

\* Nothing reads "completed" before it is: neither a milestone, nor a phase, nor
\* the roadmap, however stale the snapshot was that it was saved from.
CompletedIsEarned ==
  \A a \in Maps :
    /\ \A u \in Unit : units[a][u] = "completed" =>
         \A c \in Children[u] : IF c \in Task THEN c \in tasks[a]
                                ELSE Children[c] \subseteq tasks[a]
    /\ maps[a].status = "completed" => tasks[a] = Task

\* The stored progress never exceeds the weight of the completed tasks, also when
\* a task is completed twice or by two requests.
ProgressIsEarned == \A a \in Maps : maps[a].progress <= WeightOf(tasks[a])

\* Overlapping completions, stale snapshots and failures give nobody credit for a
\* task that is not completed.
NothingUnearned == CompletedIsEarned /\ ProgressIsEarned

\* A version that was refreshed away is never in progress again.
SupersededIsClosed ==
  \A a, b \in Maps : maps[b].previous = a => maps[a].status # "in_progress"

\* The stored progress and statuses are those the tasks of roadmap a call for.
Exact(a) ==
  /\ maps[a].progress = WeightOf(tasks[a])
  /\ maps[a].status = "completed" <=> tasks[a] = Task
  /\ \A u \in Unit :
       LET below == {StatusIn(tasks[a], units[a], c) : c \in Children[u]} IN
       /\ units[a][u] = "completed" <=> below = {"completed"}
       /\ "completed" \in below \/ "in_progress" \in below => units[a][u] # "pending"

\* A recalculation that no other write crosses leaves the roadmap exact, whatever
\* earlier races and failures left behind.
CalmRecalculationHeals ==
  [][\A r \in calm : (At(r, "save") /\ reqs'[r].pc = "done") => Exact(reqs[r].id)']_vars

\* completeTask: the XP of a task is awarded into the metadata of the roadmap.
XpIsAwarded ==
  [][\A r \in Request :
       (At(r, "award") /\ reqs'[r].pc = "read")
         => maps'[reqs[r].id].xp > maps[reqs[r].id].xp]_vars
=============================================================================
