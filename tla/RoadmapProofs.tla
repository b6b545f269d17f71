--------------------------- MODULE RoadmapProofs ---------------------------
(***************************************************************************)
(* Proofs about Roadmap, for any trees, requests, versions and failures.   *)
(*                                                                         *)
(* That nothing reads "completed" unearned is not inductive: a unit and    *)
(* the roadmap are saved from a snapshot.  The invariant says what a       *)
(* snapshot is worth: completed tasks stay completed, so a stale one shows *)
(* too little and never too much, and the snapshot of a request whose      *)
(* recalculation no write has crossed is the roadmap itself.               *)
(***************************************************************************)
EXTENDS Roadmap, FiniteSetTheorems, WellFoundedInduction, TLAPS

Active == {"task", "award", "read", "save", "refresh", "add"}
MapStatuses == {"none", "in_progress", "completed", "archived"}

ReqRow ==
  [pc : Active \cup {"idle", "done", "aborted"}, id : RoadmapId \cup {NoRoadmap},
   task : Task \cup {"none"}, step : 1..(Len(Units) + 1), status : MapStatuses,
   done : SUBSET Task, units : [Unit -> UnitStatuses]]

\* TypeOK, with all of a request.
Typed ==
  /\ maps \in [RoadmapId -> Row]
  /\ tasks \in [RoadmapId -> SUBSET Task]
  /\ units \in [RoadmapId -> [Unit -> UnitStatuses]]
  /\ reqs \in [Request -> ReqRow]
  /\ calm \subseteq Request
  /\ faults \in 0..MaxFaults

\* With the tasks in D completed, unit u may read "completed": it holds something,
\* and so does every milestone it holds.
Earned(D, u) ==
  /\ Children[u] # {}
  /\ \A c \in Children[u] :
       IF c \in Task THEN c \in D ELSE Children[c] # {} /\ Children[c] \subseteq D

AllEarned(D, us) == \A u \in Unit : us[u] = "completed" => Earned(D, u)

\* What is stored about roadmap a.
MapOK(a) ==
  IF a \in Maps
  THEN /\ AllEarned(tasks[a], units[a])
       /\ maps[a].status = "completed" => tasks[a] = Task
       /\ maps[a].progress <= WeightOf(tasks[a])
       /\ maps[a].previous \in Maps \cup {NoRoadmap}
  ELSE tasks[a] = {} /\ units[a] = Fresh

\* What the position of a request says about what it has read.
ReqOK(r) ==
  /\ reqs[r].pc \in Active => reqs[r].id \in Maps
  /\ At(r, "task") => reqs[r].task \in Task
  /\ At(r, "save") => /\ reqs[r].done \subseteq tasks[reqs[r].id]
                      /\ AllEarned(tasks[reqs[r].id], reqs[r].units)
  /\ reqs[r].pc \in {"save", "refresh"} /\ reqs[r].status = "archived"
       => maps[reqs[r].id].status # "in_progress"

\* The status of unit u is the one the tasks D and the units below it call for.
UnitExact(D, us, u) ==
  LET below == {StatusIn(D, us, c) : c \in Children[u]} IN
  /\ us[u] = "completed" <=> below = {"completed"}
  /\ "completed" \in below \/ "in_progress" \in below => us[u] # "pending"

\* The snapshot of a calm recalculation is what is stored, and what it has
\* recalculated is exact.
CalmOK(r) ==
  r \in calm /\ At(r, "save") =>
    /\ reqs[r].done = tasks[reqs[r].id]
    /\ reqs[r].units = units[reqs[r].id]
    /\ reqs[r].status = maps[reqs[r].id].status
    /\ \A i \in 1..(reqs[r].step - 1) : UnitExact(reqs[r].done, reqs[r].units, Units[i])

IInv ==
  /\ Typed
  /\ \A a \in RoadmapId : MapOK(a)
  /\ \A r \in Request : ReqOK(r) /\ CalmOK(r)
  /\ SupersededIsClosed

-----------------------------------------------------------------------------
(* Weights.  The sum over a set is a fold, which takes the elements in an    *)
(* order of its own; it counts the blocks of a set of columns.               *)

Blocks(S) == {b \in S \X Nat : b[2] \in 1..Weight[b[1]]}

Summand(s) == CHOOSE t \in s : TRUE

\* g[s] is the sum over s, for every subset s of S.
Sums(g, S) ==
  g = [s \in SUBSET S |-> IF s = {} THEN 0 ELSE Weight[Summand(s)] + g[s \ {Summand(s)}]]

\* The fold of MapThenSumSet is such a function, if there is one.
LEMMA WeightUnfolds ==
  ASSUME NEW S, NEW h, Sums(h, S)
  PROVE  \E g : Sums(g, S) /\ WeightOf(S) = g[S]
<1> DEFINE g == CHOOSE g : Sums(g, S)
<1>1. WeightOf(S) = g[S]
  BY DEF WeightOf, MapThenSumSet, MapThenFoldSet, Summand, Sums
<1>2. Sums(g, S)
  BY Zenon
<1> QED
  BY <1>1, <1>2, Zenon

\* The blocks of a task are as many as its weight.
LEMMA BlocksOfOne ==
  ASSUME NEW t \in Task
  PROVE  IsFiniteSet(Blocks({t})) /\ Cardinality(Blocks({t})) = Weight[t]
<1>1. Weight[t] \in Nat \ {0}
  BY RoadmapAssumption
<1>2. Blocks({t}) = {t} \X (1..Weight[t])
  BY <1>1 DEF Blocks
<1>3. IsFiniteSet({t}) /\ Cardinality({t}) = 1
  BY FS_Singleton
<1>4. IsFiniteSet(1..Weight[t]) /\ Cardinality(1..Weight[t]) = Weight[t]
  BY <1>1, FS_Interval, SMTT(20)
<1>5. /\ IsFiniteSet({t} \X (1..Weight[t]))
      /\ Cardinality({t} \X (1..Weight[t])) = 1 * Weight[t]
  BY <1>3, <1>4, FS_Product, ZenonT(40)
<1>6. 1 * Weight[t] = Weight[t]
  BY <1>1
<1> QED
  BY <1>2, <1>5, <1>6

\* Taking one task away takes its blocks away.
LEMMA BlocksAdd ==
  ASSUME NEW S \in SUBSET Task, NEW t \in S, IsFiniteSet(Blocks(S \ {t}))
  PROVE  /\ IsFiniteSet(Blocks(S))
         /\ Cardinality(Blocks(S)) = Weight[t] + Cardinality(Blocks(S \ {t}))
<1>1. /\ Blocks(S) = Blocks({t}) \cup Blocks(S \ {t})
      /\ Blocks({t}) \cap Blocks(S \ {t}) = {}
  BY DEF Blocks
<1>2. IsFiniteSet(Blocks({t})) /\ Cardinality(Blocks({t})) = Weight[t]
  BY BlocksOfOne
<1> DEFINE A == Blocks({t})  B == Blocks(S \ {t})
<1> HIDE DEF A, B
<1>3. /\ IsFiniteSet(A \cup B)
      /\ Cardinality(A \cup B) = Cardinality(A) + Cardinality(B) - Cardinality(A \cap B)
  <2>1. IsFiniteSet(A) /\ IsFiniteSet(B)
    BY <1>2 DEF A, B
  <2> QED
    BY <2>1, FS_Union
<1>4. /\ Blocks(S) = A \cup B /\ A \cap B = {}
      /\ Cardinality(A) = Weight[t] /\ Weight[t] \in Nat
  BY <1>1, <1>2, RoadmapAssumption DEF A, B
<1>5. Cardinality({}) = 0 /\ Cardinality(B) \in Nat
  BY FS_EmptySet, FS_CardinalityType DEF B
<1>6. Cardinality(A \cap B) = 0
  BY <1>4, <1>5, Zenon
<1>7. Cardinality(A \cup B) = Weight[t] + Cardinality(B)
  BY <1>3, <1>4, <1>5, <1>6
<1> QED
  BY <1>3, <1>4, <1>7, Zenon DEF B

\* Sets of tasks are well founded: a property that fails fails first on a set all
\* of whose proper subsets have it.
LEMMA SmallestSet ==
  ASSUME NEW Bad, Bad \subseteq SUBSET Task, Bad # {}
  PROVE  \E S \in Bad : \A T \in SUBSET S : T # S => T \notin Bad
<1> DEFINE R == StrictSubsetOrdering(Task)
<1>1. IsFiniteSet(Task)
  BY RoadmapAssumption
<1>2. IsWellFoundedOn(R, SUBSET Task)
  BY <1>1, FS_StrictSubsetOrderingWellFounded, FS_FiniteSubsetsOfFinite
<1> HIDE DEF R
<1>3. PICK S \in Bad : \A T \in Bad : ~ (<<T, S>> \in R)
  BY <1>2, WFMin
<1> QED
  BY <1>3 DEF R, StrictSubsetOrdering

\* Every set of tasks has finitely many blocks.
LEMMA BlocksFinite == \A S \in SUBSET Task : IsFiniteSet(Blocks(S))
<1> DEFINE Bad == {S \in SUBSET Task : ~IsFiniteSet(Blocks(S))}
<1> SUFFICES ASSUME Bad # {} PROVE FALSE
  OBVIOUS
<1>1. PICK S \in Bad : \A T \in SUBSET S : T # S => T \notin Bad
  <2> HIDE DEF Bad
  <2>1. Bad \subseteq SUBSET Task
    BY DEF Bad
  <2> QED
    BY <2>1, SmallestSet
<1>2. CASE S = {}
  <2>1. Blocks(S) = {}
    BY <1>2 DEF Blocks
  <2> QED
    BY <2>1, FS_EmptySet
<1>3. CASE S # {}
  <2>1. PICK t \in S : TRUE
    BY <1>3
  <2>2. S \ {t} \in SUBSET S /\ S \ {t} # S /\ S \in SUBSET Task
    BY <2>1
  <2>3. IsFiniteSet(Blocks(S \ {t}))
    BY <1>1, <2>2
  <2> QED
    BY <2>1, <2>2, <2>3, BlocksAdd
<1> QED
  BY <1>2, <1>3

\* The weight of a set of tasks, in whatever order it is summed.
LEMMA WeightCounts ==
  ASSUME NEW S \in SUBSET Task
  PROVE  WeightOf(S) = Cardinality(Blocks(S))
<1> DEFINE h == [s \in SUBSET S |-> Cardinality(Blocks(s))]
<1>1. \A s \in SUBSET S :
        h[s] = IF s = {} THEN 0 ELSE Weight[Summand(s)] + h[s \ {Summand(s)}]
  <2> TAKE s \in SUBSET S
  <2>1. CASE s = {}
    <3>1. Blocks(s) = {}
      BY <2>1 DEF Blocks
    <3> QED
      BY <2>1, <3>1, FS_EmptySet
  <2>2. CASE s # {}
    <3>1. Summand(s) \in s
      BY <2>2 DEF Summand
    <3>2. s \in SUBSET Task /\ s \ {Summand(s)} \in SUBSET Task
      OBVIOUS
    <3>3. Cardinality(Blocks(s)) = Weight[Summand(s)] + Cardinality(Blocks(s \ {Summand(s)}))
      BY <3>1, <3>2, BlocksAdd, BlocksFinite
    <3> QED
      BY <2>2, <3>3
  <2> QED
    BY <2>1, <2>2
<1>2. Sums(h, S)
  <2>1. h = [s \in SUBSET S |-> h[s]]
    OBVIOUS
  <2> HIDE DEF h
  <2> QED
    BY <1>1, <2>1 DEF Sums
<1>3. PICK g : Sums(g, S) /\ WeightOf(S) = g[S]
  BY <1>2, WeightUnfolds
<1>4. \A s \in SUBSET S :
        g[s] = IF s = {} THEN 0 ELSE Weight[Summand(s)] + g[s \ {Summand(s)}]
  BY <1>3 DEF Sums
<1> DEFINE Bad == {s \in SUBSET S : g[s] # h[s]}
<1>5. Bad = {}
  <2> SUFFICES ASSUME Bad # {} PROVE FALSE
    OBVIOUS
  <2>1. PICK s \in Bad : \A T \in SUBSET s : T # s => T \notin Bad
    <3> HIDE DEF Bad
    <3>1. Bad \subseteq SUBSET Task
      BY DEF Bad
    <3> QED
      BY <3>1, SmallestSet
  <2> HIDE DEF h
  <2>2. CASE s = {}
    BY <1>1, <1>4, <2>2
  <2>3. CASE s # {}
    <3>1. Summand(s) \in s
      BY <2>3 DEF Summand
    <3>2. s \ {Summand(s)} \in SUBSET s /\ s \ {Summand(s)} # s
      BY <3>1
    <3>3. g[s \ {Summand(s)}] = h[s \ {Summand(s)}]
      BY <2>1, <3>2
    <3> QED
      BY <1>1, <1>4, <2>3, <3>3
  <2> QED
    BY <2>2, <2>3
<1> QED
  BY <1>3, <1>5

\* A weight is a number, and more completed tasks weigh more.
LEMMA WeightGrows ==
  ASSUME NEW T \in SUBSET Task, NEW S \in SUBSET T
  PROVE  WeightOf(S) \in Nat /\ WeightOf(T) \in Nat /\ WeightOf(S) <= WeightOf(T)
<1>1. S \in SUBSET Task /\ Blocks(S) \subseteq Blocks(T)
  BY DEF Blocks
<1>2. IsFiniteSet(Blocks(T))
  BY BlocksFinite
<1>3. IsFiniteSet(Blocks(S)) /\ Cardinality(Blocks(S)) <= Cardinality(Blocks(T))
  BY <1>1, <1>2, FS_Subset
<1> QED
  BY <1>1, <1>2, <1>3, WeightCounts, FS_CardinalityType

-----------------------------------------------------------------------------
(* Trees *)

\* Units are numbered, and only they are.
LEMMA UnitsNumbered ==
  /\ Len(Units) \in Nat /\ DOMAIN Units = 1..Len(Units)
  /\ \A i \in 1..Len(Units) : Units[i] \in Unit
  /\ \A u \in Unit : \E i \in 1..Len(Units) : Units[i] = u
  BY RoadmapAssumption DEF Unit

\* A unit starts "pending" or "in_progress".
LEMMA FreshUnits ==
  /\ Fresh \in [Unit -> UnitStatuses]
  /\ \A D : AllEarned(D, Fresh)
  BY DEF Fresh, UnitStatuses, AllEarned

\* Further completed tasks do not take back what was earned.
LEMMA EarnedGrows ==
  ASSUME NEW D, NEW E, D \subseteq E
  PROVE  /\ \A u : Earned(D, u) => Earned(E, u)
         /\ \A us : AllEarned(D, us) => AllEarned(E, us)
  BY DEF Earned, AllEarned

\* A unit is rolled up to "completed" only when it has earned it, from tasks
\* that are all completed by now.
LEMMA RolledUpEarned ==
  ASSUME NEW D \in SUBSET Task, NEW done \in SUBSET D,
         NEW us \in [Unit -> UnitStatuses], AllEarned(D, us), NEW u \in Unit
  PROVE  /\ RolledUp(done, us, u) \in UnitStatuses
         /\ AllEarned(D, [us EXCEPT ![u] = RolledUp(done, us, u)])
<1> DEFINE below == {StatusIn(done, us, c) : c \in Children[u]}
<1>1. RolledUp(done, us, u) \in {"completed", "in_progress", us[u]}
  BY DEF RolledUp
<1>2. ASSUME below = {"completed"} PROVE Earned(D, u)
  <2>1. Children[u] # {} /\ \A c \in Children[u] : StatusIn(done, us, c) = "completed"
    BY <1>2
  <2>2. ASSUME NEW c \in Children[u]
        PROVE  IF c \in Task THEN c \in D ELSE Children[c] # {} /\ Children[c] \subseteq D
    <3>1. CASE c \in Task
      BY <2>1, <3>1 DEF StatusIn
    <3>2. CASE c \notin Task
      <4>1. us[c] = "completed"
        BY <2>1, <3>2 DEF StatusIn
      <4>2. c \in Unit /\ Children[c] \subseteq Task
        BY <3>2, TreeAssumption
      <4>3. Earned(D, c)
        BY <4>1, <4>2 DEF AllEarned
      <4> QED
        BY <3>2, <4>2, <4>3 DEF Earned
    <3> QED
      BY <3>1, <3>2
  <2> QED
    BY <2>1, <2>2 DEF Earned
<1>3. RolledUp(done, us, u) = "completed" => below = {"completed"} \/ us[u] = "completed"
  BY DEF RolledUp
<1> HIDE DEF below
<1>4. RolledUp(done, us, u) = "completed" => Earned(D, u)
  BY <1>2, <1>3 DEF AllEarned
<1> QED
  BY <1>1, <1>4 DEF AllEarned, UnitStatuses

\* Recalculating one more unit makes it exact and leaves those before it exact:
\* none of them holds it.
LEMMA RollUpExact ==
  ASSUME NEW D \in SUBSET Task, NEW us \in [Unit -> UnitStatuses], AllEarned(D, us),
         NEW n \in 1..Len(Units),
         \A i \in 1..(n - 1) : UnitExact(D, us, Units[i])
  PROVE  \A i \in 1..n :
           UnitExact(D, [us EXCEPT ![Units[n]] = RolledUp(D, us, Units[n])], Units[i])
<1> DEFINE u == Units[n]
           new == [us EXCEPT ![u] = RolledUp(D, us, u)]
<1>1. /\ n \in Nat /\ u \in Unit /\ n \in 1..n
      /\ \A i \in 1..n : i = n \/ i \in 1..(n - 1)
      /\ \A i \in 1..n : i \in DOMAIN Units /\ Units[i] \in Unit
      /\ \A i \in 1..(n - 1) : Units[i] # u
  BY UnitsNumbered, TreeAssumption
<1>2. new[u] = RolledUp(D, us, u) /\ \A v \in Unit \ {u} : new[v] = us[v]
  BY <1>1
<1>3. ASSUME NEW i \in 1..n, NEW c \in Children[Units[i]]
      PROVE  StatusIn(D, new, c) = StatusIn(D, us, c)
  <2>1. CASE c \in Task
    BY <2>1 DEF StatusIn
  <2>2. CASE c \notin Task
    <3>1. c \in Unit
      BY <1>1, <2>2, TreeAssumption
    <3>2. PICK k \in 1..(i - 1) : Units[k] = c
      BY <1>1, <3>1, TreeAssumption
    <3>3. k \in 1..(n - 1)
      BY <1>1
    <3>4. c # u
      BY <1>1, <3>2, <3>3
    <3> QED
      BY <1>2, <2>2, <3>1, <3>4 DEF StatusIn
  <2> QED
    BY <2>1, <2>2
<1>4. \A i \in 1..n : {StatusIn(D, new, c) : c \in Children[Units[i]]}
                        = {StatusIn(D, us, c) : c \in Children[Units[i]]}
  BY <1>3
<1> HIDE DEF new
<1>5. ASSUME NEW i \in 1..(n - 1) PROVE UnitExact(D, new, Units[i])
  <2>1. i \in 1..n /\ new[Units[i]] = us[Units[i]]
    BY <1>1, <1>2
  <2> QED
    BY <1>4, <2>1 DEF UnitExact
<1>6. UnitExact(D, new, u)
  <2> DEFINE below == {StatusIn(D, us, c) : c \in Children[u]}
  <2>1. us[u] = "completed" => below = {"completed"}
    <3> SUFFICES ASSUME us[u] = "completed" PROVE below = {"completed"}
      OBVIOUS
    <3>1. Earned(D, u)
      BY <1>1 DEF AllEarned
    <3>2. ASSUME NEW c \in Children[u] PROVE StatusIn(D, us, c) = "completed"
      <4>1. CASE c \in Task
        BY <3>1, <4>1 DEF Earned, StatusIn
      <4>2. CASE c \notin Task
        <5>1. c \in Unit /\ Children[c] \subseteq Task
          BY <1>1, <4>2, TreeAssumption
        <5>2. Children[c] # {} /\ Children[c] \subseteq D
          BY <3>1, <4>2 DEF Earned
        <5>3. {StatusIn(D, us, d) : d \in Children[c]} = {"completed"}
          BY <5>1, <5>2 DEF StatusIn
        <5>4. PICK k \in 1..(n - 1) : Units[k] = c
          BY <1>1, <5>1, TreeAssumption
        <5>5. us[c] = "completed"
          BY <5>3, <5>4 DEF UnitExact
        <5> QED
          BY <4>2, <5>5 DEF StatusIn
      <4> QED
        BY <4>1, <4>2
    <3> QED
      BY <3>1, <3>2 DEF Earned
  <2>2. {StatusIn(D, new, c) : c \in Children[u]} = below
    BY <1>1, <1>4, Zenon
  <2>3. /\ new[u] = "completed" <=> below = {"completed"}
        /\ "completed" \in below \/ "in_progress" \in below => new[u] # "pending"
    BY <1>2, <2>1 DEF RolledUp
  <2> QED
    BY <2>2, <2>3 DEF UnitExact
<1> QED
  BY <1>1, <1>5, <1>6, Zenon DEF new

-----------------------------------------------------------------------------
(* The invariant holds in every reachable state *)

\* Tasks are only completed, roadmaps are only added, and none is in progress again.
Grows ==
  /\ \A a \in Maps : /\ a \in Maps' /\ tasks[a] \subseteq tasks'[a]
                     /\ maps[a].status # "in_progress" => maps'[a].status # "in_progress"

\* A step that does not touch the roadmap of a calm request other than r.
LeavesCalm(r) ==
  \A q \in calm' \ {r} :
    /\ q \in calm
    /\ At(q, "save") => LET a == reqs[q].id IN
                        /\ tasks'[a] = tasks[a] /\ units'[a] = units[a]
                        /\ maps'[a].status = maps[a].status

\* What the requests other than r know stays true.
LEMMA OthersKeep ==
  ASSUME IInv, NEW r \in Request, Grows, LeavesCalm(r),
         NEW q \in Request \ {r}, reqs'[q] = reqs[q]
  PROVE  ReqOK(q)' /\ CalmOK(q)'
<1>1. ReqOK(q) /\ CalmOK(q)
  BY DEF IInv
<1>2. ReqOK(q)'
  <2>1. reqs[q].pc \in Active => reqs[q].id \in Maps
    BY <1>1 DEF ReqOK
  <2>2. CASE reqs[q].pc \in Active
    <3>1. tasks[reqs[q].id] \subseteq tasks'[reqs[q].id]
      BY <2>1, <2>2 DEF Grows
    <3>2. At(q, "save") => AllEarned(tasks'[reqs[q].id], reqs[q].units)
      BY <1>1, <3>1, EarnedGrows DEF ReqOK
    <3> QED
      BY <1>1, <2>1, <2>2, <3>1, <3>2 DEF ReqOK, Grows, At, AllEarned, Earned
  <2>3. CASE reqs[q].pc \notin Active
    BY <2>3 DEF ReqOK, Active, At
  <2> QED
    BY <2>2, <2>3
<1>3. CalmOK(q)'
  <2> SUFFICES ASSUME q \in calm', reqs[q].pc = "save" PROVE CalmOK(q)'
    BY DEF CalmOK, At
  <2>1. /\ q \in calm
        /\ tasks'[reqs[q].id] = tasks[reqs[q].id]
        /\ units'[reqs[q].id] = units[reqs[q].id]
        /\ maps'[reqs[q].id].status = maps[reqs[q].id].status
    BY DEF LeavesCalm, At
  <2>2. ASSUME NEW i \in 1..(reqs[q].step - 1)
        PROVE  UnitExact(reqs[q].done, reqs[q].units, Units[i])'
    <3>1. UnitExact(reqs[q].done, reqs[q].units, Units[i])
      BY <1>1, <2>1 DEF CalmOK, At
    <3> QED
      BY <3>1 DEF UnitExact, StatusIn
  <2> QED
    BY <1>1, <2>1, <2>2 DEF CalmOK, At
<1> QED
  BY <1>2, <1>3

\* What the proof of a step shows: the types, the roadmaps, the request that
\* moves, and that the others are left alone.
Kept(r) ==
  /\ Typed'
  /\ \A a \in RoadmapId : MapOK(a)'
  /\ SupersededIsClosed'
  /\ \A q \in Request \ {r} : reqs'[q] = reqs[q]
  /\ ReqOK(r)' /\ CalmOK(r)'
  /\ Grows /\ LeavesCalm(r)

\* That is enough.
LEMMA KeptIsEnough ==
  ASSUME IInv, NEW r \in Request, Kept(r)
  PROVE  IInv'
<1>1. \A q \in Request : ReqOK(q)' /\ CalmOK(q)'
  BY OthersKeep DEF Kept
<1> QED
  BY <1>1 DEF Kept, IInv

\* A request moves on and changes nothing stored; at most it becomes calm.
LEMMA MoveKeeps ==
  ASSUME IInv, NEW r \in Request, NEW x \in ReqRow,
         reqs' = [reqs EXCEPT ![r] = x],
         UNCHANGED <<maps, tasks, units>>,
         calm' \in {calm, calm \cup {r}}, faults' \in 0..MaxFaults,
         ReqOK(r)', CalmOK(r)'
  PROVE  IInv'
<1>1. Typed'
  BY DEF IInv, Typed
<1>2. \A a \in RoadmapId : MapOK(a)'
  BY DEF IInv, MapOK, Maps, AllEarned, Earned
<1>3. SupersededIsClosed'
  BY DEF IInv, SupersededIsClosed, Maps
<1>4. Grows /\ LeavesCalm(r)
  BY DEF Grows, LeavesCalm, Maps
<1>5. \A q \in Request \ {r} : reqs'[q] = reqs[q]
  BY DEF IInv, Typed
<1>6. Kept(r)
  BY <1>1, <1>2, <1>3, <1>4, <1>5 DEF Kept
<1> QED
  BY <1>6, KeptIsEnough

\* The first state.
LEMMA InitIInv == Init => IInv
<1> SUFFICES ASSUME Init PROVE IInv
  OBVIOUS
<1>1. Maps = {}
  BY DEF Init, Maps, NoRow
<1>2. Typed
  <2>1. NoRow \in Row
    BY DEF NoRow, Row
  <2>2. Idle \in ReqRow
    BY FreshUnits, UnitsNumbered DEF Idle, ReqRow, MapStatuses
  <2>3. 0 \in 0..MaxFaults
    BY RoadmapAssumption
  <2> QED
    BY <2>1, <2>2, <2>3, FreshUnits DEF Init, Typed
<1>3. \A a \in RoadmapId : MapOK(a)
  BY <1>1 DEF Init, MapOK
<1>4. \A r \in Request : ReqOK(r) /\ CalmOK(r)
  BY DEF Init, Idle, ReqOK, CalmOK, At, Active
<1>5. SupersededIsClosed
  BY <1>1 DEF SupersededIsClosed
<1> QED
  BY <1>2, <1>3, <1>4, <1>5 DEF IInv

\* Requests that load a roadmap, and requests that end.
LEMMA LoadKeeps ==
  ASSUME IInv, NEW r \in Request, NEW a \in RoadmapId,
         (\E t \in Task : LoadTask(r, a, t)) \/ LoadForRefresh(r, a) \/ LoadForAward(r, a)
  PROVE  IInv'
<1>1. reqs \in [Request -> ReqRow] /\ faults \in 0..MaxFaults /\ maps[a] \in Row
  BY DEF IInv, Typed
<1>2. a \in Maps /\ a \in Maps' /\ UNCHANGED <<maps, tasks, units, calm, faults>>
  BY DEF LoadTask, LoadForRefresh, LoadForAward, Maps
<1>3. PICK x \in ReqRow : /\ reqs' = [reqs EXCEPT ![r] = x]
                          /\ x.id = a /\ x.pc \in {"task", "refresh", "add"}
                          /\ x.pc = "task" => x.task \in Task
                          /\ x.pc = "refresh" => x.status = maps[a].status
  <2>1. ASSUME NEW t \in Task, LoadTask(r, a, t)
        PROVE  \E x \in ReqRow : /\ reqs' = [reqs EXCEPT ![r] = x]
                                /\ x.id = a /\ x.pc = "task" /\ x.task \in Task
    <3> DEFINE x == [reqs[r] EXCEPT !.pc = "task", !.id = a, !.task = t]
    <3>1. x \in ReqRow /\ x.id = a /\ x.pc = "task" /\ x.task = t
      BY <1>1 DEF ReqRow, Active
    <3>2. reqs' = [reqs EXCEPT ![r] = x]
      BY <2>1 DEF LoadTask
    <3> HIDE DEF x
    <3> QED
      BY <3>1, <3>2
  <2>2. CASE LoadForRefresh(r, a)
    <3> DEFINE x == [reqs[r] EXCEPT !.pc = "refresh", !.id = a, !.status = maps[a].status]
    <3>1. x \in ReqRow /\ x.id = a /\ x.pc = "refresh" /\ x.status = maps[a].status
      BY <1>1, ZenonT(40) DEF ReqRow, Active, Row, MapStatuses
    <3>2. reqs' = [reqs EXCEPT ![r] = x]
      BY <2>2 DEF LoadForRefresh
    <3> HIDE DEF x
    <3> QED
      BY <3>1, <3>2
  <2>3. CASE LoadForAward(r, a)
    <3> DEFINE x == [reqs[r] EXCEPT !.pc = "add", !.id = a]
    <3>1. x \in ReqRow /\ x.id = a /\ x.pc = "add"
      BY <1>1 DEF ReqRow, Active
    <3>2. reqs' = [reqs EXCEPT ![r] = x]
      BY <2>3 DEF LoadForAward
    <3> HIDE DEF x
    <3> QED
      BY <3>1, <3>2
  <2> QED
    BY <2>1, <2>2, <2>3
<1>4. reqs'[r] = x
  BY <1>1, <1>3
<1>5. ReqOK(r)' /\ CalmOK(r)'
  BY <1>2, <1>3, <1>4 DEF ReqOK, CalmOK, At, Active
<1> QED
  BY <1>1, <1>2, <1>3, <1>5, MoveKeeps

\* A failed call.
LEMMA AbortKeeps ==
  ASSUME IInv, NEW r \in Request, Abort(r)
  PROVE  IInv'
<1> DEFINE x == [reqs[r] EXCEPT !.pc = "aborted"]
<1>1. x \in ReqRow /\ x.pc = "aborted" /\ reqs' = [reqs EXCEPT ![r] = x] /\ reqs'[r] = x
  BY DEF Abort, IInv, Typed, ReqRow
<1>2. UNCHANGED <<maps, tasks, units, calm>> /\ faults' \in 0..MaxFaults
  BY RoadmapAssumption DEF Abort, IInv, Typed
<1> HIDE DEF x
<1>3. ReqOK(r)' /\ CalmOK(r)'
  BY <1>1 DEF ReqOK, CalmOK, At, Active
<1> QED
  BY <1>1, <1>2, <1>3, MoveKeeps

\* The tree is read: the snapshot is what is stored.
LEMMA ReadTreeKeeps ==
  ASSUME IInv, NEW r \in Request, ReadTree(r)
  PROVE  IInv'
<1> DEFINE a == reqs[r].id
           x == [reqs[r] EXCEPT !.pc = "save", !.step = 1, !.status = maps[a].status,
                                !.done = tasks[a], !.units = units[a]]
<1>1. a \in Maps /\ a \in RoadmapId /\ reqs[r] \in ReqRow
  BY DEF ReadTree, IInv, ReqOK, At, Active, Maps, Typed
<1>2. /\ reqs' = [reqs EXCEPT ![r] = x]
      /\ UNCHANGED <<maps, tasks, units, faults>>
      /\ calm' \in {calm, calm \cup {r}}
  BY DEF ReadTree
<1>3. /\ x.pc = "save" /\ x.step = 1 /\ x.status = maps[a].status
      /\ x.done = tasks[a] /\ x.units = units[a] /\ x.id = a
  BY <1>1 DEF ReqRow
<1>4. x \in ReqRow
  <2>1. 1 \in 1..(Len(Units) + 1)
    BY UnitsNumbered
  <2>2. tasks[a] \in SUBSET Task /\ units[a] \in [Unit -> UnitStatuses]
        /\ maps[a].status \in MapStatuses
    BY <1>1 DEF IInv, Typed, Row, MapStatuses
  <2> HIDE DEF a
  <2> QED
    BY <1>1, <2>1, <2>2 DEF ReqRow, Active
<1> HIDE DEF x
<1>5. reqs'[r] = x
  BY <1>2 DEF IInv, Typed
<1>6. AllEarned(tasks[a], units[a])
  BY <1>1 DEF IInv, MapOK
<1>7. ReqOK(r)'
  BY <1>1, <1>2, <1>3, <1>5, <1>6 DEF ReqOK, At, Active, Maps, AllEarned, Earned
<1>8. CalmOK(r)'
  BY <1>1, <1>2, <1>3, <1>5 DEF CalmOK, At
<1>9. faults' \in 0..MaxFaults
  BY <1>2 DEF IInv, Typed
<1> QED
  BY <1>2, <1>4, <1>7, <1>8, <1>9, MoveKeeps

\* The task is saved; recalculations of the same roadmap by others are crossed.
LEMMA SaveTaskKeeps ==
  ASSUME IInv, NEW r \in Request, SaveTask(r)
  PROVE  IInv'
<1> DEFINE a == reqs[r].id  t == reqs[r].task
           x == [reqs[r] EXCEPT !.pc = "award"]
<1>1. /\ a \in Maps /\ a \in RoadmapId /\ t \in Task /\ reqs[r] \in ReqRow
      /\ tasks \in [RoadmapId -> SUBSET Task]
  BY DEF SaveTask, IInv, ReqOK, At, Active, Maps, Typed
<1>2. /\ tasks' = [tasks EXCEPT ![a] = tasks[a] \cup {t}]
      /\ UNCHANGED <<maps, units, faults>>
      /\ calm' = calm \ Others(r)
      /\ reqs' = [reqs EXCEPT ![r] = x]
  BY DEF SaveTask, Crossed
<1>3. x \in ReqRow /\ x.pc = "award" /\ x.id = a
  BY <1>1 DEF ReqRow, Active
<1> HIDE DEF x
<1>4. /\ reqs'[r] = x /\ \A q \in Request \ {r} : reqs'[q] = reqs[q]
      /\ tasks'[a] = tasks[a] \cup {t} /\ \A b \in RoadmapId \ {a} : tasks'[b] = tasks[b]
      /\ Maps' = Maps
  BY <1>1, <1>2 DEF IInv, Typed, Maps
<1>5. Typed'
  BY <1>1, <1>2, <1>3 DEF IInv, Typed
<1>6. ASSUME NEW b \in RoadmapId PROVE MapOK(b)'
  <2>1. MapOK(b)
    BY DEF IInv
  <2>2. CASE b # a
    BY <1>2, <1>4, <2>1, <2>2 DEF MapOK, AllEarned, Earned
  <2>3. CASE b = a
    <3>1. tasks[a] \in SUBSET tasks'[a] /\ tasks'[a] \in SUBSET Task
      BY <1>1, <1>4
    <3>2. AllEarned(tasks'[a], units[a])
      BY <1>1, <2>1, <2>3, <3>1, EarnedGrows DEF MapOK
    <3>3. WeightOf(tasks[a]) <= WeightOf(tasks'[a])
          /\ WeightOf(tasks[a]) \in Nat /\ WeightOf(tasks'[a]) \in Nat
      BY <3>1, WeightGrows
    <3>4. maps[a].progress \in Nat /\ maps[a].progress <= WeightOf(tasks[a])
      BY <1>1, <2>1, <2>3 DEF MapOK, IInv, Typed, Row
    <3>5. maps[a].progress <= WeightOf(tasks'[a])
      BY <3>3, <3>4
    <3>6. maps[a].status = "completed" => tasks'[a] = Task
      BY <1>1, <2>1, <2>3, <3>1 DEF MapOK
    <3>7. maps[a].previous \in Maps \cup {NoRoadmap}
      BY <1>1, <2>1, <2>3 DEF MapOK
    <3>8. WeightOf(tasks[b])' = WeightOf(tasks'[b])
      BY DEF WeightOf, MapThenSumSet, MapThenFoldSet
    <3> QED
      BY <1>1, <1>2, <1>4, <2>3, <3>2, <3>5, <3>6, <3>7, <3>8 DEF MapOK, AllEarned, Earned
  <2> QED
    BY <2>2, <2>3
<1>7. SupersededIsClosed'
  BY <1>2, <1>4 DEF IInv, SupersededIsClosed
<1>8. ReqOK(r)' /\ CalmOK(r)'
  BY <1>1, <1>3, <1>4 DEF ReqOK, CalmOK, At, Active
<1>9. Grows
  BY <1>1, <1>2, <1>4 DEF Grows, Maps
<1>10. LeavesCalm(r)
  <2> SUFFICES ASSUME NEW q \in calm' \ {r}, At(q, "save")
               PROVE  tasks'[reqs[q].id] = tasks[reqs[q].id]
    BY <1>2 DEF LeavesCalm
  <2>1. q \in Request /\ reqs[q].id # a
    BY <1>2 DEF Others, IInv, Typed
  <2>2. reqs[q].id \in RoadmapId
    BY <2>1 DEF IInv, ReqOK, At, Active, Maps
  <2> QED
    BY <1>4, <2>1, <2>2
<1>11. Kept(r)
  BY <1>4, <1>5, <1>6, <1>7, <1>8, <1>9, <1>10 DEF Kept
<1> QED
  BY <1>11, KeptIsEnough

\* The award leaves the roadmap as it is.
LEMMA AwardKeeps ==
  ASSUME IInv, NEW r \in Request, Award(r)
  PROVE  IInv'
<1> DEFINE a == reqs[r].id
           x == [reqs[r] EXCEPT !.pc = IF At(r, "award") THEN "read" ELSE "done"]
<1>1. a \in Maps /\ a \in RoadmapId /\ reqs[r] \in ReqRow /\ maps \in [RoadmapId -> Row]
  BY DEF Award, IInv, ReqOK, Active, Maps, Typed
<1>2. UNCHANGED <<tasks, units, calm, faults>> /\ reqs' = [reqs EXCEPT ![r] = x]
  BY DEF Award
<1>3. maps' = maps
  BY <1>1 DEF Award, Stored, Row
<1>4. x \in ReqRow /\ x.pc \in {"read", "done"} /\ x.id = a
  BY <1>1 DEF ReqRow, Active
<1> HIDE DEF x
<1>5. reqs'[r] = x
  BY <1>2 DEF IInv, Typed
<1>6. ReqOK(r)' /\ CalmOK(r)'
  BY <1>1, <1>3, <1>4, <1>5 DEF ReqOK, CalmOK, At, Active, Maps
<1>7. faults' \in 0..MaxFaults
  BY <1>2 DEF IInv, Typed
<1> QED
  BY <1>2, <1>3, <1>4, <1>6, <1>7, MoveKeeps

\* A calm request that r has not crossed recalculates another roadmap.
LEMMA UncrossedElsewhere ==
  ASSUME IInv, NEW r \in Request, NEW q \in (calm \ Others(r)) \ {r}, At(q, "save")
  PROVE  reqs[q].id \in Maps \ {reqs[r].id}
<1>1. q \in Request /\ reqs[q].id # reqs[r].id
  BY DEF Others, IInv, Typed
<1>2. reqs[q].id \in Maps
  BY <1>1 DEF IInv, ReqOK, At, Active
<1> QED
  BY <1>1, <1>2

\* A roadmap that is not there yet, for the row it is inserted with.
LEMMA NewMapOK ==
  ASSUME IInv, NEW b \in RoadmapId \ Maps, NEW p \in Maps \cup {NoRoadmap},
         maps'[b] = NewRow(p), b \in Maps', Maps \subseteq Maps', UNCHANGED <<tasks, units>>
  PROVE  NewRow(p) \in Row /\ MapOK(b)'
<1>1. tasks[b] = {} /\ units[b] = Fresh
  BY DEF IInv, MapOK
<1>2. /\ NewRow(p) = [status |-> "in_progress", progress |-> 0, xp |-> 0, previous |-> p]
      /\ p \in RoadmapId \cup {NoRoadmap}
  BY DEF NewRow, NoRow, Maps
<1>3. NewRow(p) \in Row
  BY <1>2 DEF Row
<1>4. WeightOf({}) \in Nat
  BY WeightGrows
<1>5. WeightOf(tasks[b])' = WeightOf({})
  BY <1>1 DEF WeightOf, MapThenSumSet, MapThenFoldSet
<1>6. (maps[b].progress <= WeightOf(tasks[b]))'
  BY <1>2, <1>4, <1>5
<1>7. AllEarned(tasks[b], units[b])'
  BY <1>1, FreshUnits DEF AllEarned, Earned
<1> QED
  BY <1>2, <1>3, <1>6, <1>7 DEF MapOK

\* A roadmap that a step leaves alone.
LEMMA SameMapOK ==
  ASSUME IInv, NEW b \in RoadmapId, maps'[b] = maps[b], tasks'[b] = tasks[b],
         units'[b] = units[b], Maps \subseteq Maps'
  PROVE  MapOK(b)'
<1>1. MapOK(b) /\ (b \in Maps' <=> b \in Maps)
  BY DEF IInv, Maps
<1>2. WeightOf(tasks[b])' = WeightOf(tasks[b])
  BY DEF WeightOf, MapThenSumSet, MapThenFoldSet
<1> QED
  BY <1>1, <1>2 DEF MapOK, AllEarned, Earned

\* A roadmap is created.
LEMMA GenerateKeeps ==
  ASSUME IInv, NEW r \in Request, NEW a \in RoadmapId, Generate(r, a)
  PROVE  IInv'
<1> DEFINE x == [reqs[r] EXCEPT !.pc = "done"]
<1>1. /\ a \notin Maps /\ a # NoRoadmap
      /\ maps' = [maps EXCEPT ![a] = NewRow(NoRoadmap)]
      /\ reqs' = [reqs EXCEPT ![r] = x]
      /\ UNCHANGED <<tasks, units, calm, faults>>
  BY RoadmapAssumption DEF Generate, NextMap, NoRoadmap
<1>2. x \in ReqRow /\ x.pc = "done"
  BY DEF IInv, Typed, ReqRow
<1> HIDE DEF x
<1>3. /\ maps'[a] = NewRow(NoRoadmap) /\ \A b \in RoadmapId \ {a} : maps'[b] = maps[b]
      /\ reqs'[r] = x /\ \A q \in Request \ {r} : reqs'[q] = reqs[q]
  BY <1>1 DEF IInv, Typed
<1>4. maps'[a].status = "in_progress" /\ maps'[a].previous = NoRoadmap
  BY <1>3 DEF NewRow, NoRow
<1>5. Maps' = Maps \cup {a}
  BY <1>3, <1>4 DEF Maps
<1>6. NewRow(NoRoadmap) \in Row /\ MapOK(a)'
  BY <1>1, <1>3, <1>5, NewMapOK
<1>7. Typed'
  BY <1>1, <1>2, <1>6 DEF IInv, Typed
<1>8. \A b \in RoadmapId : MapOK(b)'
  BY <1>1, <1>3, <1>5, <1>6, SameMapOK
<1>9. SupersededIsClosed'
  <2> SUFFICES ASSUME NEW c \in Maps', NEW b \in Maps', maps'[b].previous = c
               PROVE  maps'[c].status # "in_progress"
    BY DEF SupersededIsClosed
  <2>1. c \in RoadmapId /\ c # NoRoadmap /\ b # a /\ b \in Maps
    BY <1>4, <1>5, RoadmapAssumption DEF Maps, NoRoadmap
  <2>2. maps[b].previous = c /\ c \in Maps
    BY <1>3, <2>1 DEF IInv, MapOK, Maps
  <2> QED
    BY <1>1, <1>3, <2>1, <2>2 DEF IInv, SupersededIsClosed, Maps
<1>10. ReqOK(r)' /\ CalmOK(r)'
  BY <1>2, <1>3 DEF ReqOK, CalmOK, At, Active
<1>11. Grows
  BY <1>1, <1>3, <1>5 DEF Grows, Maps
<1>12. LeavesCalm(r)
  <2> SUFFICES ASSUME NEW q \in calm \ {r}, At(q, "save")
               PROVE  maps'[reqs[q].id] = maps[reqs[q].id]
    BY <1>1 DEF LeavesCalm
  <2>1. reqs[q].id \in Maps
    BY DEF IInv, Typed, ReqOK, At, Active
  <2> QED
    BY <1>1, <1>3, <2>1 DEF Maps
<1>13. Kept(r)
  BY <1>3, <1>7, <1>8, <1>9, <1>10, <1>11, <1>12 DEF Kept
<1> QED
  BY <1>13, KeptIsEnough

\* A refresh: the version it was asked for is archived, the new one follows it.
LEMMA RefreshKeeps ==
  ASSUME IInv, NEW r \in Request, NEW b \in RoadmapId, Refresh(r, b)
  PROVE  IInv'
<1> DEFINE a == reqs[r].id
           s == IF reqs[r].status = "archived" THEN maps[a].status ELSE "archived"
           x == [reqs[r] EXCEPT !.pc = "done"]
<1>1. /\ a \in Maps /\ a \in RoadmapId /\ b \notin Maps /\ a # b
      /\ s \in {maps[a].status, "archived"} /\ s # "in_progress"
      /\ maps[a] \in Row /\ maps \in [RoadmapId -> Row]
  BY DEF Refresh, NextMap, IInv, ReqOK, At, Active, Maps, Typed
<1>2. /\ maps' = [maps EXCEPT ![b] = NewRow(a), ![a].status = s]
      /\ reqs' = [reqs EXCEPT ![r] = x]
      /\ calm' = calm \ Others(r)
      /\ UNCHANGED <<tasks, units, faults>>
  BY <1>1 DEF Refresh, Crossed
<1>3. x \in ReqRow /\ x.pc = "done"
  BY DEF IInv, Typed, ReqRow
<1> HIDE DEF x, s
<1>4. /\ maps'[b] = NewRow(a) /\ maps'[a] = [maps[a] EXCEPT !.status = s]
      /\ \A c \in RoadmapId \ {a, b} : maps'[c] = maps[c]
      /\ reqs'[r] = x /\ \A q \in Request \ {r} : reqs'[q] = reqs[q]
  BY <1>1, <1>2 DEF IInv, Typed
<1>5. /\ maps'[b].status = "in_progress" /\ maps'[b].previous = a
      /\ maps'[a].status = s /\ maps'[a].progress = maps[a].progress
      /\ maps'[a].previous = maps[a].previous
  BY <1>1, <1>4 DEF NewRow, NoRow, Row
<1>6. Maps' = Maps \cup {b}
  <2>1. maps'[a].status # "none" /\ maps[a].status # "none" /\ maps'[b].status # "none"
    <3>1. maps[a].status # "none"
      BY <1>1 DEF Maps
    <3> QED
      BY <1>1, <1>5, <3>1
  <2>2. \A c \in RoadmapId : maps'[c].status # "none" <=> maps[c].status # "none" \/ c = b
    <3> HIDE DEF a
    <3> QED
      BY <1>4, <2>1
  <2>3. Maps' = {c \in RoadmapId : maps'[c].status # "none"}
    BY DEF Maps
  <2> QED
    BY <2>2, <2>3, Zenon DEF Maps
<1>7. NewRow(a) \in Row /\ MapOK(b)'
  BY <1>1, <1>2, <1>4, <1>6, NewMapOK
<1>8. Typed'
  <2>1. [maps[a] EXCEPT !.status = s] \in Row
    BY <1>1 DEF Row
  <2>2. maps' \in [RoadmapId -> Row]
    BY <1>1, <1>2, <1>4, <1>7, <2>1
  <2> QED
    BY <1>2, <1>3, <2>2 DEF IInv, Typed
<1>9. ASSUME NEW c \in RoadmapId, c = a PROVE MapOK(c)'
  <2>1. MapOK(c) /\ c \in Maps'
    BY <1>1, <1>6, <1>9 DEF IInv
  <2>2. WeightOf(tasks[c])' = WeightOf(tasks[c])
    BY <1>2 DEF WeightOf, MapThenSumSet, MapThenFoldSet
  <2>3. /\ maps'[c].progress = maps[c].progress /\ maps'[c].previous = maps[c].previous
        /\ maps'[c].status = "completed" => maps[c].status = "completed"
    BY <1>1, <1>5, <1>9
  <2> HIDE DEF a
  <2> QED
    BY <1>1, <1>2, <1>6, <1>9, <2>1, <2>2, <2>3 DEF MapOK, AllEarned, Earned
<1>10. ASSUME NEW c \in RoadmapId PROVE MapOK(c)'
  <2>1. CASE c = a
    BY <1>9, <2>1
  <2>2. CASE c = b
    BY <1>7, <2>2
  <2>3. CASE c \notin {a, b}
    BY <1>2, <1>4, <1>6, <2>3, SameMapOK
  <2> QED
    BY <2>1, <2>2, <2>3
<1>11. SupersededIsClosed'
  <2> SUFFICES ASSUME NEW c \in Maps', NEW d \in Maps', maps'[d].previous = c
               PROVE  maps'[c].status # "in_progress"
    BY DEF SupersededIsClosed
  <2>1. CASE d = b
    BY <1>1, <1>5, <2>1
  <2>2. CASE d # b
    <3>1. d \in Maps /\ maps'[d].previous = maps[d].previous
      BY <1>4, <1>5, <1>6, <2>2 DEF Maps
    <3>2. c \in Maps /\ c # b
      BY <1>1, <3>1, RoadmapAssumption DEF IInv, MapOK, Maps, NoRoadmap
    <3>3. maps[c].status # "in_progress"
      BY <3>1, <3>2 DEF IInv, SupersededIsClosed
    <3> QED
      BY <1>1, <1>4, <1>5, <3>2, <3>3 DEF Maps
  <2> QED
    BY <2>1, <2>2
<1>12. ReqOK(r)' /\ CalmOK(r)'
  BY <1>3, <1>4 DEF ReqOK, CalmOK, At, Active
<1>13. Grows
  BY <1>1, <1>2, <1>4, <1>5, <1>6 DEF Grows, Maps
<1>14. LeavesCalm(r)
  <2> SUFFICES ASSUME NEW q \in (calm \ Others(r)) \ {r}, At(q, "save")
               PROVE  maps'[reqs[q].id] = maps[reqs[q].id]
    BY <1>2 DEF LeavesCalm
  <2>1. reqs[q].id \in Maps \ {a}
    BY UncrossedElsewhere
  <2> QED
    BY <1>1, <1>4, <2>1 DEF Maps
<1>15. Kept(r)
  BY <1>4, <1>8, <1>10, <1>11, <1>12, <1>13, <1>14 DEF Kept
<1> QED
  BY <1>15, KeptIsEnough

\* A unit is saved, if the snapshot makes it change.
LEMMA SaveUnitKeeps ==
  ASSUME IInv, NEW r \in Request, SaveUnit(r)
  PROVE  IInv'
<1> DEFINE a == reqs[r].id
           n == reqs[r].step
           u == Units[n]
           new == RolledUp(reqs[r].done, reqs[r].units, u)
           us == [reqs[r].units EXCEPT ![u] = new]
           x == [reqs[r] EXCEPT !.step = n + 1, !.units[u] = new]
<1>1. /\ At(r, "save") /\ a \in Maps /\ a \in RoadmapId /\ reqs[r] \in ReqRow
      /\ tasks[a] \in SUBSET Task /\ reqs[r].done \in SUBSET tasks[a]
      /\ AllEarned(tasks[a], reqs[r].units) /\ AllEarned(tasks[a], units[a])
      /\ reqs[r].units \in [Unit -> UnitStatuses]
  BY DEF SaveUnit, IInv, ReqOK, MapOK, At, Active, Maps, Typed, ReqRow
<1>2. n \in 1..Len(Units) /\ n + 1 \in 1..(Len(Units) + 1) /\ (n + 1) - 1 = n /\ u \in Unit
  BY <1>1, UnitsNumbered DEF SaveUnit, ReqRow
<1>3. /\ \/ new = reqs[r].units[u] /\ UNCHANGED <<units, calm>>
         \/ new # reqs[r].units[u] /\ units' = [units EXCEPT ![a][u] = new]
                                   /\ calm' = calm \ Others(r)
      /\ reqs' = [reqs EXCEPT ![r] = x]
      /\ UNCHANGED <<maps, tasks, faults>>
  <2>1. reqs' = [reqs EXCEPT ![r] = x]
    BY DEF SaveUnit
  <2>2. /\ IF new = reqs[r].units[u] THEN UNCHANGED <<units, calm>>
           ELSE units' = [units EXCEPT ![a][u] = new] /\ Crossed(r)
        /\ UNCHANGED <<maps, tasks, faults>>
    BY Zenon DEF SaveUnit
  <2> HIDE DEF new
  <2> QED
    BY <2>1, <2>2 DEF Crossed
<1>4. new \in UnitStatuses /\ AllEarned(tasks[a], us)
  BY <1>1, <1>2, RolledUpEarned
<1>5. new = "completed" => Earned(tasks[a], u)
  BY <1>1, <1>2, <1>4 DEF AllEarned
<1>6. us \in [Unit -> UnitStatuses]
  BY <1>1, <1>2, <1>4
<1>7. /\ x \in ReqRow /\ x.pc = "save" /\ x.id = a /\ x.step = n + 1 /\ x.units = us
      /\ x.done = reqs[r].done /\ x.status = reqs[r].status
  BY <1>1, <1>2, <1>6 DEF ReqRow, Active, At
<1> HIDE DEF x, new
<1>8. reqs'[r] = x /\ \A q \in Request \ {r} : reqs'[q] = reqs[q]
  BY <1>3 DEF IInv, Typed
<1>9. /\ units'[a] \in [Unit -> UnitStatuses]
      /\ units'[a] = units[a] \/ units'[a] = [units[a] EXCEPT ![u] = new]
      /\ \A b \in RoadmapId \ {a} : units'[b] = units[b]
      /\ Maps' = Maps
  <2>1. units \in [RoadmapId -> [Unit -> UnitStatuses]] /\ Maps' = Maps
    BY <1>3 DEF IInv, Typed, Maps
  <2>2. CASE UNCHANGED units
    BY <1>1, <2>1, <2>2
  <2>3. CASE units' = [units EXCEPT ![a][u] = new]
    <3> HIDE DEF a, u
    <3>1. units'[a] = [units[a] EXCEPT ![u] = new]
      BY <1>1, <2>1, <2>3
    <3>2. [units[a] EXCEPT ![u] = new] \in [Unit -> UnitStatuses]
      BY <1>1, <1>2, <1>4, <2>1
    <3> QED
      BY <1>1, <2>1, <2>3, <3>1, <3>2
  <2> QED
    BY <1>3, <2>2, <2>3
<1>10. Typed'
  <2>1. units' \in [RoadmapId -> [Unit -> UnitStatuses]]
    BY <1>1, <1>3, <1>9 DEF IInv, Typed
  <2>2. calm' \subseteq Request
    BY <1>3 DEF IInv, Typed
  <2> QED
    BY <1>3, <1>7, <2>1, <2>2 DEF IInv, Typed
<1>11. AllEarned(tasks[a], units'[a])
  BY <1>1, <1>2, <1>5, <1>9 DEF AllEarned, IInv, Typed
<1>12. ASSUME NEW c \in RoadmapId PROVE MapOK(c)'
  <2>1. CASE c = a
    <3>1. MapOK(c)
      BY DEF IInv
    <3>2. WeightOf(tasks[c])' = WeightOf(tasks[c])
      BY <1>3 DEF WeightOf, MapThenSumSet, MapThenFoldSet
    <3>3. AllEarned(tasks[c], units[c])'
      BY <1>3, <1>11, <2>1 DEF AllEarned, Earned
    <3> HIDE DEF a
    <3> QED
      BY <1>1, <1>3, <1>9, <2>1, <3>1, <3>2, <3>3 DEF MapOK
  <2>2. CASE c # a
    BY <1>3, <1>9, <2>2, SameMapOK
  <2> QED
    BY <2>1, <2>2
<1>13. SupersededIsClosed'
  BY <1>3, <1>9 DEF IInv, SupersededIsClosed
<1>14. ReqOK(r)'
  BY <1>1, <1>3, <1>4, <1>7, <1>8, <1>9, SMTT(20) DEF ReqOK, At, Active, IInv, AllEarned, Earned
<1>15. CalmOK(r)'
  <2> SUFFICES ASSUME r \in calm' PROVE CalmOK(r)'
    BY DEF CalmOK
  <2>1. /\ r \in calm /\ reqs[r].done = tasks[a] /\ reqs[r].units = units[a]
        /\ reqs[r].status = maps[a].status
        /\ \A i \in 1..(n - 1) : UnitExact(reqs[r].done, reqs[r].units, Units[i])
    BY <1>1, <1>3 DEF CalmOK, IInv, Typed
  <2>2. units'[a] = us
    BY <1>1, <1>2, <1>3, <2>1 DEF IInv, Typed
  <2>3. \A i \in 1..n : UnitExact(reqs[r].done, us, Units[i])
    BY <1>1, <1>2, <2>1, RollUpExact DEF new
  <2>4. \A i \in 1..(x.step - 1) : UnitExact(x.done, x.units, Units[i])
    BY <1>2, <1>7, <2>3
  <2>5. ASSUME NEW i \in 1..(reqs'[r].step - 1)
        PROVE  UnitExact(reqs[r].done, reqs[r].units, Units[i])'
    <3>1. UnitExact(reqs'[r].done, reqs'[r].units, Units[i])
      BY <1>8, <2>4
    <3> QED
      BY <3>1 DEF UnitExact, StatusIn
  <2> QED
    BY <1>3, <1>7, <1>8, <2>1, <2>2, <2>5 DEF CalmOK
<1>16. Grows
  BY <1>3, <1>9 DEF Grows
<1>17. LeavesCalm(r)
  <2> SUFFICES ASSUME NEW q \in calm' \ {r}, At(q, "save")
               PROVE  units'[reqs[q].id] = units[reqs[q].id]
    BY <1>3 DEF LeavesCalm
  <2>1. CASE calm' = calm \ Others(r)
    <3>1. reqs[q].id \in Maps \ {a}
      BY <2>1, UncrossedElsewhere
    <3> QED
      BY <1>9, <3>1 DEF Maps
  <2>2. CASE UNCHANGED units
    BY <2>2
  <2> QED
    BY <1>3, <2>1, <2>2
<1>18. Kept(r)
  BY <1>8, <1>10, <1>12, <1>13, <1>14, <1>15, <1>16, <1>17 DEF Kept
<1> QED
  BY <1>18, KeptIsEnough

\* The progress and the status of the roadmap are saved.
LEMMA SaveRoadmapKeeps ==
  ASSUME IInv, NEW r \in Request, SaveRoadmap(r)
  PROVE  IInv'
<1> DEFINE a == reqs[r].id
           p == Progress(r)
           s == Reached(r, maps[a].status)
           x == [reqs[r] EXCEPT !.pc = "done"]
<1>1. /\ At(r, "save") /\ a \in Maps /\ a \in RoadmapId /\ maps[a] \in Row
      /\ maps \in [RoadmapId -> Row] /\ tasks[a] \in SUBSET Task
      /\ reqs[r].done \in SUBSET tasks[a]
  BY DEF SaveRoadmap, IInv, ReqOK, At, Active, Maps, Typed
<1>2. /\ maps' = [maps EXCEPT ![a] = [maps[a] EXCEPT !.progress = p, !.status = s]]
      /\ reqs' = [reqs EXCEPT ![r] = x]
      /\ calm' = calm \ Others(r)
      /\ UNCHANGED <<tasks, units, faults>>
  BY DEF SaveRoadmap, Crossed
<1>3. p \in Nat /\ WeightOf(tasks[a]) \in Nat /\ p <= WeightOf(tasks[a])
  BY <1>1, WeightGrows DEF Progress
<1>4. s = maps[a].status \/ (s = "completed" /\ tasks[a] = Task)
  <2>1. reqs[r].done = Task => tasks[a] = Task
    BY <1>1
  <2>2. \A now : \/ Reached(r, now) = now
                 \/ /\ Reached(r, now) = "completed"
                    /\ reqs[r].done = Task
    BY DEF Reached
  <2> QED
    BY <2>1, <2>2, Zenon
<1>5. x \in ReqRow /\ x.pc = "done"
  BY DEF IInv, Typed, ReqRow
<1> HIDE DEF x, s, p
<1>6. /\ maps'[a] = [maps[a] EXCEPT !.progress = p, !.status = s]
      /\ \A c \in RoadmapId \ {a} : maps'[c] = maps[c]
      /\ reqs'[r] = x /\ \A q \in Request \ {r} : reqs'[q] = reqs[q]
  BY <1>1, <1>2 DEF IInv, Typed
<1>7. /\ maps'[a].progress = p /\ maps'[a].status = s
      /\ maps'[a].previous = maps[a].previous /\ maps'[a] \in Row
  BY <1>1, <1>3, <1>4, <1>6 DEF Row
<1>8. Maps' = Maps /\ \A c \in RoadmapId : maps'[c].previous = maps[c].previous
  <2>1. s # "none" /\ maps[a].status # "none"
    BY <1>1, <1>4 DEF Maps
  <2>2. \A c \in RoadmapId : maps'[c].status # "none" <=> maps[c].status # "none"
    BY <1>6, <1>7, <2>1
  <2>3. Maps' = Maps
    BY <2>2 DEF Maps
  <2> QED
    BY <1>6, <1>7, <2>3
<1>9. Typed'
  BY <1>1, <1>2, <1>5, <1>6, <1>7 DEF IInv, Typed
<1>10. ASSUME NEW c \in RoadmapId PROVE MapOK(c)'
  <2>1. CASE c = a
    <3>1. MapOK(c)
      BY DEF IInv
    <3>2. WeightOf(tasks[c])' = WeightOf(tasks[c])
      BY <1>2 DEF WeightOf, MapThenSumSet, MapThenFoldSet
    <3> HIDE DEF a
    <3> QED
      BY <1>1, <1>2, <1>3, <1>4, <1>7, <1>8, <2>1, <3>1, <3>2 DEF MapOK, AllEarned, Earned
  <2>2. CASE c # a
    BY <1>2, <1>6, <1>8, <2>2, SameMapOK
  <2> QED
    BY <2>1, <2>2
<1>11. SupersededIsClosed'
  <2>1. \A c \in Maps : maps[c].status # "in_progress" => maps'[c].status # "in_progress"
    BY <1>4, <1>6, <1>7 DEF Maps
  <2>2. Maps \subseteq RoadmapId
    BY DEF Maps
  <2> QED
    BY <1>8, <2>1, <2>2 DEF IInv, SupersededIsClosed
<1>12. ReqOK(r)' /\ CalmOK(r)'
  BY <1>5, <1>6 DEF ReqOK, CalmOK, At, Active
<1>13. Grows
  BY <1>1, <1>2, <1>4, <1>6, <1>7, <1>8 DEF Grows, Maps
<1>14. LeavesCalm(r)
  <2> SUFFICES ASSUME NEW q \in (calm \ Others(r)) \ {r}, At(q, "save")
               PROVE  maps'[reqs[q].id] = maps[reqs[q].id]
    BY <1>2 DEF LeavesCalm
  <2>1. reqs[q].id \in Maps \ {a}
    BY UncrossedElsewhere
  <2> QED
    BY <1>6, <2>1 DEF Maps
<1>15. Kept(r)
  BY <1>6, <1>9, <1>10, <1>11, <1>12, <1>13, <1>14 DEF Kept
<1> QED
  BY <1>15, KeptIsEnough

\* A step that changes nothing.
LEMMA StutterKeeps ==
  ASSUME IInv, UNCHANGED vars
  PROVE  IInv'
<1>1. Typed'
  BY DEF IInv, Typed, vars
<1>2. \A a \in RoadmapId : MapOK(a)'
  <2> SUFFICES ASSUME NEW a \in RoadmapId PROVE MapOK(a)'
    OBVIOUS
  <2>1. Maps' = Maps
    BY DEF Maps, vars
  <2> QED
    BY <2>1, SameMapOK DEF vars
<1>3. SupersededIsClosed'
  BY DEF IInv, SupersededIsClosed, Maps, vars
<1>4. ASSUME NEW r \in Request PROVE ReqOK(r)' /\ CalmOK(r)'
  <2>1. ReqOK(r) /\ CalmOK(r)
    BY DEF IInv
  <2>2. maps' = maps /\ tasks' = tasks /\ units' = units /\ reqs' = reqs /\ calm' = calm
    BY DEF vars
  <2>3. ReqOK(r)'
    BY <2>1, <2>2 DEF ReqOK, At, Maps, AllEarned, Earned
  <2>4. \A i : UnitExact(reqs[r].done, reqs[r].units, Units[i])
                 => UnitExact(reqs[r].done, reqs[r].units, Units[i])'
    BY <2>2 DEF UnitExact, StatusIn
  <2>5. CalmOK(r)'
    BY <2>1, <2>2, <2>4 DEF CalmOK, At
  <2> QED
    BY <2>3, <2>5
<1> QED
  BY <1>1, <1>2, <1>3, <1>4 DEF IInv

\* Every step.
LEMMA NextKeeps == IInv /\ [Next]_vars => IInv'
<1> SUFFICES ASSUME IInv, [Next]_vars PROVE IInv'
  OBVIOUS
<1>1. ASSUME NEW r \in Request, NEW a \in RoadmapId, Generate(r, a) PROVE IInv'
  BY <1>1, GenerateKeeps
<1>2. ASSUME NEW r \in Request, NEW a \in RoadmapId,
             (\E t \in Task : LoadTask(r, a, t)) \/ LoadForRefresh(r, a) \/ LoadForAward(r, a)
      PROVE  IInv'
  BY <1>2, LoadKeeps
<1>3. ASSUME NEW r \in Request, NEW a \in RoadmapId, Refresh(r, a) PROVE IInv'
  BY <1>3, RefreshKeeps
<1>4. ASSUME NEW r \in Request, SaveTask(r) PROVE IInv'
  BY <1>4, SaveTaskKeeps
<1>5. ASSUME NEW r \in Request, Award(r) PROVE IInv'
  BY <1>5, AwardKeeps
<1>6. ASSUME NEW r \in Request, ReadTree(r) PROVE IInv'
  BY <1>6, ReadTreeKeeps
<1>7. ASSUME NEW r \in Request, SaveUnit(r) PROVE IInv'
  BY <1>7, SaveUnitKeeps
<1>8. ASSUME NEW r \in Request, SaveRoadmap(r) PROVE IInv'
  BY <1>8, SaveRoadmapKeeps
<1>9. ASSUME NEW r \in Request, Abort(r) PROVE IInv'
  BY <1>9, AbortKeeps
<1>10. CASE UNCHANGED vars
  BY <1>10, StutterKeeps
<1> QED
  BY <1>1, <1>2, <1>3, <1>4, <1>5, <1>6, <1>7, <1>8, <1>9, <1>10 DEF Next

\* The invariant holds in every reachable state.
LEMMA InvariantHolds == Spec => []IInv
<1>1. Init => IInv
  BY InitIInv
<1>2. IInv /\ [Next]_vars => IInv'
  BY NextKeeps
<1> QED
  BY <1>1, <1>2, PTL DEF Spec

-----------------------------------------------------------------------------
(* What it is for *)

\* The types of rows and requests.
THEOREM TypesAreKept == Spec => []TypeOK
<1>1. IInv => TypeOK
  BY DEF IInv, Typed, TypeOK, ReqRow
<1> QED
  BY <1>1, InvariantHolds, PTL

\* Overlapping completions, stale snapshots, refreshes and failures never make a
\* milestone, a phase or a roadmap read "completed" before its tasks are, nor store
\* a progress above the weight of the completed tasks (completeTask).
THEOREM CreditIsEarned == Spec => []NothingUnearned
<1>1. IInv => NothingUnearned
  <2> SUFFICES ASSUME IInv PROVE NothingUnearned
    OBVIOUS
  <2>1. ASSUME NEW a \in Maps
        PROVE  /\ AllEarned(tasks[a], units[a])
               /\ maps[a].status = "completed" => tasks[a] = Task
               /\ maps[a].progress <= WeightOf(tasks[a])
    BY DEF IInv, MapOK, Maps
  <2>2. CompletedIsEarned
    BY <2>1 DEF CompletedIsEarned, AllEarned, Earned
  <2>3. ProgressIsEarned
    BY <2>1 DEF ProgressIsEarned
  <2> QED
    BY <2>2, <2>3 DEF NothingUnearned
<1> QED
  BY <1>1, InvariantHolds, PTL

\* A version that a refresh superseded is never in progress again, whatever
\* recalculation of it was under way (refreshRoadmap).
THEOREM SupersededStaysClosed == Spec => []SupersededIsClosed
<1>1. IInv => SupersededIsClosed
  BY DEF IInv
<1> QED
  BY <1>1, InvariantHolds, PTL

\* Only the save of the roadmap ends a recalculation well.
LEMMA OnlySaveRoadmapEnds ==
  ASSUME Typed, Next, NEW r \in Request, At(r, "save"), reqs'[r].pc = "done"
  PROVE  SaveRoadmap(r)
<1>1. reqs[r].pc = "save" /\ reqs'[r].pc = "done" /\ reqs \in [Request -> ReqRow]
  BY DEF At, Typed
<1>2. ASSUME NEW q \in Request, NEW a \in RoadmapId, Generate(q, a) \/ Refresh(q, a)
      PROVE  FALSE
  BY <1>1, <1>2 DEF Generate, Refresh, At
<1>3. ASSUME NEW q \in Request, NEW a \in RoadmapId,
             (\E t \in Task : LoadTask(q, a, t)) \/ LoadForRefresh(q, a) \/ LoadForAward(q, a)
      PROVE  FALSE
  BY <1>1, <1>3 DEF LoadTask, LoadForRefresh, LoadForAward, At
<1>4. ASSUME NEW q \in Request, SaveTask(q) \/ Award(q) \/ ReadTree(q) \/ Abort(q)
      PROVE  FALSE
  <2>1. reqs'[q].pc = "done" => reqs[q].pc # "save"
    BY <1>1, <1>4 DEF SaveTask, Award, ReadTree, Abort, At, ReqRow
  <2>2. \A p \in Request \ {q} : reqs'[p] = reqs[p]
    BY <1>1, <1>4 DEF SaveTask, Award, ReadTree, Abort
  <2> QED
    BY <1>1, <2>1, <2>2
<1>5. ASSUME NEW q \in Request, SaveUnit(q) PROVE FALSE
  <2>1. PICK x : reqs' = [reqs EXCEPT ![q] = x] /\ x.pc = reqs[q].pc
    <3> DEFINE u == Units[reqs[q].step]
               x == [reqs[q] EXCEPT !.step = reqs[q].step + 1,
                       !.units[u] = RolledUp(reqs[q].done, reqs[q].units, u)]
    <3>1. reqs' = [reqs EXCEPT ![q] = x]
      BY <1>5 DEF SaveUnit
    <3>2. x.pc = reqs[q].pc
      BY <1>1 DEF ReqRow
    <3> HIDE DEF x
    <3> QED
      BY <3>1, <3>2
  <2> QED
    BY <1>1, <2>1
<1>6. ASSUME NEW q \in Request, SaveRoadmap(q) PROVE q = r
  BY <1>1, <1>6 DEF SaveRoadmap
<1> QED
  BY <1>2, <1>3, <1>4, <1>5, <1>6 DEF Next

\* A recalculation that no other write crosses leaves the roadmap exact, whatever
\* earlier races and failures left behind (recalculateRoadmapProgress).
THEOREM CalmRecalculationIsExact == Spec => CalmRecalculationHeals
<1> DEFINE Heals ==
      \A r \in calm : (At(r, "save") /\ reqs'[r].pc = "done") => Exact(reqs[r].id)'
<1>1. ASSUME IInv, Next PROVE Heals
  <2> SUFFICES ASSUME NEW r \in calm, At(r, "save"), reqs'[r].pc = "done"
               PROVE  Exact(reqs[r].id)'
    OBVIOUS
  <2> DEFINE a == reqs[r].id
  <2>1. r \in Request /\ SaveRoadmap(r) /\ ReqOK(r) /\ CalmOK(r)
    BY <1>1, OnlySaveRoadmapEnds DEF IInv, Typed
  <2>2. a \in Maps /\ a \in RoadmapId /\ maps \in [RoadmapId -> Row] /\ reqs[r] \in ReqRow
    BY <1>1, <2>1 DEF IInv, ReqOK, At, Active, Maps, Typed
  <2>3. /\ reqs[r].done = tasks[a] /\ reqs[r].units = units[a]
        /\ reqs[r].status = maps[a].status
        /\ \A i \in 1..Len(Units) : UnitExact(tasks[a], units[a], Units[i])
    BY <2>1, UnitsNumbered DEF CalmOK, SaveRoadmap
  <2>4. /\ maps'[a].progress = WeightOf(tasks[a])
        /\ maps'[a].status = Reached(r, maps[a].status)
        /\ UNCHANGED <<tasks, units>> /\ reqs'[r].id = a
    BY <2>1, <2>2, <2>3 DEF SaveRoadmap, Progress, Row, IInv, Typed, ReqRow
  <2>5. maps'[a].status = "completed" <=> tasks[a] = Task
    BY <1>1, <2>2, <2>3, <2>4 DEF Reached, IInv, MapOK
  <2>6. \A u \in Unit : UnitExact(tasks[a], units[a], u)
    BY <2>3, UnitsNumbered
  <2> HIDE DEF a
  <2>7. ASSUME NEW c, c = a PROVE Exact(c)'
    <3>1. WeightOf(tasks[c])' = WeightOf(tasks[c])
      BY <2>4 DEF WeightOf, MapThenSumSet, MapThenFoldSet
    <3>2. \A u \in Unit : UnitExact(tasks[c], units[c], u)'
      BY <2>4, <2>6, <2>7 DEF UnitExact, StatusIn
    <3> QED
      BY <2>4, <2>5, <2>7, <3>1, <3>2 DEF Exact, UnitExact
  <2>8. (reqs[r].id)' = a
    BY <2>4
  <2> QED
    BY <2>7, <2>8
<1>2. IInv /\ [Next]_vars => [Heals]_vars
  BY <1>1
<1> QED
  BY <1>2, InvariantHolds, PTL DEF Spec, CalmRecalculationHeals
=============================================================================
