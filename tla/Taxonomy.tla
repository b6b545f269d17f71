----------------------------- MODULE Taxonomy -----------------------------
(***************************************************************************)
(* The skill taxonomy and what hangs on it: skills and their aliases, the  *)
(* skills of candidates, the skills a job post asks for, and the match     *)
(* score stored for a candidate and that post                              *)
(* (src/Backend/src/services/skill.service.js, verifyExtraction of         *)
(* cv.service.js, updateJobPost of job.service.js, calculateMatch of       *)
(* matchEngine.service.js).                                                *)
(*                                                                         *)
(* Foreign keys cascade: a skill takes its aliases, the candidates' rows   *)
(* and the posts' rows with it.  Unique indexes keep one skill per name,   *)
(* one alias per name and one row per candidate and skill; an operation    *)
(* that looks for a name and then inserts it is one step here, because the *)
(* index refuses what the look missed.  A name stands for its normalized   *)
(* form; categories, levels and is_verified are left out.                  *)
(***************************************************************************)
EXTENDS Requests, FiniteSets

CONSTANTS
  Profile,     \* candidate profiles
  Name,        \* normalized names of skills and aliases
  First, Second,   \* names of the two skills there are at first
  Candidate,   \* the candidate who has the first one
  Experience,  \* experiences a candidate confirms with an extraction
  MaxSkills,   \* bound: skills created
  MaxLinks     \* bound: candidate_skills rows created

SkillIds == 1..MaxSkills
LinkIds == 1..MaxLinks
NoSkill == 0
NoName == "no name"
NoProfile == "no profile"

ASSUME TaxonomyAssumption ==
  /\ IsFiniteSet(Request)
  /\ MaxSkills \in Nat \ 0..1 /\ MaxLinks \in Nat \ 0..1
  /\ NoName \notin Name /\ NoProfile \notin Profile
  /\ {First, Second} \subseteq Name /\ First # Second /\ Candidate \in Profile

VARIABLES
  skills,    \* skills[s]: name of skill s, NoName when there is no such row
  aliases,   \* aliases[n]: skill that alias n stands for, or NoSkill
  links,     \* links[l]: candidate and skill of candidate_skills row l
  needs,     \* skills the job post asks for
  matches,   \* matches[p]: job_matches row of candidate p and the post
  cv,        \* cv[p]: rows copied of each experience of p, and verified_at of the extraction
  made,      \* rows created so far: skills and links
  work,      \* work[r]: what request r does and what it has read
  told,      \* history: names a candidate was told to have, and nobody took away
  moved,     \* history: requests that an edit of the taxonomy crossed
  touched,   \* history, touched[r]: candidates who changed since r read them
  outdated   \* history: candidates whose stored match something has overtaken

tables == <<skills, aliases, links, needs, matches, cv, made>>
taxonomyVars == <<tables, work, told, moved, touched, outdated>>

NoLink == [profile |-> NoProfile, skill |-> NoSkill]
NoMatch == [known |-> FALSE, matched |-> {}, missing |-> {}]

Idle == [op |-> "none", at |-> "idle", profile |-> NoProfile, names |-> {}, left |-> {},
         name |-> NoName, skill |-> NoSkill, target |-> NoSkill, seen |-> FALSE,
         rows |-> {}, twice |-> {}, picked |-> {}, called |-> {}, copied |-> {},
         verdict |-> NoMatch, loaded |-> NoMatch]

Skills == {s \in SkillIds : skills[s] # NoName}
Links == {l \in LinkIds : links[l].skill # NoSkill}
SkillsOf(p) == {links[l].skill : l \in {k \in Links : links[k].profile = p}}

\* findOrCreateByName: an alias wins over a skill of that name.
Resolved(n) == IF aliases[n] # NoSkill THEN {aliases[n]} ELSE {s \in Skills : skills[s] = n}
Has(p, n) == Resolved(n) # {} /\ Resolved(n) \subseteq SkillsOf(p)

\* The skills of the post a candidate has, by id or by name, and those missing.
Verdict(held, called) ==
  LET matched == {s \in needs : s \in held \/ skills[s] \in called} IN
  [known |-> TRUE, matched |-> matched, missing |-> needs \ matched]
Called(p) == {skills[s] : s \in SkillsOf(p)}
VerdictNow(p) == Verdict(SkillsOf(p), Called(p))

WorkAt(r, at) == work[r].at = at
WorkTo(r, at) == work' = [work EXCEPT ![r].at = at]

\* What remains of a request: whose experiences it copied, and which.
Finish(r, at) ==
  work' = [work EXCEPT ![r] = [Idle EXCEPT !.op = work[r].op, !.at = at,
                                 !.profile = work[r].profile, !.copied = work[r].copied]]
Open(r) == work[r].at \notin {"idle", "ok", "refused", "failed"}

\* Two skills, maybe an alias, one candidate who has one or both skills, and a post
\* that was matched, if at all, when it asked for nothing.
TaxonomyInit ==
  \E n \in (Name \cup {NoName}) \ {Second}, both, old \in BOOLEAN :
    /\ skills = [s \in SkillIds |-> CASE s = 1 -> First [] s = 2 -> Second [] OTHER -> NoName]
    /\ aliases = [m \in Name |-> IF m = n THEN 1 ELSE NoSkill]
    /\ links = [l \in LinkIds |-> IF l = 1 \/ (l = 2 /\ both)
                                  THEN [profile |-> Candidate, skill |-> l] ELSE NoLink]
    /\ made = [skills |-> 2, links |-> IF both THEN 2 ELSE 1]
    /\ needs = {1}
    /\ matches = [q \in Profile |-> [NoMatch EXCEPT !.known = old]]
    /\ cv = [q \in Profile |-> [copies |-> [e \in Experience |-> 0], verified |-> FALSE]]
    /\ work = [r \in Request |-> Idle]
    /\ told = {<<Candidate, First>>}
    /\ moved = {} /\ outdated = IF old THEN Profile ELSE {}
    /\ touched = [r \in Request |-> {}]

-----------------------------------------------------------------------------
(* What the histories record of a step of request r *)

\* Candidates whose skills, their names, or whose stored or present match this step
\* changes.
Changed ==
  {p \in Profile : \/ SkillsOf(p)' # SkillsOf(p)
                   \/ Called(p)' # Called(p)
                   \/ VerdictNow(p)' # VerdictNow(p)
                   \/ matches[p]' # matches[p]}

\* Adding requests that lose, in this step of r, what one of their names stood
\* for or a skill of their candidate.
Crossed(r) ==
  {q \in Request \ {r} :
    /\ Open(q)
    /\ \/ \E n \in work[q].names : \/ aliases'[n] # aliases[n]
                                   \/ Resolved(n) # {} /\ Resolved(n)' # Resolved(n)
       \/ \E p \in {work[q].profile} \cap Profile : ~(SkillsOf(p) \subseteq SkillsOf(p)')}

Overtaken(r) ==
  /\ touched' = [q \in Request |-> IF q # r /\ Open(q) THEN touched[q] \cup Changed ELSE touched[q]]
  /\ moved' = moved \cup Crossed(r)

\* A deliberate removal or renaming takes away what it takes away.
Excused == told' = {x \in told : Has(x[1], x[2])'}

\* The step changes no table.
Reads == UNCHANGED <<tables, told, moved, touched, outdated, faults>>

Stale == outdated' = outdated \cup {p \in Profile : VerdictNow(p)' # VerdictNow(p)}

-----------------------------------------------------------------------------
(* Skills of a candidate *)

\* addCandidateSkill, and verifyExtraction for all skills the candidate confirmed.
Add(r, op, p, names) ==
  /\ WorkAt(r, "idle")
  /\ work' = [work EXCEPT ![r].op = op, ![r].at = "resolve", ![r].profile = p,
                          ![r].names = names, ![r].left = names]
  /\ Reads

AddCandidateSkill(r, p, n) == Add(r, "add", p, {n})
VerifyExtraction(r, p, names) == Add(r, "verify", p, names)

\* The next name is looked up as an alias ...
ResolveAlias(r) ==
  /\ WorkAt(r, "resolve")
  /\ \E n \in work[r].left :
       IF aliases[n] # NoSkill
       THEN work' = [work EXCEPT ![r].at = "link", ![r].name = n, ![r].skill = aliases[n]]
       ELSE work' = [work EXCEPT ![r].at = "name", ![r].name = n]
  /\ Reads

\* ... and as a skill ...
ResolveName(r) ==
  /\ WorkAt(r, "name")
  /\ LET found == {s \in Skills : skills[s] = work[r].name} IN
     IF found = {}
     THEN WorkTo(r, "create")
     ELSE \E s \in found : work' = [work EXCEPT ![r].at = "link", ![r].skill = s]
  /\ Reads

NewSkill(n) ==
  /\ made.skills < MaxSkills
  /\ made' = [made EXCEPT !.skills = @ + 1]
  /\ skills' = [skills EXCEPT ![made.skills + 1] = n]

\* ... which is created if there is none; the unique index refuses a second one.
CreateMissing(r) ==
  /\ WorkAt(r, "create")
  /\ IF \E s \in Skills : skills[s] = work[r].name
     THEN Finish(r, "failed") /\ UNCHANGED <<tables, told, moved, touched, outdated>>
     ELSE /\ NewSkill(work[r].name)
          /\ work' = [work EXCEPT ![r].at = "link", ![r].skill = made.skills + 1]
          /\ UNCHANGED <<aliases, links, needs, matches, cv, told>>
          /\ Overtaken(r) /\ Stale
  /\ UNCHANGED faults

RowsFor(p, s) == {l \in Links : links[l] = [profile |-> p, skill |-> s]}

\* The row of candidate and skill is found or created; a skill that is gone
\* fails the foreign key.
LinkSkill(r) ==
  LET p == work[r].profile IN
  LET s == work[r].skill IN
  LET found == RowsFor(p, s) IN
  LET row == IF found = {} THEN {made.links + 1} ELSE found IN
  /\ WorkAt(r, "link")
  /\ IF s \notin Skills
     THEN Finish(r, "failed") /\ UNCHANGED <<tables, told, moved, touched, outdated>>
     ELSE /\ IF found # {}
             THEN UNCHANGED <<made, links>>
             ELSE /\ made.links < MaxLinks
                  /\ made' = [made EXCEPT !.links = @ + 1]
                  /\ links' = [links EXCEPT ![made.links + 1] = [profile |-> p, skill |-> s]]
          /\ work' = [work EXCEPT ![r].at = "linked", ![r].left = @ \ {work[r].name},
                                  ![r].skill = NoSkill, ![r].name = NoName, ![r].rows = row]
          /\ UNCHANGED <<skills, aliases, needs, matches, cv, told>>
          /\ Overtaken(r) /\ Stale
  /\ UNCHANGED faults

\* The request has added what it was asked for and says so.
Told(r) ==
  told' = IF r \in moved THEN told ELSE told \cup ({work[r].profile} \X work[r].names)

\* The row is read again; verifyExtraction marks it, fails if it is gone, and
\* takes the next name.
SaveLink(r) ==
  LET gone == work[r].rows \cap Links = {} IN
  /\ WorkAt(r, "linked")
  /\ \/ work[r].op = "add" /\ Finish(r, "ok") /\ Told(r)
     \/ work[r].op = "verify" /\ gone /\ Finish(r, "failed") /\ UNCHANGED told
     \/ /\ work[r].op = "verify" /\ ~gone
        /\ work' = [work EXCEPT ![r].at = IF work[r].left = {} THEN "experiences" ELSE "resolve",
                                ![r].rows = {}]
        /\ UNCHANGED told
  /\ UNCHANGED <<tables, moved, touched, outdated, faults>>

\* verifyExtraction copies the experiences one by one, whatever an earlier call of it
\* copied, ...
CopyExperience(r) ==
  /\ WorkAt(r, "experiences")
  /\ \E e \in Experience \ work[r].copied :
       /\ cv' = [cv EXCEPT ![work[r].profile].copies[e] = @ + 1]
       /\ work' = [work EXCEPT ![r].copied = @ \cup {e}]
  /\ UNCHANGED <<skills, aliases, links, needs, matches, made, told, moved, touched, outdated, faults>>

\* ... marks the extraction when it is through with them, ...
MarkVerified(r) ==
  /\ WorkAt(r, "experiences") /\ work[r].copied = Experience
  /\ cv' = [cv EXCEPT ![work[r].profile].verified = TRUE]
  /\ WorkTo(r, "complete")
  /\ UNCHANGED <<skills, aliases, links, needs, matches, made, told, moved, touched, outdated, faults>>

\* ... and saves the profile.
SaveProfile(r) ==
  /\ WorkAt(r, "complete")
  /\ Finish(r, "ok") /\ Told(r)
  /\ UNCHANGED <<tables, moved, touched, outdated, faults>>

\* An operation that is one step: what it changes, the rest of the tables unchanged.
OneStep(r, op) ==
  /\ WorkAt(r, "idle")
  /\ work' = [work EXCEPT ![r] = [Idle EXCEPT !.op = op, !.at = "ok"]]
  /\ UNCHANGED faults

DeleteCandidateSkill(r, l) ==
  /\ OneStep(r, "remove")
  /\ l \in Links
  /\ links' = [links EXCEPT ![l] = NoLink]
  /\ UNCHANGED <<skills, aliases, needs, matches, cv, made>>
  /\ Excused /\ Overtaken(r) /\ Stale

-----------------------------------------------------------------------------
(* Edits of the taxonomy *)

CreateSkill(r, n) ==
  /\ OneStep(r, "createSkill")
  /\ \A s \in Skills : skills[s] # n
  /\ NewSkill(n)
  /\ UNCHANGED <<aliases, links, needs, matches, cv, told>>
  /\ Overtaken(r) /\ Stale

UpdateSkill(r, s, n) ==
  /\ OneStep(r, "updateSkill")
  /\ s \in Skills
  /\ \A t \in Skills : skills[t] # n
  /\ skills' = [skills EXCEPT ![s] = n]
  /\ UNCHANGED <<aliases, links, needs, matches, cv, made>>
  /\ Excused /\ Overtaken(r) /\ Stale

\* An alias may have the name of another skill: only aliases are looked at.
AddAlias(r, s, n) ==
  /\ OneStep(r, "addAlias")
  /\ s \in Skills /\ aliases[n] = NoSkill
  /\ aliases' = [aliases EXCEPT ![n] = s]
  /\ UNCHANGED <<skills, links, needs, matches, cv, made>>
  /\ Excused /\ Overtaken(r) /\ Stale

DeleteAlias(r, n) ==
  /\ OneStep(r, "deleteAlias")
  /\ aliases[n] # NoSkill
  /\ aliases' = [aliases EXCEPT ![n] = NoSkill]
  /\ UNCHANGED <<skills, links, needs, matches, cv, made>>
  /\ Excused /\ Overtaken(r) /\ Stale

\* Mutant: the foreign key of skill_aliases does not cascade.
Drop_AliasesStay(s, links0, aliases0) ==
  /\ skills' = [skills EXCEPT ![s] = NoName]
  /\ links' = [l \in LinkIds |-> IF links0[l].skill = s THEN NoLink ELSE links0[l]]
  /\ aliases' = aliases0
  /\ needs' = needs \ {s}

\* The row of a skill goes, and what refers to it with it.
Drop(s, links0, aliases0) ==
  /\ skills' = [skills EXCEPT ![s] = NoName]
  /\ links' = [l \in LinkIds |-> IF links0[l].skill = s THEN NoLink ELSE links0[l]]
  /\ aliases' = [n \in Name |-> IF aliases0[n] = s THEN NoSkill ELSE aliases0[n]]
  /\ needs' = needs \ {s}

\* deleteTaxonomySkill, permanently.
DeleteTaxonomySkill(r, s) ==
  /\ OneStep(r, "deleteSkill")
  /\ s \in Skills
  /\ Drop(s, links, aliases)
  /\ UNCHANGED <<matches, cv, made>>
  /\ Excused /\ Overtaken(r) /\ Stale

-----------------------------------------------------------------------------
(* Merging a skill into another *)

\* Both skills are read before the transaction.
MergeSkills(r, s, t) ==
  /\ WorkAt(r, "idle")
  /\ s # t /\ {s, t} \subseteq Skills
  /\ work' = [work EXCEPT ![r].op = "merge", ![r].at = "snapshot", ![r].skill = s,
                          ![r].target = t, ![r].name = skills[s]]
  /\ Reads

LinksTo(s) == {l \in Links : links[l].skill = s}

\* The transaction reads the rows of the source, those of candidates who have
\* the target too, and the alias with the name of the source.
MergeSnapshot(r) ==
  LET both == {l \in LinksTo(work[r].skill) : work[r].target \in SkillsOf(links[l].profile)} IN
  /\ WorkAt(r, "snapshot")
  /\ work' = [work EXCEPT ![r].at = "apply", ![r].rows = LinksTo(work[r].skill),
                          ![r].twice = both, ![r].seen = aliases[work[r].name] # NoSkill]
  /\ touched' = [touched EXCEPT ![r] = {}]
  /\ UNCHANGED <<tables, told, moved, outdated, faults>>

\* Mutant: the rows of candidates who lack the target are left to the cascade.
Repointed_None(r) == [l \in LinkIds |-> IF l \in work[r].rows THEN NoLink ELSE links[l]]

\* The rows after the loop: those still there go to the target or go away.
Repointed(r) ==
  [l \in LinkIds |->
    IF l \in work[r].twice THEN NoLink
    ELSE IF l \in work[r].rows \cap Links THEN [links[l] EXCEPT !.skill = work[r].target]
    ELSE links[l]]

\* The aliases of the source, and a new one with the name it had when it was read.
Realiased(r) ==
  LET s == work[r].skill IN
  [n \in Name |-> IF aliases[n] = s \/ (n = work[r].name /\ ~work[r].seen)
                  THEN work[r].target ELSE aliases[n]]

UniqueLinks(ls) ==
  \A l, k \in LinkIds : ls[l] = ls[k] /\ ls[l] # NoLink => l = k

\* The unique indexes and the foreign keys let the writes of the merge pass.
Mergeable(r) ==
  /\ UniqueLinks(Repointed(r))
  /\ ~work[r].seen => aliases[work[r].name] \in {NoSkill, work[r].skill}
  /\ work[r].target \notin Skills => Repointed(r) = [l \in LinkIds |->
        IF l \in work[r].twice THEN NoLink ELSE links[l]] /\ Realiased(r) = aliases

\* What a merge may take from a candidate: something that changed after the
\* transaction read it, or a name that is no longer what was read.
MergeExcuses(r, p, n) ==
  \/ p \in touched[r]
  \/ skills[work[r].skill] # work[r].name /\ n \in {work[r].name, skills[work[r].skill]}
  \/ work[r].seen /\ aliases[work[r].name] = NoSkill /\ n = work[r].name

\* The writes of the transaction and its commit, or its rollback.
MergeApply(r) ==
  /\ WorkAt(r, "apply")
  /\ IF Mergeable(r)
     THEN /\ Drop(work[r].skill, Repointed(r), Realiased(r))
          /\ UNCHANGED <<matches, cv, made>>
          /\ Finish(r, "ok")
          /\ told' = {x \in told : Has(x[1], x[2])' \/ ~MergeExcuses(r, x[1], x[2])}
          /\ Overtaken(r) /\ Stale
     ELSE Finish(r, "failed") /\ UNCHANGED <<tables, told, moved, touched, outdated>>
  /\ UNCHANGED faults

-----------------------------------------------------------------------------
(* The post and its match scores *)

\* updateJobPost deletes the skills of the post ...
UpdateJobPost(r, chosen) ==
  /\ WorkAt(r, "idle")
  /\ work' = [work EXCEPT ![r].op = "updateJob", ![r].at = "fill", ![r].picked = chosen]
  /\ needs' = {}
  /\ UNCHANGED <<skills, aliases, links, matches, cv, made, told, faults>>
  /\ Overtaken(r) /\ Stale

\* ... and inserts the new ones, without those that are gone or already there.
FillJobPost(r) ==
  /\ WorkAt(r, "fill")
  /\ needs' = needs \cup (work[r].picked \cap Skills)
  /\ Finish(r, "ok")
  /\ UNCHANGED <<skills, aliases, links, matches, cv, made, told, faults>>
  /\ Overtaken(r) /\ Stale

\* calculateMatch reads the candidate, ...
CalculateMatch(r, p, op) ==
  /\ WorkAt(r, "idle")
  /\ work' = [work EXCEPT ![r].op = op, ![r].at = "job", ![r].profile = p,
                          ![r].picked = SkillsOf(p), ![r].called = Called(p)]
  /\ touched' = [touched EXCEPT ![r] = {}]
  /\ UNCHANGED <<tables, told, moved, outdated, faults>>

\* ... the post, ...
ReadJob(r) ==
  /\ WorkAt(r, "job")
  /\ work' = [work EXCEPT ![r].at = IF work[r].op = "refresh" THEN "stored" ELSE "cached",
                          ![r].verdict = Verdict(work[r].picked, work[r].called),
                          ![r].picked = {}, ![r].called = {}]
  /\ Reads

\* ... answers with the stored match if there is one, unless it is told to refresh, ...
UseStored(r) ==
  /\ WorkAt(r, "cached")
  /\ IF matches[work[r].profile].known THEN Finish(r, "ok") ELSE WorkTo(r, "stored")
  /\ Reads

\* ... looks for the row to write ...
FindStored(r) ==
  /\ WorkAt(r, "stored")
  /\ work' = [work EXCEPT ![r].at = "store", ![r].loaded = matches[work[r].profile]]
  /\ Reads

\* Mutant: a row that exists is not written again.
Stored_Once(r) ==
  IF work[r].loaded.known THEN matches[work[r].profile] ELSE work[r].verdict

\* What the row holds after the save: columns equal to the loaded ones stay.
Stored(r) ==
  IF work[r].verdict = work[r].loaded THEN matches[work[r].profile] ELSE work[r].verdict

\* ... and writes it; the unique index refuses a second row.
StoreMatch(r) ==
  LET p == work[r].profile IN
  /\ WorkAt(r, "store")
  /\ IF ~work[r].loaded.known /\ matches[p].known
     THEN Finish(r, "failed") /\ UNCHANGED <<matches, moved, touched, outdated>>
     ELSE /\ matches' = [matches EXCEPT ![p] = Stored(r)]
          /\ Finish(r, "ok")
          /\ UNCHANGED moved
          /\ touched' = [q \in Request |-> IF q # r /\ Open(q) /\ matches'[p] # matches[p]
                                           THEN touched[q] \cup {p} ELSE touched[q]]
          /\ outdated' = IF p \in touched[r] THEN outdated \cup {p} ELSE outdated \ {p}
  /\ UNCHANGED <<skills, aliases, links, needs, cv, made, told, faults>>

-----------------------------------------------------------------------------
\* A call of a request that takes several steps fails, or the process dies; the
\* transaction of a merge is rolled back.
WorkFails(r) ==
  /\ Open(r)
  /\ Fault
  /\ Finish(r, "failed")
  /\ UNCHANGED <<tables, told, moved, touched, outdated>>

CandidateStep(r) ==
  \/ \E p \in Profile, n \in Name : AddCandidateSkill(r, p, n)
  \/ \E p \in Profile, ns \in SUBSET Name : Cardinality(ns) = 2 /\ VerifyExtraction(r, p, ns)
  \/ ResolveAlias(r) \/ ResolveName(r) \/ CreateMissing(r) \/ LinkSkill(r) \/ SaveLink(r)
  \/ CopyExperience(r) \/ MarkVerified(r) \/ SaveProfile(r)
  \/ \E l \in LinkIds : DeleteCandidateSkill(r, l)

EditStep(r) ==
  \/ \E n \in Name : CreateSkill(r, n) \/ DeleteAlias(r, n)
  \/ \E s \in SkillIds, n \in Name : UpdateSkill(r, s, n) \/ AddAlias(r, s, n)
  \/ \E s \in SkillIds : DeleteTaxonomySkill(r, s)
  \/ \E s, t \in SkillIds : MergeSkills(r, s, t)
  \/ MergeSnapshot(r) \/ MergeApply(r)

MatchStep(r) ==
  \/ \E chosen \in SUBSET Skills : UpdateJobPost(r, chosen)
  \/ FillJobPost(r)
  \/ \E p \in Profile, op \in {"match", "refresh"} : CalculateMatch(r, p, op)
  \/ ReadJob(r) \/ UseStored(r) \/ FindStored(r) \/ StoreMatch(r)

TaxonomyStep(r) == CandidateStep(r) \/ EditStep(r) \/ MatchStep(r) \/ WorkFails(r)

TaxonomyNext == \E r \in Request : TaxonomyStep(r)

TaxonomySpec == TaxonomyInit /\ faults = 0 /\ [][TaxonomyNext]_<<taxonomyVars, faults>>

-----------------------------------------------------------------------------
(* Properties *)

WorkOps == {"none", "add", "verify", "remove", "createSkill", "updateSkill", "addAlias",
            "deleteAlias", "deleteSkill", "merge", "updateJob", "match", "refresh"}
WorkSteps == {"resolve", "name", "create", "link", "linked", "experiences", "complete", "snapshot",
              "apply", "fill", "job", "cached", "stored", "store"}
MatchRow == [known : BOOLEAN, matched : SUBSET SkillIds, missing : SUBSET SkillIds]
LinkRow == [profile : Profile, skill : SkillIds]

WorkRowOK(w) ==
  /\ DOMAIN w = DOMAIN Idle
  /\ w.op \in WorkOps /\ w.at \in {"idle", "ok", "refused", "failed"} \cup WorkSteps
  /\ w.profile \in Profile \cup {NoProfile}
  /\ w.left \subseteq w.names /\ w.names \subseteq Name
  /\ w.name \in Name \cup {NoName}
  /\ {w.skill, w.target} \subseteq SkillIds \cup {NoSkill}
  /\ w.twice \subseteq w.rows /\ w.rows \subseteq LinkIds
  /\ w.picked \subseteq SkillIds /\ w.called \subseteq Name
  /\ w.copied \subseteq Experience
  /\ w.seen \in BOOLEAN /\ {w.verdict, w.loaded} \subseteq MatchRow

TaxonomyTypeOK ==
  /\ skills \in [SkillIds -> Name \cup {NoName}]
  /\ aliases \in [Name -> Skills \cup {NoSkill}]
  /\ \A l \in LinkIds : links[l] \in LinkRow \cup {NoLink}
  /\ \A l \in Links : links[l].skill \in Skills
  /\ UniqueLinks(links)
  /\ needs \subseteq Skills
  /\ \A p \in Profile : matches[p] \in MatchRow
  /\ \A p \in Profile : /\ cv[p].copies \in [Experience -> 0..Cardinality(Request)]
                        /\ cv[p].verified \in BOOLEAN
  /\ made \in [skills : 0..MaxSkills, links : 0..MaxLinks]
  /\ \A r \in Request : WorkRowOK(work[r])
  /\ told \subseteq Profile \X Name
  /\ moved \subseteq Request /\ outdated \subseteq Profile
  /\ touched \in [Request -> SUBSET Profile]

\* A candidate has each skill the service said was added, under the name given.
SkillsHeld == \A x \in told : Has(x[1], x[2])

\* Requests that copied experience e of candidate p.
Copiers(p, e) == {r \in Request : work[r].profile = p /\ e \in work[r].copied}

\* All experiences of an extraction that is marked as verified were copied, and
\* each is there once for every verification that got as far as copying it: it is
\* there twice only if the candidate confirmed it twice.
ExtractionCopied ==
  \A p \in Profile, e \in Experience :
    /\ cv[p].verified => cv[p].copies[e] > 0
    /\ cv[p].copies[e] = Cardinality(Copiers(p, e))

\* A candidate keeps what the service said was added, whatever is merged: only a
\* removal, a deletion or a renaming takes a skill away, or a merge that the
\* candidate, the skill or its alias changed under.  A verified extraction is copied
\* whole, and its experiences no more often than it was confirmed.
ToldIsHeld == SkillsHeld /\ ExtractionCopied

\* A stored match is what a calculation would find now, unless the candidate,
\* the post or the taxonomy changed after the calculation had read them.
MatchExplained ==
  \A p \in Profile : matches[p].known /\ p \notin outdated => matches[p] = VerdictNow(p)
=============================================================================
