-------------------------------- MODULE Feed --------------------------------
(***************************************************************************)
(* The recommendation feed of the AI service                               *)
(* (src/AI/src/services/recommendation_service.py), with the events of the *)
(* candidate it obeys (src/AI/src/db/repositories/behavior_repository.py), *)
(* the catalogue the Jooble import fills beside it                         *)
(* (src/AI/src/db/repositories/job_repository.py) and the Redis cache in   *)
(* front of it (src/AI/src/services/recommendation_cache.py).              *)
(*                                                                         *)
(* The service is one event loop and its handlers never wait, so an event  *)
(* and a feed request are one step each; the import is another process,    *)
(* and commits its rows one by one.  Redis may be out of reach at any      *)
(* step, and then a feed is computed.                                      *)
(*                                                                         *)
(* One candidate; views and clicks, filters of a request and the age of an *)
(* advertisement are left out: a score is a number for an advertisement,   *)
(* which a saved job has raised.                                           *)
(***************************************************************************)
EXTENDS Naturals, SequencesExt

CONSTANTS
  Ad,            \* advertisements Jooble may deliver
  FirstImport,   \* those an import has delivered before, in order
  IdOf,          \* IdOf[a]: external id of a, which the id of a new row is made from
  UrlOf,         \* UrlOf[a]: source_url of a
  PrintOf,       \* PrintOf[a]: company, title, mode, place and type of a
  SkillsIn,      \* SkillsIn[a]: how many skills the extraction finds in a
  ScoreOf,       \* ScoreOf[v][a]: match of a with version v of the candidate, 0 unless eligible
  Versions,      \* number of versions of the candidate's profile
  NotExtracted,  \* the profile of a row no extraction has succeeded for
  PageSize,      \* limit of a feed request
  MaxImports,    \* bound: advertisements imported
  MaxEvents,     \* bound: events recorded
  MaxRequests,   \* bound: feed requests
  MaxMoves       \* bound: imports, events, requests and new versions together

ASSUME FeedAssumption ==
  /\ \A f \in {IdOf, UrlOf, PrintOf, SkillsIn} : DOMAIN f = Ad
  /\ \A a \in Ad : SkillsIn[a] \in Nat
  /\ FirstImport \in Seq(Ad)
  /\ \A i, k \in DOMAIN FirstImport : IdOf[FirstImport[i]] = IdOf[FirstImport[k]] => i = k
  /\ Versions \in Nat \ {0}
  /\ \A v \in 1..Versions, a \in Ad : ScoreOf[v][a] \in Nat
  /\ NotExtracted \notin Ad
  /\ PageSize \in Nat \ {0}
  /\ {MaxImports, MaxEvents, MaxRequests, MaxMoves} \subseteq Nat

VARIABLES
  catalog,    \* rows of jobs as they are listed: id, advertisement, extracted profile
  events,     \* candidate_interactions of the candidate, oldest first
  version,    \* version of the candidate's profile
  cache,      \* the feeds in Redis, each under its key
  answer,     \* the last feed answered, and the page asked for
  imported,   \* number of imports so far
  requested   \* number of feed requests so far

feedVars == <<catalog, events, version, cache, answer, imported, requested>>

EventTypes == {"save", "unsave", "apply", "dismiss", "undismiss"}

FeedInit ==
  /\ catalog = [k \in DOMAIN FirstImport |->
                  [id |-> IdOf[FirstImport[k]], ad |-> FirstImport[k], profile |-> FirstImport[k]]]
  /\ events = <<>>
  /\ version = 1
  /\ cache = {}
  /\ answer = [page |-> 1, feed |-> [jobs |-> <<>>, total |-> 0, more |-> FALSE]]
  /\ imported = 0
  /\ requested = 0

Rows == ToSet(catalog)
Ids == {row.id : row \in Rows}

Moves == imported + Len(events) + requested + version - 1

-----------------------------------------------------------------------------
\* An import (upsert).  A row of the advertisement's external id or of its URL is
\* taken over, whichever of them the query returns first.
MatchesAd(row, a) == IdOf[row.ad] = IdOf[a] \/ UrlOf[row.ad] = UrlOf[a]

\* A failed extraction leaves the profile of the row as it was.  PostgreSQL may
\* list an updated row elsewhere.
TakeOver(a) ==
  \E k \in DOMAIN catalog, profile \in {a, NotExtracted} :
    /\ MatchesAd(catalog[k], a)
    /\ LET row == [catalog[k] EXCEPT !.ad = a,
                                     !.profile = IF profile = a THEN a ELSE @]
       IN catalog' \in {[catalog EXCEPT ![k] = row], Append(RemoveAt(catalog, k), row)}

\* The insertion of a second row of one id is refused, and ends the import.
InsertRow(a) ==
  /\ \A row \in Rows : ~MatchesAd(row, a)
  /\ IdOf[a] \notin Ids
  /\ \E profile \in {a, NotExtracted} :
       catalog' = Append(catalog, [id |-> IdOf[a], ad |-> a, profile |-> profile])

Upsert(a) ==
  /\ imported < MaxImports /\ Moves < MaxMoves
  /\ imported' = imported + 1
  /\ TakeOver(a) \/ InsertRow(a)
  /\ UNCHANGED <<events, version, cache, answer, requested>>

-----------------------------------------------------------------------------
\* What the events make of the jobs (get_candidate_behavior).
NoHistory == [saved |-> {}, applied |-> {}, dismissed |-> {}]

Set(S, job, adds, drops) ==
  CASE adds -> S \union {job} [] drops -> S \ {job} [] OTHER -> S

\* A job that has been applied to cannot be dismissed; a dismissal ends a save.
After(h, e) ==
  LET hides == e.type = "dismiss" /\ e.job \notin h.applied
  IN [saved |-> Set(h.saved, e.job, e.type = "save", e.type = "unsave" \/ hides),
      applied |-> Set(h.applied, e.job, e.type = "apply", FALSE),
      dismissed |-> Set(h.dismissed, e.job, hides, e.type \in {"apply", "save", "undismiss"})]

Behavior == FoldLeft(After, NoHistory, events)

\* Events that are answered with the row of an earlier one.
Repeated(h, job, type) ==
  CASE type = "save" -> job \in h.saved
    [] type = "apply" -> job \in h.applied
    [] type = "dismiss" -> job \in h.applied \union h.dismissed
    [] OTHER -> FALSE

RecordInteraction(job, type) ==
  /\ Len(events) < MaxEvents /\ Moves < MaxMoves
  /\ ~Repeated(Behavior, job, type)
  /\ events' = Append(events, [job |-> job, type |-> type])
  /\ UNCHANGED <<catalog, version, cache, answer, imported, requested>>

\* A new CV replaces the candidate's profile.
SaveCandidate ==
  /\ version < Versions /\ Moves < MaxMoves
  /\ version' = version + 1
  /\ UNCHANGED <<catalog, events, cache, answer, imported, requested>>

-----------------------------------------------------------------------------
\* The feed.  A job is the position of its row in the catalogue; those of the history
\* are left out.
FilterCandidateJobs(rows, h) ==
  {k \in DOMAIN rows : rows[k].id \notin h.applied \union h.dismissed}

\* The elements of S in the order of a relation.
Sorted(S, before) ==
  CHOOSE s \in SetToSeqs(S) : \A i, k \in DOMAIN s : i < k => <<s[i], s[k]>> \in before

SkillCount(row) == IF row.profile = NotExtracted THEN 0 ELSE SkillsIn[row.profile]
Alike(row, other) ==
  row.id = other.id \/ UrlOf[row.ad] = UrlOf[other.ad] \/ PrintOf[row.ad] = PrintOf[other.ad]

\* Advertisements have no posting date, so rows with more skills come first, then those
\* that come first in the catalogue.
Prioritized(rows, S) ==
  Sorted(S, {p \in S \X S :
    \/ SkillCount(rows[p[1]]) > SkillCount(rows[p[2]])
    \/ SkillCount(rows[p[1]]) = SkillCount(rows[p[2]]) /\ p[1] < p[2]})

\* A row is passed over for one that is taken.
Take(rows, taken, k) ==
  IF \E i \in taken : Alike(rows[i], rows[k]) THEN taken ELSE taken \union {k}

DeduplicateJobs(rows, S) ==
  FoldLeft(LAMBDA taken, k : Take(rows, taken, k), {}, Prioritized(rows, S))

MatchScore(row, v) == IF row.profile = NotExtracted THEN 0 ELSE ScoreOf[v][row.profile]
Score(row, h, v) == MatchScore(row, v) + (IF row.id \in h.saved THEN 1 ELSE 0)

\* A stable sort by score, then by match score.
Ranked(rows, S, h, v) ==
  LET score(k) == Score(rows[k], h, v)
      match(k) == MatchScore(rows[k], v)
      order == Sorted(S, {p \in S \X S :
        \/ score(p[1]) > score(p[2])
        \/ score(p[1]) = score(p[2]) /\ match(p[1]) > match(p[2])
        \/ score(p[1]) = score(p[2]) /\ match(p[1]) = match(p[2]) /\ p[1] < p[2]})
  IN [n \in DOMAIN order |-> [id |-> rows[order[n]].id, saved |-> rows[order[n]].id \in h.saved]]

\* Jobs the candidate fits at all.
Eligible(rows, S, v) == {k \in S : MatchScore(rows[k], v) > 0}

PageOf(items, page) ==
  [jobs |-> SubSeq(items, (page - 1) * PageSize + 1, Min({page * PageSize, Len(items)})),
   total |-> Len(items),
   more |-> page * PageSize < Len(items)]

FeedFor(rows, h, v, page) ==
  LET jobs == DeduplicateJobs(rows, FilterCandidateJobs(rows, h))
  IN PageOf(Ranked(rows, Eligible(rows, jobs, v), h, v), page)

LiveFeed(page) == FeedFor(catalog, Behavior, version, page)

\* Mutant: the dismissed jobs are not part of the key.
BuildKey_NoDismissals(page) ==
  [version |-> version, behavior |-> <<Behavior.saved, Behavior.applied>>, catalog |-> catalog, page |-> page]

\* Everything a feed is computed from.
BuildKey(page) ==
  [version |-> version, behavior |-> Behavior, catalog |-> catalog, page |-> page]

\* The entry of the key is answered if Redis has one and is in reach.  A feed that
\* is computed is stored if Redis is in reach.
GetRecommendationFeed(page) ==
  LET key == BuildKey(page)
      kept == {entry \in cache : entry.key # key}
      hits == {entry \in cache : entry.key = key}
      live == LiveFeed(page)
  IN /\ requested < MaxRequests /\ Moves < MaxMoves
     /\ requested' = requested + 1
     /\ \/ \E hit \in hits : answer' = [page |-> page, feed |-> hit.feed] /\ UNCHANGED cache
        \/ /\ answer' = [page |-> page, feed |-> live]
           /\ cache' \in {cache, kept, kept \union {[key |-> key, feed |-> live]}}
     /\ UNCHANGED <<catalog, events, version, imported>>

\* An entry lives for RECOMMENDATION_CACHE_TTL_SECONDS.
ExpireEntry ==
  /\ \E entry \in cache : cache' = cache \ {entry}
  /\ UNCHANGED <<catalog, events, version, answer, imported, requested>>

Pages == 1..(Cardinality(Ids) + 1)

FeedNext ==
  \/ \E a \in Ad : Upsert(a)
  \/ \E job \in Ids, type \in EventTypes : RecordInteraction(job, type)
  \/ SaveCandidate
  \/ \E page \in Pages : GetRecommendationFeed(page)
  \/ ExpireEntry

FeedSpec == FeedInit /\ [][FeedNext]_feedVars

-----------------------------------------------------------------------------
\* Rows, events, entries and answers keep their types, and one id has one row.
FeedTypeOK ==
  /\ \A k \in DOMAIN catalog :
       /\ catalog[k].ad \in Ad
       /\ catalog[k].profile \in Ad \union {NotExtracted}
       /\ \A i \in DOMAIN catalog : catalog[i].id = catalog[k].id => i = k
  /\ events \in Seq([job : Ids, type : EventTypes])
  /\ version \in 1..Versions
  /\ \A entry \in cache : entry.key.page \in Nat /\ entry.feed.total \in Nat
  /\ answer.feed.jobs \in Seq([id : Ids, saved : BOOLEAN])
  /\ imported \in 0..MaxImports
  /\ requested \in 0..MaxRequests

\* What the documentation says of the events, read off the events themselves.
AppliedTo(job) == [job |-> job, type |-> "apply"] \in ToSet(events)
LastOf(job, type, ends) ==
  \E k \in DOMAIN events :
    /\ events[k] = [job |-> job, type |-> type]
    /\ \A i \in k..Len(events) : events[i].job = job => events[i].type \notin ends
SavedNow(job) == LastOf(job, "save", {"unsave", "dismiss"})
DismissedNow(job) == ~AppliedTo(job) /\ LastOf(job, "dismiss", {"save", "undismiss"})

\* The rows a candidate may see, and of those that are alike the preferred one.
VisibleRows == {k \in DOMAIN catalog : ~AppliedTo(catalog[k].id) /\ ~DismissedNow(catalog[k].id)}
Preferred(i, k) ==
  \/ SkillCount(catalog[i]) > SkillCount(catalog[k])
  \/ SkillCount(catalog[i]) = SkillCount(catalog[k]) /\ i < k
OneOfEach(chosen) ==
  \A k \in VisibleRows :
    k \in chosen <=> ~\E i \in chosen : Alike(catalog[i], catalog[k]) /\ Preferred(i, k)

Points(k) == MatchScore(catalog[k], version) + (IF SavedNow(catalog[k].id) THEN 1 ELSE 0)
Outranks(i, k) ==
  \/ Points(i) > Points(k)
  \/ Points(i) = Points(k) /\ MatchScore(catalog[i], version) > MatchScore(catalog[k], version)
  \/ Points(i) = Points(k) /\ MatchScore(catalog[i], version) = MatchScore(catalog[k], version) /\ i < k

\* A page holds the rows of its ranks: no hidden job, no two that are alike, none
\* left out, each marked as saved or not.
Presents(page, feed) ==
  \E chosen \in SUBSET VisibleRows :
    /\ OneOfEach(chosen)
    /\ LET shown == {k \in chosen : MatchScore(catalog[k], version) > 0}
           rank(k) == 1 + Cardinality({i \in shown : Outranks(i, k)})
           onPage == {k \in shown : rank(k) > (page - 1) * PageSize /\ rank(k) <= page * PageSize}
       IN /\ feed.total = Cardinality(shown)
          /\ feed.more = \E k \in shown : rank(k) > page * PageSize
          /\ Len(feed.jobs) = Cardinality(onPage)
          /\ \A k \in onPage : feed.jobs[rank(k) - (page - 1) * PageSize] =
                                 [id |-> catalog[k].id, saved |-> SavedNow(catalog[k].id)]

\* The cache is an optimisation: what is answered is what would be computed now.
CacheIsTransparent == [][requested' # requested => answer'.feed = LiveFeed(answer'.page)]_feedVars

\* A feed is current when it is answered, also one that was stored before later
\* events, imports or a new profile, and whatever Redis does.
FeedIsCurrent == [][requested' # requested => Presents(answer'.page, answer'.feed)]_feedVars
=============================================================================
