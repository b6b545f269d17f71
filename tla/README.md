# TLA+ models of the SkillMatch backend

SkillMatch is a career platform: candidates upload CVs, follow generated
roadmaps and apply for jobs; administrators import job posts and review
uncertain AI output.  The models are about the part of the repository that
decides anything and keeps all state: the Node/Express backend under
`Backend/src`, which stores its rows in MySQL through Sequelize and runs
background jobs from a table.  TLC checks the models on small instances; TLAPS
checks the theorems for every value of the constants.

Paths in this file are relative to `src/` of the repository, and those without a
directory are in `Backend/src/services/`.

## 1. The system

### Processes and how they interact

* An **API process** (`Backend/server.js`, `Backend/src/app.js`) serves HTTP
  requests.  A request is one asynchronous function: it gives up the thread at
  every `await`, so two requests of one process, or of two, interleave between
  any two database calls.  Few of them open a transaction.
* The same process starts **one polling loop**, the queue worker
  (`Backend/src/jobs/worker.js`).  Several containers mean several loops on one
  `jobs` table.
* **MySQL** is the only shared state.  What serialises two actors is a row lock
  (a transaction that has written or locked the row) or a unique index, and
  nothing else.  Sequelize writes *only the columns that changed since the row
  was loaded*; several properties below depend on that.
* The **AI service** (`AI/`) is called over HTTP.  When it fails, a rule-based
  engine or a built-in sample answers in its place.  The models take the answer
  as one outcome.
* The **frontend** (`Frontend/`, most pages on sample data so far) and the cron scheduler
  (`Backend/src/jobs/scheduler.js`, one task that logs) add no state of their
  own; the two browser tabs of a user are the overlapping requests of the models.

### Components

Modelled:

| Component | State | Operations | What is hard | What makes it correct |
|---|---|---|---|---|
| Job queue and worker (`queue/queue.service.js`, `jobs/worker.js`, `server.js`) | `jobs` rows, row locks, the loop's instance in memory | dispatch, reserve, run, retry with backoff, give up, start, stop | two loops, a crash between the commit of the reservation and the last save, failing saves, shutdown with a running handler | one runner per job, bounded attempts, nothing lost without a fault, nothing waits for ever |
| CV pipeline (`cv.service.js`, `cvParsing.handler.js`) | `cv_documents`, `cv_extractions`, jobs | upload, raw upload, retry, handler, what "latest" serves | no transaction anywhere, uploads and retries racing handlers, a job that runs twice | latest is newest, completed means there is data, no document is stranded |
| Applications (`application.service.js`) | `applications`, `application_status_histories` | apply, updateStatus, withdraw, updateNotes | check-then-act across requests | one application per posting, the audit trail accounts for the row |
| Roadmaps (`roadmap.service.js`) | `roadmaps`, phases, milestones, tasks | generate, completeTask and its recalculation, refresh, addXp | a chain of saves from one stale snapshot | nothing reads completed before it is, a calm recalculation repairs |
| Ingestion (`jobIngestion.service.js`, `jobFingerprint.service.js`) | runs, raw jobs, posts, companies, skills, the source | triggerRun | two runs at once, nested catch clauses, failures between related rows, different vacancies with one fingerprint | links are right as far as the fingerprint can tell, counters account for rows, a second post and a vacancy without one have a reason |
| Review queue (`aiReview.service.js`) | items, audits, the canonical rows, the system log | approve, correct, reject | status read before the transaction, dropped errors, failures after the commit | trail, log, status and row agree |
| Accounts (`auth.service.js`, `otp.service.js`, `createUser` of `adminOperations.service.js`) | the user, one-time codes, reset tokens | register, resend, forgot, verify, reset | destroy-then-create and find-then-destroy without a transaction | codes and tokens are used up once, and what they open was earned |
| Interview practice (`interviewPrep.service.js`) | a session, its answers | start, evaluate an answer | two answers recompute one progress; changed columns only | progress adds up to the answers |
| Skill taxonomy (`skill.service.js`, `verifyExtraction` of `cv.service.js`, `updateJobPost` of `job.service.js`) | skills, aliases, skills of candidates and posts | add, verify, rename, alias, merge, delete | merges that read both sides first; cascading deletes; sequences of inserts | candidates keep what they were told they have |
| Match scores (`matchEngine.service.js`) | `job_matches` | calculate | a stored match is used until it is stale, and nothing makes it stale | a stored match is what its inputs said |
| Mentor chat (`mentorChat.service.js`) | a conversation, its messages | start, send, rename, archive, restore, delete | row locks taken late in the transaction, deadlock and rollback | whole exchanges, each answered once |
| Companies (`company.service.js`, `createJobPost`, the company of an imported vacancy) | companies, aliases, the company of a post | create, rename, merge, post, import | a merge decided on what was read before its transaction | posts and names follow a merged company |
| Recommendation feed of the AI service (`recommendation_service.py`, `recommendation_cache.py`, `behavior_repository.py`, `job_repository.py` under `AI/src`) | the candidate's events, the catalogue, feeds in Redis | record an event, upsert an advertisement, store a profile, feed | the feed is cached, its key is all that makes an entry obsolete; rows are taken over by id or URL | a feed is what the events, the catalogue and the profile say now |

Not modelled, or only where they touch what is:

| Component | State | Why |
|---|---|---|
| Candidate profile (`candidateProfile.service.js`) | one row | edits of that row, and a completion flag computed from it; a unique index refuses a second profile |
| Administration (`adminOperations.service.js`) | users, posts | `createUser` is in `Account`; the other edits change one row, the statistics are queries; `deleteUser` and the merge of posts in use always fail (section 4) |
| Job posts, saved jobs (`job.service.js`) | posts | closing a posting is an action of `Application`, the change of its skills one of `Taxonomy`; the rest are queries and single-row edits |
| CV improver, application strategy | one row per request | no rule relates two requests |
| Notifications, mail, audit log queries | single rows | single-row edits and output |
| Rule-based engines, AI client, HTTP layer, frontend | none | functions of their input, or routing; an answer or its fallback is one outcome |
| Rest of the AI service (`AI/`) | jobs of its own in memory | prompts, extraction and scoring of one request, which the backend sees as answers and failures; nothing dispatches its Celery tasks |
| Monitoring, scripts, seeders | none | deployment and demonstration data |

`PROJECT.json` lists every component with its sources, and under `hazards`, line
by line, what is hard to test in this code and which property watches it.  Two of
them no property watches, and they say why: a run whose process died stays in
progress, and a stored match is served after its inputs changed.

## 2. Plan

Order: the queue first, because everything asynchronous rests on it; then what
runs on it; then the request handlers, most state first.

| # | Module | Composition and abstraction | Theorems | State |
|---|---|---|---|---|
| 1 | `JobLifecycle` | abstract: what the queue promises about one job | - | done |
| 2 | `JobQueue` | implements `JobLifecycle` (refinement mapping) | all safety properties, refinement | done |
| 3 | `CvPipeline` | composed of `JobLifecycle` and the requests and handler | all safety properties | done |
| 4 | `Application` | rows and trail | all safety properties | done |
| 5 | `Roadmap` | tree recalculated from a snapshot | all safety and action properties | done |
| 6 | `Ingestion` | runs over one source | all safety and action properties | done |
| 7 | `AiReview` | item, trail, log and row | all safety properties | done |
| 8 | `Account` | codes and tokens under overlapping requests | types, `CodesAccounted` | done |
| 9 | `Interview` | recomputed progress | types, `PracticeAddsUp` | done |
| 10 | `Taxonomy` | skills, aliases and links; merge, rename, delete; the verified extraction; the stored match | types, `ToldIsHeld`, `MatchExplained` | done |
| 11 | `Company` | companies, aliases, posts and imports around a merge | types, `CompaniesKeepTheirs` | done |
| 12 | `Conversation` | exchanges under row locks | types, `ConversationsAreWhole` | done |
| 13 | `Feed` | the algorithm of the feed and its cache, against what the documents say of a feed | types, `CacheIsTransparent`, `FeedIsCurrent` | done |
| 14 | `Workspace` | modules 8 to 12 over one pool of requests (`Requests`), and 13 | all of the above, side by side | done |
| 15 | what is left of the taxonomy: categories, the lists of aliases edited with a skill | as in 10 | - | planned |

Runs stay few: one passing run per module or composition, and one that shows a
disagreement between the code and what its documents say.

## 3. Modules and the code

In every module an action is the code between two awaits.  A transaction is one
step where its first statement takes a lock that every competitor needs and
which it keeps to the commit; otherwise its statements are separate steps.
`reqs[r]` (or `pc`, `hand`, `runs`) is the position in the function and its local
variables.  A call that fails changes nothing, and its request goes where the
code's catch clauses send it.  Definitions named `X_Something` with a comment
"Mutant" are plausible mistakes in `X`; they are never used by the
specification, and show that the properties would notice.

**`JobLifecycle`** is the abstract queue: `Submit`, `Begin`, `Complete`, `Fail`,
`PutBack`, `Abandon`.

**`JobQueue`**: `Dispatch` is `QueueService.dispatch`.  `processNext` is
`FindAndLock` (the locking read: oldest due row, it waits when that row is
locked), `Reserve` (save and commit), `NoHandler`, `HandlerReturns`/
`HandlerThrows`, `SaveCompleted`, `SaveFailure` (retry with quadratic backoff or
failed).  `ReserveError`, `SaveCompletedError`, `SaveFailureError` are the error
paths: the first rolls back, the second lands in the catch clause that retries,
the third leaves the row in `processing`.  `Start`, `Stop`, `Exit`, `Crash` are
the process.

**`CvPipeline`** EXTENDS `JobLifecycle` instead of `JobQueue`: it may, because
`JobQueue` implements it.  `ReadVersion`, `ClearCurrent`, `CreateDocument`,
`CreateExtraction`, `DispatchParsing` are the awaits of `uploadCv` and
`uploadRawCv`; `LoadForRetry`, `ReadAttempt`, `SaveProcessing` those of `retryCv`;
`LoadDocument`, `MarkProcessing`, `SaveExtraction`, `SaveDocument` those of the
handler.

**`Application`**: `CheckPosting`, `CheckDuplicate`, `Create` are `apply`;
`LoadForUpdate`/`LoadForWithdrawal` and `SaveStatus` are `updateStatus` and
`withdraw`; `LoadForNotes`, `SaveNotes` are `updateNotes`.

**`Roadmap`**: `LoadTask`, `SaveTask`, `Award`, `ReadTree`, one `SaveUnit` per
milestone and phase, `SaveRoadmap` are `completeTask` with
`recalculateRoadmapProgress`; `Generate`, `LoadForRefresh`/`Refresh` and
`LoadForAward`/`Award` are the other operations.  `calm` is an observer: the
recalculations that no other write has crossed.

**`Ingestion`**: an item goes through `Look`, `FindCompany`/`CreateCompany`,
`CreatePost`, `FindSkill`/`CreateSkill` and `StoreUnique`, or `StoreDuplicate`, or
`StoreFailed`; a run ends with `SaveRun`, `SaveSource` or, in the outer catch
clause, `SaveFailedRun`, `SaveFailedSource`.  `Conflict` is a unique index that
refuses the second of two companies.  `met` is an observer: which runs were
under way together.  `Fingerprint` is a hash, taken to be injective, of strings that
`jobFingerprint.service.js:10` normalizes first, and the normalization is not: it drops
everything but a-z, 0-9 and blanks, so that a "C++ Developer" and a "C# Developer", or
two Arabic titles, become one, and it puts one word for the place of every remote job.
`LabelOf` is the outcome, chosen per item and independent of the vacancy (`JobOf`), and
`DateOf` the date the fingerprint takes with it.  An item whose label and day another
vacancy has used is stored as a duplicate of that vacancy's post, without an error.
`Mistakable` says of two items that this may happen to them, `TakenFor` that a raw job
records it; `RecordsAreTrue` and `CleanRunCovers` allow for this and for nothing else.

**`AiReview`**: `Load`, `Decide` (the transaction, with the update of the canonical
row that may fail silently), `LogAction`, `Reload`, `Fails`; `DeleteRow` is an
administrator who removes the row the item is about.

**`Requests`** is what modules 8 to 12 share: the pool of requests and the number
of calls that may still fail.  Each of them has its own record of a request
(`auth`, `prep`, `work`, `talk`, `file`), whose field `at` is the position.

**`Account`** is one e-mail address.  `Register`, `CreateUser`, `ResendEmailOtp`,
`ForgotPassword` begin what ends in `ClearCodes` and `IssueCode`
(`generateAndSend`); `VerifyEmailOtp` and `VerifyPasswordResetOtp` go through
`FindCode` and `DestroyCode` (`verify`), or `StaticCode`, to `SaveVerified` or
`RetireTokens`/`GrantToken`; `ResetPassword`, `FindAccount`, `SavePassword`,
`DropToken` use a token.  Codes and tokens expire at any time.  `rivals` is an
observer: the pairs of requests that held one code or token at once.

**`Interview`**: `StartSession`; `LoadSession`, `Evaluate`, `FindAnswer`,
`StoreAnswer`, `CountAnswers`, `SaveSession` are the awaits of `evaluateAnswer`.
`Written` is what Sequelize writes: the columns that differ from the loaded ones.
`crossed` and `settled` are observers.

**`Taxonomy`**: `addCandidateSkill` and `verifyExtraction` resolve each name
(`ResolveAlias`, `ResolveName`, `CreateMissing`) and link what they found
(`LinkSkill`/`SaveLink`); the latter goes on to one `CopyExperience` per experience,
`MarkVerified` and `SaveProfile`, and may fail before each.  `cv` counts the rows copied
of each experience: nothing keeps a second confirmation from copying them again, and
`ToldIsHeld` says that there is one row per confirmation that got as far and no more,
and none is missing once the extraction is verified.  `CreateSkill`, `UpdateSkill`, `AddAlias`, `DeleteAlias`,
`DeleteCandidateSkill`, `DeleteTaxonomySkill` are one step.  A merge is
`MergeSkills` (both skills are read), `MergeSnapshot` (the links and aliases to
move) and `MergeApply`.  `UpdateJobPost` and `FillJobPost` change what the post
asks for; `CalculateMatch`, `ReadJob`, `UseStored`, `FindStored`, `StoreMatch`
are `calculateMatch`.  `told` (what the service reported as added), `outdated`,
`moved` and `touched` are observers.

**`Conversation`**: `LoadForSend`, `ReadHistory`, `Ask`, `Answer`, `Save` are
`sendMessage`; `LoadForChange` and `Write` the changes of a conversation.  Messages
are rows with an id, in the order of which they are read.  The code orders them by
`created_at`, which is set before a possible wait for a lock: an insert waits only
behind a transaction that wants or has the exclusive lock and so has its messages
stored already, and with locks granted in the order they were asked for the outcome
is the same.  The
insert of a message holds a shared lock on the conversation's row; whoever wants
the exclusive one waits in `queue` (`WaitForLock`), and `BreakDeadlock` is the
database that rolls back one of two that wait for each other.

**`Company`**: `CreateCompany`, `RenameCompany`; a merge is `LoadSource`,
`LoadTarget` and `Merge`; `FindCompany` and `LookByName`, `LookByAlias`,
`FoundCompany` are how a new and an imported post find their company before
`InsertPost`.  `heir` and `bearer` are observers: where a merged company went,
and which company bore a name last.

**`Feed`** is one candidate of the AI service.  Its handlers do not wait, so
`RecordInteraction` and `GetRecommendationFeed` are one step each; `Upsert` (a row is
taken over or inserted) is the import in another process.  `Behavior` folds the
events as `get_candidate_behavior` does.  The stages of a feed work on positions in
the catalogue: `FilterCandidateJobs` drops what was applied to or dismissed,
`DeduplicateJobs` goes through the rows as `Prioritized` sorts them and takes a row
(`Take`) unless one like it is taken, `Eligible` drops what does not match, `Ranked`
sorts by score and `PageOf` cuts a page.  Advertisements of Jooble have no posting date
(`AI/src/integrations/jooble/normalizer.py:48`), so that of two rows that are alike the
one with more skills is preferred.  `BuildKey` is the key of a feed.  A request answers
an entry of its key, or computes the feed and stores it or not: Redis may be out of
reach at any step.  `Presents` says what a feed should be without any of these: from
the events, the rows and a preference among rows that are alike.

**`Workspace`** composes these six.  The first five share the requests and the
failures, and none of them shares a table, so a step of one changes nothing for another; `service` picks the one
a behaviour exercises, which adds their state spaces instead of multiplying them.

The `MC*` modules only give constants their values.

## 4. What the runs check

| Run | Instance | States | Shows |
|---|---|---|---|
| `queue` | 2 workers, 2 jobs, delays 0-1, 2 attempts, 2 faults, 1 shutdown | 74,554 | `OneRunner`, `LockProtocol`, `AttemptsBounded`, `OrphansAccounted`, `FinalIsFinal`, `InDueOrder`, `Settles`, refinement of `JobLifecycle` |
| `cv` | 2 requests, 2 workers, 2 attempts, 2 faults | 46,305 | `LatestIsNewest`, `CompletedHasData`, `NotStranded`, `Parsed` |
| `application` | 4 requests, 2 postings, all stages an administrator may set | 17,210 | `OnePerPosting`, `HistoryAccounts`, `RulesBrokenOnlyByRaces` |
| `roadmap` | 4 requests, 2 roadmaps, 3 tasks in 3 milestones and 2 phases, 1 fault | 302,952 | `NothingUnearned`, `SupersededIsClosed`, `CalmRecalculationHeals` |
| `ingestion` | 2 runs, batches of 1 and 2 of 4 items, two of them with one label, 2 days, 1 fault | 303,920 | `RecordsAreTrue`, `SecondPostExplained`, `CleanRunCovers`, `HealthFollowsRun`, `RunEnds` |
| `review` | 3 reviewers, a skill and a job post, 1 fault | 784,352 | `TrailAccounts`, `LogMatchesTrail`, `PublishedAsDecided` |
| `workspace` | 3 requests (2 on the taxonomy), 1 fault, and per service: 2 codes; 2 questions, 2 scores; 3 skill names, 3 skills, 3 links; a history of 2 messages; 3 company names, 4 companies; 5 advertisements, an import, 3 events, 2 feed requests, 4 moves in all | 475,176 | `CodesAccounted`, `PracticeAddsUp`, `ToldIsHeld`, `MatchExplained`, `ConversationsAreWhole`, `CompaniesKeepTheirs`, `FeedIsCurrent` |

Each of these runs also checks the module's `TypeOK`, or `WorkspaceTypeOK`.

**Why the bounds are enough.**  The races listed under `hazards` are between two
actors on one row: two requests or workers meet in every way there, and a third
or fourth request adds the ordinary one that comes before or after the race.  Two attempts
cover "has one left" and "has none left".  Two faults cover a fault while
recovering from another, in the queue and the pipeline, where recovery exists;
elsewhere nothing recovers, and one fault is the interesting case.  The roadmap
has a milestone of two tasks, one of one task and an empty one, so that partial,
full and vacuous completion occur.  The items of a run have a date or none, an
external id or none, a name or an alias, and two vacancies have one label.  Ids are taken in insertion order.
In `workspace`, a behaviour begins where one request has been already: with or without
an account, one with a code for a new password, a session without an answer, a
conversation without a message.  Two codes are enough for
two active ones, two questions for a session that is complete or not, and two
scores for an average that moves.  Three skills are source, target and one that
a request creates; two requests on the taxonomy are the merge and what it
crosses, and a third would only add one that is not under way with both.  A
history of two messages is full after the first exchange, so the third send has
some cut off.  Three requests are a code and a token with two that use it, three answers to two
questions, three sends or two and a deletion, two merges in a chain and a post
or an import across them; four companies are the two there are at first and two
more.  The advertisements of the
feed take a row over by id, by URL or by either, or are a second row for a vacancy;
four moves are a feed, two changes and the feed again, or three events and a feed.
About 178,000 of the states are of the taxonomy, 111,000 of interviews, 96,000 of feeds,
54,000 of accounts, 31,000 of companies and 5,700 of conversations.
Time is bounded by the due times themselves, days by `MaxDay`.  Runs with
symmetry check safety only.

**Deadlock** is checked for the queue: its loops never stop for good.  The other
instances end when their requests are used up, so their configurations say
`CHECK_DEADLOCK FALSE`.

**Fairness.**  `JobQueue!Fairness`: time passes; the loop of a live process goes
on (it re-arms its timer in every case); a stopped process exits; a process that
is down is started again (`restart: unless-stopped` in
`Backend/docker-compose.yml`).  Faults, shutdowns and new dispatches get none.
`CvPipeline`: a request that has begun and a job that is reserved go on until
they end or are struck; that a waiting job is reserved is what `Settles` shows of
the queue.  `Ingestion`: a run goes on while its process lives.  `Settles`,
`Parsed` and `RunEnds` are false without it and need nothing stronger than weak
fairness.

### Disagreements between the code and what is said of it

Five runs end in a counterexample, on purpose:

| Run | The code | What is said |
|---|---|---|
| `cv_failed` | a document whose jobs were all given up stays in `processing` | `Backend/docs/README.md:138`: states `uploaded`, `processing`, `completed`, `failed` |
| `application_withdrawn` | an update decided before a withdrawal commits after it and revives the application | `Backend/tests/integration/applications.test.js:467`: updates of a withdrawn application are rejected |
| `roadmap_xp` | the XP of a completed task is never stored: the JSON value is changed in place and Sequelize sees no change | `roadmap.service.js:288`: award the XP into the metadata |
| `ingestion_retry_lost` | the raw job of a failed item makes every later run skip it as a duplicate | Delivery Scope, line 113: retry transient failures |
| `review_publish` | an approved extraction gets the status `verified`, which the column does not have; the error is dropped | `Backend/docs/README.md:279`: approve publishes to production |

Met while modelling and not given a run of their own:

* two uploads that read the same highest version store it twice (`cv.service.js:18`);
* the worker's read has no SKIP LOCKED (`worker.js:40`, `Backend/README.md:68`): a
  second worker waits instead of taking the next row;
* the old status in the history is the one that was read, not the one that was
  replaced (`application.service.js:220`), and `updateStatus` moves an offer or a
  rejection back (`:207`, `Backend/docs/README.md:177`);
* stored progress may be lower than the completed weight after a race, until the
  next calm recalculation (`roadmap.service.js:410`); a refresh starts with no
  completed task (`:528`); completing a task of an archived version can turn it to
  `completed` (`:412`);
* a post is created again after its raw job could not be stored
  (`jobIngestion.service.js:339`); the fingerprint contains the publication date,
  or today (`:253`), and not the company that an alias resolves to (`:257`); vacancies
  whose titles differ in other signs than a-z and 0-9 only share it
  (`jobFingerprint.service.js:17`), and the second one is never posted;
* a second confirmation of an extraction copies its experiences again
  (`cv.service.js:209`);
* a merge of skills deletes the job requirements of the source by cascade
  (`skill.service.js:222`), where `Backend/docs/API_README.md:1683` says they are
  re-linked;
* nothing sets `job_matches.is_stale`, which `Backend/README.md:147` lists a sweep
  for: a match is served with the skills the candidate had when it was computed;
* no unique index keeps a question of a practice session from having two answers
  (`interviewPrep.service.js:154`);
* two overlapping sends of one conversation wait for each other and the database
  rolls one back (`mentorChat.service.js:127`); the history limit keeps the oldest
  20 messages, not the latest (`:88`); an archive between the check and the insert
  does not stop a send, where `Backend/tests/integration/mentorChat.test.js:388`
  expects archived conversations to reject messages;
* a company merge does not take along a name that is already an alias of another
  company or that was changed after it was read (`company.service.js:172`);
  renaming keeps no alias of the old name (`:110`);
* `deleteUser` names a column that `saved_jobs` does not have
  (`adminOperations.service.js:413`), so its transaction always rolls back; the
  merge of duplicate posts passes an undefined `user_id` to a query (`:690`, `:708`)
  and fails for a post with applications or saved jobs;
* an import of the AI service finds a row by id *or* URL, whichever comes first
  (`AI/src/db/repositories/job_repository.py:195`), where the class says "source
  identity before URL identity" (`:59`): two rows may come to share a URL, and an id
  whose row was taken over cannot be inserted again, which ends the import;
* jobs are filtered before duplicates are removed and matched after
  (`recommendation_service.py:239`): a second row of a dismissed job is shown, and a
  row the candidate does not fit may stand for one that fits;
* `Backend/README.md:142-149` lists handlers and cron sweeps that do not exist.

## 5. What is proved

Eight modules hold proofs, for any number of workers, jobs, postings, tasks, runs,
requests, reviewers, codes, questions, skills, companies, names and advertisements.
The only assumptions are the named ones on the constants: natural numbers where
the code has numbers, a "nobody" or "nothing" that is not one of the things it
stands beside, targets among the stages, finite sets of ids, questions, tasks and
requests, the two first companies with different names.  Two say more.
`Roadmap!TreeAssumption`: milestones hold tasks, phases hold milestones, and a phase
is recalculated after its milestones, once, as the nested loops of
`recalculateRoadmapProgress` do.  `Ingestion!ExternalIdAssumption`: an external id
names one vacancy of its source, which the duplicate check trusts
(`jobIngestion.service.js:267`); items that share an id and not the vacancy would be
linked wrongly.  Of the fingerprint only the hash is assumed to be injective: the
theorems hold for any `LabelOf`, so for any normalization.

| Theorem | Property |
|---|---|
| `JobQueueProofs!TypeCorrect` | `TypeOK` |
| `NeverTwoRunners` | `OneRunner` |
| `LocksAreKept` | `LockProtocol` |
| `AttemptsAreBounded` | `AttemptsBounded` |
| `FinalStaysFinal` | `FinalIsFinal` |
| `StartsInDueOrder` | `InDueOrder` |
| `OrphansAreAccounted` | `OrphansAccounted` |
| `WorkerImplementsLifecycle` | `ImplementsLifecycle`: every step of the worker is a step of `JobLifecycle` or a stutter |
| `CvPipelineProofs!TypeCorrect` | `TypeOK` |
| `CompletedKeepsData` | `CompletedHasData` |
| `NothingStranded` | `NotStranded` |
| `LatestStaysNewest` | `LatestIsNewest` |
| `ApplicationProofs!TypeCorrect` | `TypeOK` |
| `NoDuplicates` | `OnePerPosting` |
| `TrailsAccount` | `HistoryAccounts` |
| `OnlyRacesBreakRules` | `RulesBrokenOnlyByRaces` |
| `RoadmapProofs!TypesAreKept` | `TypeOK` |
| `CreditIsEarned` | `NothingUnearned` |
| `SupersededStaysClosed` | `SupersededIsClosed` |
| `CalmRecalculationIsExact` | `CalmRecalculationHeals` |
| `IngestionProofs!TypesAreKept` | `TypeOK` |
| `RecordsStayTrue` | `RecordsAreTrue` |
| `SecondPostsAreExplained` | `SecondPostExplained` |
| `CleanRunsCover` | `CleanRunCovers` |
| `HealthFollows` | `HealthFollowsRun` |
| `AiReviewProofs!TypeCorrect` | `TypeOK` |
| `TrailsStayTrue` | `TrailAccounts` |
| `LogsStayTrue` | `LogMatchesTrail` |
| `OneDecisionIsPublished` | `PublishedAsDecided` |
| `CandidateProofs!AccountTypeCorrect` | `AccountTypeOK` |
| `CodesStayAccounted` | `CodesAccounted` |
| `PracticeStaysRight` | `PracticeAddsUp` |
| `CacheNeverShows` | `CacheIsTransparent`: an answered feed is the one that would be computed then |
| `FeedTyped` | `FeedTypeOK` |
| `FeedAnswersAreCurrent` | `FeedIsCurrent`: an answered feed is the one the documents describe |
| `WorkspaceProofs!CompaniesTyped` | `CompanyTypeOK` |
| `NothingLeftBehind` | `CompaniesKeepTheirs` |
| `TaxonomyTypesAreKept` | `TaxonomyTypeOK` |
| `ToldStaysHeld` | `ToldIsHeld` |
| `MatchesAreExplained` | `MatchExplained` |
| `ConversationTypesAreKept` | `ConversationTypeOK` |
| `ExchangesStayWhole` | `ConversationsAreWhole` |
| `WorkspaceTyped` | `WorkspaceTypeOK` |
| `ServicesStayRight` | the properties of accounts, practice, taxonomy, matches, conversations and companies, of `WorkspaceSpec` |
| `FeedStaysCurrent` | `FeedIsCurrent`, of `WorkspaceSpec` |

The theorems about a service of `Workspace` are about its own specification
(`AccountSpec`, `InterviewSpec`, `TaxonomySpec`, `ConversationSpec`, `CompanySpec`,
`FeedSpec`).
The last three lift them to the server that runs the services together: a step of
one is a stutter of the others but for the failures it may use up, so each
invariant is proved over steps that leave its tables alone and let `faults` grow, and
`WorkspaceInv` is their conjunction.

**Queue.**  `OneRunner` is not inductive.  A second worker cannot reserve a running
job because the row it would have to reserve was read as `pending` and is locked
since; the lock is gone when the handler runs, so the argument needs both halves:
`LockProtocol` (a lock belongs to exactly the process that is between read and
commit, and the row has not changed under it) and `OneRunner` (a row in execution
reads `processing`, so it is not selected).  The inductive invariant is
`IInv == TypeOK /\ InstancesExist /\ LockProtocol /\ OneRunner /\ AttemptsBounded`;
`AttemptsBounded` rests on `tries[w]` being the row's attempts, which the other
two say.  The refinement maps a job's owner to its runner, which is unique by
`OneRunner`; a reservation is `Begin` because the row was pending with an attempt
left, a failed save is `Abandon`.

`InDueOrder` is about two moments, the read that selects a row and the commit that
starts it: `SelectedIsFirst` says that a selected row is due and that nothing waiting
fell due before it, which later inserts and retries keep because they fall due from now
on.  `OrphansAccounted` compares a cardinality with two counters; since a process on
its way out has cost a shutdown but left no orphan yet, `EachOrphanPaid` counts orphans and
leaving processes together, so that each step moves one unit at most.

**Applications.**  What a request writes was decided at an earlier step, so the
invariant keeps what it established then: `Loaded` (the application exists, and no
step deletes one), `Decided` (the status it read passed the check), `Submits` (a
submission is for a posting).  `OnePerPosting` then follows from the unique index
at the insert, whatever two requests saw; `HistoryAccounts` from update and entry
being one transaction, with the lemma `Appended` on what appending does to a
trail; and `RulesBrokenOnlyByRaces` from `Decided`: a request that broke a rule
held a status that the row no longer has.

**CV pipeline.**  The invariant says what each position knows: which document and
version a request holds, which job a handler runs, that a handler past the answer
of the AI service has its extraction completed.  `CompletedHasData` follows,
because nothing writes `completed` before that and a repeated run keeps the data.
For `NotStranded` it also says who tends a document in `processing`: the request
that has not dispatched yet, a waiting job, or a run at a position from which it
will write the document; a run that ends without that has been struck.
`LatestIsNewest` needs that version numbers have no gap, so that an upload which
stores a version that is no longer the highest plus one repeats an old number; and
the reverse, that the document marked as current has the highest version unless an
upload is between clearing the mark and creating its own.  The largest element of a
finite set exists by the well-founded order of its subsets (`MaxIsLargest`).

**Roadmaps.**  A recalculation saves, unit by unit, what follows from a snapshot that
may be old by then.  Completed tasks stay completed, so the invariant says that what a
request has read is a part of what is stored (`ReqOK`): an old snapshot shows too
little and never too much, and a unit that reads `completed` in it is earned.
`SupersededIsClosed` needs that a request which read `archived` will not write
`in_progress`, and that nothing else leads back to it.  For `CalmRecalculationHeals`
the snapshot of a request that no write has crossed is what is stored, and the units
before its step are exact (`CalmOK`); that the save of the last one leaves all of them
exact is where the order of `TreeAssumption` comes in.  The progress is a fold over a
set of tasks, and that it grows with the set is proved without induction: the weight
of a set is the cardinality of its blocks, one column per task (`WeightUnfolds` and the
lemmas after it).

**Ingestion.**  No step of a run sees more than the run it belongs to, and the properties
relate rows of different runs.  The invariant has a part per question: where a run is
(`PlaceOK`), what its look-up found or its creation made (`FoundOK`), how far its
counters are ahead of its rows (`CountOK`), which of its items are covered (`CoverOK`),
and which runs can have made a look-up stale since (`MetOK`).  A second post is
explained because every traced post that the look-up did not see was created since, by a
run that is in `met`.  What a look-up finds is a raw job of the same vacancy or a mistakable
one, or a duplicate of one; `RecordsStayTrue` and `CleanRunsCover` follow the chain back
to the post, whose own vacancy is the one the item was taken for.  Counters and rows are compared through the lemma that a new row
adds one to the cardinality of its kind.

**Review queue.**  A decision is one transaction that appends to the trail and sets
the status, so trail and status agree by themselves; the log is written later,
and the invariant ties each of its lines to the position of the request that owes
it.  For `PublishedAsDecided` it says what the row of an item with one trail entry holds
as long as no call has failed: what that decision wrote in its transaction.

**Accounts.**  A code is deleted by whoever found it, or by whoever asks for a new
one.  The invariant keeps, per position, what a request holds, and for every code
or token that is gone or used who held it: two who pass with one are in `rivals`
from the moment the second found it.  Two codes are active only when the later
request deleted the older ones before the earlier one stored its own.

**Interview.**  A request that runs alone has loaded what is stored, so what it writes
is the true count; the invariant states that for the uncrossed request at each
position, and that any two that overlap are crossed.  That a completed session has
an answer to every question, or one with two, is the pigeonhole principle on the
answers it counted.  That the stored mean is a number (`MeanIsNumber`) is shown of the
fold of the scores by a table over the sets of answers, as for the feed below.

**Taxonomy and matches.**  Most of the state is in requests that have read something and
write later.  A request that adds skills has looked up its names (`AddOK`), a merge has
read the rows to move (`MergeOK`), a calculation has read the candidate and then the
stored match (`MatchOK`); each knows what it read to be true still, unless the
histories `moved` and `touched` name it.  A candidate keeps what it was told because a step
that takes a skill, an alias or a link away either is one of the excused ones or
leaves the name resolved to a skill the candidate has.  The rows of an experience are
counted by the requests that copied it (`Copiers`), a set that each copy makes larger by one
and every other step leaves alone (`KeepsCopies`).

The proof of `MatchExplained` failed first, and for a reason: a calculation keeps the
*names* of the candidate's skills, and the history `touched` did not record that one
of them was renamed.  After two renamings that each left the verdict as it was, the
names it held gave another one when it looked at the post: a state of several requests,
which `workspace`, with its two requests on the taxonomy, does not reach; TLC confirmed it on a
larger instance.  The code stores such a match like any other overtaken one, so it is
the history that now sees a renaming (`Called` in `Changed`).

**Conversations.**  What can be read is a list of whole exchanges because nobody commits
while another transaction has stored a message: `SaidFirst` says that all that can be read
comes before all that cannot, and the exclusive lock of `Save` that no other
transaction has a message.  So a commit adds one exchange behind everything said
(`SaidInPairs`), the messages of a request are its question and then its answer
(`TalkOK`), and what a send has heard stays a beginning of what is said (`HeardOK`).
That a deadlock may roll back a request that waits needs `QueueOK`: only those wait
who want the lock.  `FirstFills` is the lemma on the limit of the history: the rows
with fewer than `HistoryLimit` before them are a beginning, and all of it or exactly
that many.  An earlier form of `Write` had a CASE with two arms true at once, of
which TLC takes the first and TLA+ either; its preservation lemma could not be proved
until the arms excluded each other.

**Companies.**  Only the tables matter: the invariant is `Tables /\ FilePlaces`.  Aliases
and posts are of companies that are there, a company that is there is its own heir
and the bearer of its name, and a name whose bearer was merged is an alias of the
heir.  A merge whose target has gone meanwhile is refused by the foreign keys, or
moves nothing.

**Feed.**  `FeedIsCurrent` compares what the code computes, stage by stage, with what a
feed should be, said without any stage.  Most stages are a fold or a sort, and what these
yield is shown as follows.

* A fold of the library is a CHOOSE of a recursive function.  `TableExists` shows that
  there is one, a table over the parts of a finite set, by counting up the
  cardinality (`CountUp`, which rests on every set of numbers having a least one), and then
  the fold is what the table says: `HistoryGrows` (one more event is one more
  `After`) and `TakeUnfolds` (one more row is one more `Take`).
* A set is sorted by giving each of its elements its place, one more than the number of
  elements before it.  The places are all different and fill `1..n` (`PlacesFill`), so there is
  a sorted sequence, and as its places grow from element to element every element stands at
  its own (`SortedPlaces`).
* `OneIsTaken`: of the rows in order of preference a row is taken exactly when none
  that is alike and preferred is.
* `HistoryOK`, in the invariant, relates what the fold of the events keeps for a job to the
  last events of that job.  It needs that a dismissal of a job that was applied to is
  never recorded: the code ignores it when it folds, a reader of the events would not.
* A page holds the rows whose places lie between its edges (`PageEdges`,
  `PageHolds`), by the places of the sorted sequence.

So a feed that is computed is current (`LiveFeedPresents`).  For one that is answered from
the cache the stages stay unexpanded: the invariant `CacheOK` says that every
entry is the feed of its key's fields, and a request's key has the fields as they are
now, so it does not matter what happened since the entry was stored.

**Only model-checked.**  Liveness (`Settles`, `Parsed`, `RunEnds`) and whatever
rests on ENABLED: the prover has no rules for them.  Every other property of a passing
run is a theorem.  Where a proof needs what a fold yields it
goes through a table, because the induction theorems of the library take an operator as
a parameter, which none of the provers can instantiate.

## 6. What is left out of the models

Contents: texts, files, scores, salaries, names beyond their identity.  The
database beyond rows, row locks, unique indexes, foreign keys and rollback.  Locks
that wait for each other are modelled in `Conversation` only; a merge of skills or
of companies and the other transactions are one step once they write.  A save that
reports an error is taken as not applied.  In `Ingestion` one source is modelled; in `CvPipeline`, `Application`
and `Roadmap` one candidate, in `Account` one address, in `Interview` one session and
in `Conversation` one conversation, in `Feed` one candidate, since no operation of these services touches the
rows of two.  In `AiReview` each item is about a row of its own, and the database
is taken to refuse a value outside an ENUM, as MySQL's default mode does.
In `Feed` the age of an advertisement is left out: a cached feed
may be up to ten minutes old in the scores that decay with age.  Authentication, authorisation and request validation are taken as passed.

To check: `tlc -config JobQueue.cfg MCJobQueue` (likewise for the others, with
the module and configuration that `PROJECT.json` names), and
`tlapm` on each of `JobQueueProofs.tla`, `CvPipelineProofs.tla`,
`ApplicationProofs.tla`, `RoadmapProofs.tla`, `IngestionProofs.tla`,
`AiReviewProofs.tla`, `CandidateProofs.tla` (accounts, practice and the feed) and
`WorkspaceProofs.tla` (companies, taxonomy and conversations, and all services
together).  The last two take about seven and ten minutes.
