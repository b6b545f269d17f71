----------------------------- MODULE Interview -----------------------------
(***************************************************************************)
(* A practice session for job interviews                                   *)
(* (src/Backend/src/services/interviewPrep.service.js): startSession and   *)
(* evaluateAnswer.                                                         *)
(*                                                                         *)
(* An answer is evaluated by the AI service or by the rules that replace   *)
(* it, stored, and followed by a count of all answers that is written into *)
(* the session.  Nothing is locked and no index keeps a question from      *)
(* having two answers.  Sequelize writes only the columns that differ from *)
(* the instance a request has loaded: a value that is stale in the         *)
(* database and equal in memory stays as it is.                            *)
(***************************************************************************)
EXTENDS Requests, FiniteSets, Sequences, Functions

CONSTANTS
  Question,   \* questions of the session
  Scores      \* scores an evaluation gives

ASSUME InterviewAssumption ==
  /\ Scores \subseteq Nat \ {0}
  /\ IsFiniteSet(Question) /\ Question # {}

VARIABLES
  session,   \* the interview_prep_sessions row
  answers,   \* interview_prep_answers rows of the session, oldest first
  prep,      \* prep[r]: position, question, score, row and loaded values of request r
  crossed,   \* history: requests that were under way together with another one
  settled    \* history: the last request ran alone, and no answer was stored since

interviewVars == <<session, answers, prep, crossed, settled>>

NoQuestion == "no question"
ASSUME NoQuestionAssumption == NoQuestion \notin Question

Fresh == [status |-> "active", answered |-> 0, average |-> 0]

\* There is no session yet, or one nobody has answered in.
InterviewInit ==
  /\ session \in {Fresh, [Fresh EXCEPT !.status = "none"]}
  /\ answers = <<>>
  /\ prep = [r \in Request |-> [at |-> "idle", question |-> NoQuestion, score |-> 0, row |-> 0,
                                was |-> 0, loaded |-> Fresh, count |-> 0, mean |-> 0]]
  /\ crossed = {}
  /\ settled = TRUE

PrepAt(r, at) == prep[r].at = at
PrepTo(r, at) == prep' = [prep EXCEPT ![r].at = at]

PrepSteps == {"evaluate", "find", "store", "count", "save"}
UnderWay == {r \in Request : prep[r].at \in PrepSteps}

-----------------------------------------------------------------------------
\* startSession, with at least one question.
StartSession(r) ==
  /\ PrepAt(r, "idle")
  /\ session.status = "none"
  /\ session' = Fresh
  /\ PrepTo(r, "ok")
  /\ UNCHANGED <<answers, crossed, settled, faults>>

\* evaluateAnswer reads the session ...
LoadSession(r, q) ==
  /\ PrepAt(r, "idle")
  /\ session.status # "none"
  /\ prep' = [prep EXCEPT ![r].at = "evaluate", ![r].question = q, ![r].loaded = session]
  /\ crossed' = IF UnderWay = {} THEN crossed ELSE crossed \cup UnderWay \cup {r}
  /\ UNCHANGED <<session, answers, settled, faults>>

\* ... has the answer evaluated ...
Evaluate(r, score) ==
  /\ PrepAt(r, "evaluate")
  /\ prep' = [prep EXCEPT ![r].at = "find", ![r].score = score]
  /\ UNCHANGED <<session, answers, crossed, settled, faults>>

RowsOf(q) == {n \in DOMAIN answers : answers[n].question = q}

\* ... looks for an earlier answer to the question ...
FindAnswer(r) ==
  /\ PrepAt(r, "find")
  /\ IF RowsOf(prep[r].question) = {}
     THEN PrepTo(r, "store")
     ELSE \E n \in RowsOf(prep[r].question) :
            prep' = [prep EXCEPT ![r].at = "store", ![r].row = n, ![r].was = answers[n].score]
  /\ UNCHANGED <<session, answers, crossed, settled, faults>>

\* The earlier answer with the columns that changed: the text always, the
\* score if it is not the one that was loaded.
Revised(r, row) ==
  [row EXCEPT !.by = r, !.score = IF prep[r].score = prep[r].was THEN @ ELSE prep[r].score]

\* ... stores this one over it or beside it ...
StoreAnswer(r) ==
  /\ PrepAt(r, "store")
  /\ answers' = IF prep[r].row = 0
                THEN Append(answers, [question |-> prep[r].question, by |-> r, made |-> r,
                                      score |-> prep[r].score])
                ELSE [answers EXCEPT ![prep[r].row] = Revised(r, @)]
  /\ settled' = FALSE
  /\ PrepTo(r, "count")
  /\ UNCHANGED <<session, crossed, faults>>

Total(rows) == FoldFunction(LAMBDA row, sum : row.score + sum, 0, rows)

\* The mean in hundredths, rounded as toFixed(2) does.
Mean(rows) == IF rows = <<>> THEN 0
              ELSE (100 * Total(rows) + (Len(rows) \div 2)) \div Len(rows)

\* ... reads all answers ...
CountAnswers(r) ==
  /\ PrepAt(r, "count")
  /\ prep' = [prep EXCEPT ![r].at = "save", ![r].count = Len(answers), ![r].mean = Mean(answers)]
  /\ UNCHANGED <<session, answers, crossed, settled, faults>>

Size == Cardinality(Question)

\* Mutant: a session is complete one answer early.
Complete_Early(r) == prep[r].count + 1 >= Size

Complete(r) == prep[r].count >= Size

\* The row after the save of what a request computed, without the columns that
\* equal the values it had loaded.
Written(r) ==
  LET old == prep[r].loaded IN
  [status   |-> IF Complete(r) /\ old.status # "completed" THEN "completed" ELSE session.status,
   answered |-> IF prep[r].count = old.answered THEN session.answered ELSE prep[r].count,
   average  |-> IF prep[r].mean = old.average THEN session.average ELSE prep[r].mean]

\* ... and saves the progress.
SaveSession(r) ==
  /\ PrepAt(r, "save")
  /\ session' = Written(r)
  /\ settled' = (r \notin crossed)
  /\ PrepTo(r, "ok")
  /\ UNCHANGED <<answers, crossed, faults>>

PrepFails(r) ==
  /\ prep[r].at \in PrepSteps
  /\ Fault
  /\ PrepTo(r, "failed")
  /\ UNCHANGED <<session, answers, crossed, settled>>

InterviewStep(r) ==
  \/ StartSession(r)
  \/ \E q \in Question : LoadSession(r, q)
  \/ \E s \in Scores : Evaluate(r, s)
  \/ FindAnswer(r) \/ StoreAnswer(r) \/ CountAnswers(r) \/ SaveSession(r)
  \/ PrepFails(r)

InterviewNext == \E r \in Request : InterviewStep(r)

InterviewSpec == InterviewInit /\ faults = 0 /\ [][InterviewNext]_<<interviewVars, faults>>

-----------------------------------------------------------------------------
(* Properties *)

Progress == [status : {"none", "active", "completed"}, answered : Nat, average : Nat]
AnswerRow == [question : Question, by : Request, made : Request, score : Scores]
PrepRow == [at : {"idle", "ok", "failed"} \cup PrepSteps, question : Question \cup {NoQuestion},
            score : Scores \cup {0}, row : Nat, was : Scores \cup {0}, loaded : Progress,
            count : Nat, mean : Nat]

InterviewTypeOK ==
  /\ session \in Progress
  /\ answers \in Seq(AnswerRow)
  /\ prep \in [Request -> PrepRow]
  /\ crossed \subseteq Request
  /\ settled \in BOOLEAN

\* A request that ran alone leaves the progress of the session as its answers say.
SettledAddsUp ==
  settled =>
    /\ session.answered = Len(answers)
    /\ session.average = Mean(answers)
    /\ session.status = "active" => Len(answers) < Size

\* A question has two answers only when the request that made the second one
\* was under way together with another request.
TwinsCrossed ==
  \A m, n \in DOMAIN answers :
    m < n /\ answers[m].question = answers[n].question => answers[n].made \in crossed

\* A completed session has an answer to every question, or a question with two.
CompletedIsAnswered ==
  session.status = "completed" =>
    \/ \A q \in Question : RowsOf(q) # {}
    \/ \E m, n \in DOMAIN answers : m # n /\ answers[m].question = answers[n].question

\* The score of an answer is the one its text got, unless requests crossed.
ScoreFitsText ==
  \A n \in DOMAIN answers :
    answers[n].score = prep[answers[n].by].score \/ answers[n].by \in crossed

\* The progress of a session, the answers it counts and their scores fit
\* together, and differ only where requests crossed or one failed.
PracticeAddsUp ==
  /\ SettledAddsUp
  /\ TwinsCrossed
  /\ CompletedIsAnswered
  /\ ScoreFitsText
=============================================================================
