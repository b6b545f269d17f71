---------------------------- MODULE Application ----------------------------
(***************************************************************************)
(* The applications of one candidate                                       *)
(* (src/Backend/src/services/application.service.js): apply, updateStatus  *)
(* by an administrator, withdraw and updateNotes by the candidate.         *)
(*                                                                         *)
(* Each request reads the row first, decides on that copy, and writes in a *)
(* transaction later.  A transaction updates the row and appends the audit *)
(* entry; it holds the row lock from the update to the commit, so it is    *)
(* one step here.  The reads before it hold nothing.                       *)
(*                                                                         *)
(* Cover letters, the chosen CV and the texts of notes are left out; a     *)
(* saved instance writes the columns that were assigned, no others.        *)
(***************************************************************************)
EXTENDS Naturals, Sequences, SequencesExt

CONSTANTS
  AppId,       \* bound: ids of applications rows, in insertion order
  Posting,     \* job posts
  NoPosting,   \* "no job post"
  Request,     \* bound: HTTP requests
  Targets      \* statuses administrators choose

\* APPLICATION_STATUSES
Stages == {"submitted", "under_review", "shortlisted", "interview", "offer",
           "rejected", "withdrawn"}

ASSUME ApplicationAssumption ==
  /\ AppId \subseteq Nat
  /\ NoPosting \notin Posting
  /\ Targets \subseteq Stages

NoApp == 0

VARIABLES
  open,        \* postings that are active and not expired
  apps,        \* applications
  history,     \* history[a]: the audit entries of a, oldest first
  reqs         \* reqs[r]: position and instance of request r

vars == <<open, apps, history, reqs>>

Init ==
  /\ open = Posting
  /\ apps = [a \in AppId |-> [status |-> "none", posting |-> NoPosting]]
  /\ history = [a \in AppId |-> <<>>]
  /\ reqs = [r \in Request |-> [pc |-> "idle", posting |-> NoPosting, app |-> NoApp,
                                seen |-> "none", target |-> "none"]]

Applied == {a \in AppId : apps[a].status # "none"}
AppliedTo(p) == {a \in Applied : apps[a].posting = p}

Goto(r, pc) == reqs' = [reqs EXCEPT ![r].pc = pc]

\* A posting is deactivated or expires.
Close(p) ==
  /\ p \in open
  /\ open' = open \ {p}
  /\ UNCHANGED <<apps, history, reqs>>

-----------------------------------------------------------------------------
(* apply: read the posting, look for a duplicate, insert *)

CheckPosting(r, p) ==
  /\ reqs[r].pc = "idle"
  /\ p \in open
  /\ reqs' = [reqs EXCEPT ![r] = [@ EXCEPT !.pc = "duplicate", !.posting = p]]
  /\ UNCHANGED <<open, apps, history>>

CheckDuplicate(r) ==
  /\ reqs[r].pc = "duplicate"
  /\ Goto(r, IF AppliedTo(reqs[r].posting) = {} THEN "create" ELSE "done")
  /\ UNCHANGED <<open, apps, history>>

\* Mutant: the table has no unique index.
Unique_NoIndex(p) == TRUE

\* unique_candidate_job_application
Unique(p) == AppliedTo(p) = {}

\* Mutant: the first status is the one the documentation names.
NewApp_Applied(p) == [status |-> "applied", posting |-> p]

NewApp(p) == [status |-> "submitted", posting |-> p]

NextApp(a) == a \notin Applied /\ \A b \in AppId : b < a => b \in Applied

Create(r, a) ==
  /\ reqs[r].pc = "create"
  /\ NextApp(a)
  /\ IF Unique(reqs[r].posting)
     THEN /\ apps' = [apps EXCEPT ![a] = NewApp(reqs[r].posting)]
          /\ history' = [history EXCEPT ![a] = <<[from |-> "none", to |-> "submitted"]>>]
     ELSE UNCHANGED <<apps, history>>
  /\ Goto(r, "done")
  /\ UNCHANGED open

-----------------------------------------------------------------------------
(* updateStatus and withdraw: findByPk and the checks, then the transaction *)

Load(r, a, pc, target) ==
  /\ reqs[r].pc = "idle"
  /\ a \in Applied
  /\ reqs' = [reqs EXCEPT ![r] = [@ EXCEPT !.pc = pc, !.app = a,
                                           !.seen = apps[a].status, !.target = target]]
  /\ UNCHANGED <<open, apps, history>>

\* Mutant: a withdrawn application is not protected.
MayUpdate_Withdrawn(status, target) == status # target

MayUpdate(status, target) == status # "withdrawn" /\ status # target

MayWithdraw(status) == status \notin {"withdrawn", "offer", "rejected"}

LoadForUpdate(r, a, target) ==
  /\ MayUpdate(apps[a].status, target)
  /\ Load(r, a, "save", target)

LoadForWithdrawal(r, a) ==
  /\ MayWithdraw(apps[a].status)
  /\ Load(r, a, "withdraw", "withdrawn")

SaveStatus(r) ==
  LET a == reqs[r].app IN
  /\ reqs[r].pc \in {"save", "withdraw"}
  /\ apps' = [apps EXCEPT ![a].status = reqs[r].target]
  /\ history' = [history EXCEPT ![a] = Append(@, [from |-> reqs[r].seen,
                                                  to |-> reqs[r].target])]
  /\ Goto(r, "done")
  /\ UNCHANGED open

-----------------------------------------------------------------------------
(* updateNotes: findByPk, then save of the notes column *)

LoadForNotes(r, a) == Load(r, a, "notes", apps[a].status)

\* Mutant: the whole row is written back.
SaveNotes_WholeRow(r) ==
  /\ reqs[r].pc = "notes"
  /\ apps' = [apps EXCEPT ![reqs[r].app].status = reqs[r].seen]
  /\ Goto(r, "done")
  /\ UNCHANGED <<open, history>>

SaveNotes(r) ==
  /\ reqs[r].pc = "notes"
  /\ Goto(r, "done")
  /\ UNCHANGED <<open, apps, history>>

\* A call fails: an open transaction rolls back.
Abort(r) ==
  /\ reqs[r].pc \notin {"idle", "done"}
  /\ Goto(r, "done")
  /\ UNCHANGED <<open, apps, history>>

-----------------------------------------------------------------------------
Next ==
  \/ \E p \in Posting : Close(p)
  \/ \E r \in Request :
        \/ \E p \in Posting : CheckPosting(r, p)
        \/ CheckDuplicate(r)
        \/ \E a \in AppId :
              \/ Create(r, a)
              \/ \E target \in Targets : LoadForUpdate(r, a, target)
              \/ LoadForWithdrawal(r, a)
              \/ LoadForNotes(r, a)
        \/ SaveStatus(r)
        \/ SaveNotes(r)
        \/ Abort(r)

Spec == Init /\ [][Next]_vars

-----------------------------------------------------------------------------
(* Properties *)

Positions == {"idle", "duplicate", "create", "save", "withdraw", "notes", "done"}

RequestRow == [pc : Positions, posting : Posting \cup {NoPosting}, app : AppId \cup {NoApp},
               seen : Stages \cup {"none"}, target : Stages \cup {"none"}]

Row == [status : Stages \cup {"none"}, posting : Posting \cup {NoPosting}]

Entry == [from : Stages \cup {"none"}, to : Stages]

TypeOK ==
  /\ open \subseteq Posting
  /\ apps \in [AppId -> Row]
  /\ history \in [AppId -> Seq(Entry)]
  /\ reqs \in [Request -> RequestRow]

\* A candidate has at most one application per posting, whatever two requests
\* saw when they looked for a duplicate.
OnePerPosting == \A p \in Posting : \A a, b \in AppliedTo(p) : a = b

\* The audit trail accounts for the row: it starts with the submission, ends with
\* the status the row has now, and records real changes only.
HistoryAccounts ==
  \A a \in Applied :
    /\ history[a] # <<>>
    /\ Head(history[a]) = [from |-> "none", to |-> "submitted"]
    /\ Last(history[a]).to = apps[a].status
    /\ \A i \in DOMAIN history[a] : history[a][i].from # history[a][i].to

\* Request r decided on a status that the application no longer has.
Stale(r) == apps[reqs[r].app].status # reqs[r].seen

\* A withdrawn application is updated, or one with an offer or a rejection is
\* withdrawn by its candidate, only by a request that decided before the row
\* changed under it: requests that do not overlap obey the rules of the service.
RulesBrokenOnlyByRaces ==
  [][\A r \in Request :
       LET status == apps[reqs[r].app].status IN
       (reqs[r].pc \in {"save", "withdraw"} /\ reqs'[r] # reqs[r] /\ apps' # apps)
         => \/ Stale(r)
            \/ reqs[r].pc = "save" /\ status # "withdrawn"
            \/ reqs[r].pc = "withdraw" /\ status \notin {"withdrawn", "offer", "rejected"}]_vars

\* applications.test.js: status updates of a withdrawn application are rejected.
WithdrawnIsFinal ==
  [][\A a \in Applied : apps[a].status = "withdrawn" => apps'[a].status = "withdrawn"]_apps
=============================================================================
