----------------------------- MODULE AiReview -----------------------------
(***************************************************************************)
(* The review queue for uncertain AI output                                *)
(* (src/Backend/src/services/aiReview.service.js): approveItem,            *)
(* correctItem and rejectItem.                                             *)
(*                                                                         *)
(* A request reads the item and refuses one that is decided.  Its          *)
(* transaction then updates the item, which locks the row until the        *)
(* commit, appends the audit entry and applies the decision to the row the *)
(* item is about, inside a catch clause that drops every error.  After the *)
(* commit it writes the system log and reads the item again; a failure     *)
(* there makes the request roll back a transaction that is committed,      *)
(* which fails, and the request with it.                                   *)
(*                                                                         *)
(* Each item is about a row of its own.  The row is kept as what reviewers *)
(* made of it; reasons, notes and the values themselves are left out.      *)
(***************************************************************************)
EXTENDS Naturals, Sequences, SequencesExt

CONSTANTS
  Item,        \* ai_review_items rows
  EntityType,  \* EntityType[i]: entity_type of item i
  Request,     \* bound: HTTP requests of reviewers
  MaxFaults    \* bound: failed calls

Decisions == {"approved", "corrected", "rejected"}
EntityTypes == {"skill", "job_post", "cv_extraction"}

ASSUME AiReviewAssumption ==
  /\ EntityType \in [Item -> EntityTypes]
  /\ MaxFaults \in Nat

NoItem == "none"
ASSUME NoItemAssumption == NoItem \notin Item

VARIABLES
  status,   \* status[i]: status of item i
  audits,   \* audits[i]: ai_review_audits entries of i, oldest first
  rows,     \* rows[i]: what reviewers made of the row item i is about
  logged,   \* requests with an audit_logs entry
  reqs,     \* reqs[r]: position, item and decision of request r
  faults    \* failures so far

vars == <<status, audits, rows, logged, reqs, faults>>

Init ==
  /\ status = [i \in Item |-> "pending"]
  /\ audits = [i \in Item |-> <<>>]
  /\ rows = [i \in Item |-> "proposed"]
  /\ logged = {}
  /\ reqs = [r \in Request |-> [pc |-> "idle", item |-> NoItem, decision |-> "none",
                                usable |-> FALSE]]
  /\ faults = 0

Goto(r, pc) == reqs' = [reqs EXCEPT ![r].pc = pc]

Fault ==
  /\ faults < MaxFaults
  /\ faults' = faults + 1

\* The row an item is about is deleted by an administrator.
DeleteRow(i) ==
  /\ rows[i] # "missing"
  /\ rows' = [rows EXCEPT ![i] = "missing"]
  /\ UNCHANGED <<status, audits, logged, reqs, faults>>

-----------------------------------------------------------------------------
(* The decision *)

\* findByPk and the check of the status; usable: the proposed or corrected payload
\* has a field that is copied into a job post.
Load(r, i, decision, usable) ==
  /\ reqs[r].pc = "idle"
  /\ reqs' = [reqs EXCEPT ![r] =
                [pc |-> IF status[i] = "pending" THEN "decide" ELSE "refused",
                 item |-> i, decision |-> decision, usable |-> usable]]
  /\ UNCHANGED <<status, audits, rows, logged, faults>>

\* The database takes the values: the ENUM of cv_extractions has no "verified".
Storable(i) == EntityType[i] # "cv_extraction"

\* Mutant: a rejection is applied as well.
Changes_Rejected(i, decision, usable) == usable \/ EntityType[i] = "skill"

\* The decision has something to write; any skill that is not rejected is verified.
Changes(i, decision, usable) ==
  /\ decision # "rejected"
  /\ usable \/ EntityType[i] = "skill"

\* An approved skill is marked verified and keeps a name that was corrected.
Publish(i, decision) ==
  IF EntityType[i] = "skill" /\ decision = "approved" /\ rows[i] = "corrected"
  THEN rows ELSE [rows EXCEPT ![i] = decision]

Applies(i, decision, usable) ==
  /\ rows[i] # "missing"
  /\ Changes(i, decision, usable)
  /\ Storable(i)

\* Mutant: the audit entry names the status that was read as the new one.
Entry_Old(r) == [by |-> r, from |-> "pending", to |-> "pending"]

Entry(r) == [by |-> r, from |-> "pending", to |-> reqs[r].decision]

\* The transaction up to its commit.  When the update of the row fails, the
\* item is decided all the same.
Decide(r) ==
  LET i == reqs[r].item IN
  LET d == reqs[r].decision IN
  /\ reqs[r].pc = "decide"
  /\ status' = [status EXCEPT ![i] = d]
  /\ audits' = [audits EXCEPT ![i] = Append(@, Entry(r))]
  /\ IF Applies(i, d, reqs[r].usable)
     THEN \/ rows' = Publish(i, d) /\ UNCHANGED faults
          \/ UNCHANGED rows /\ Fault
     ELSE UNCHANGED <<rows, faults>>
  /\ Goto(r, "log")
  /\ UNCHANGED logged

-----------------------------------------------------------------------------
(* After the commit *)

LogAction(r) ==
  /\ reqs[r].pc = "log"
  /\ logged' = logged \cup {r}
  /\ Goto(r, "reload")
  /\ UNCHANGED <<status, audits, rows, faults>>

Reload(r) ==
  /\ reqs[r].pc = "reload"
  /\ Goto(r, "ok")
  /\ UNCHANGED <<status, audits, rows, logged, faults>>

\* Mutant: the failure of a request is logged like its success.
Fails_Logged(r) ==
  /\ reqs[r].pc \in {"decide", "log", "reload"}
  /\ Fault
  /\ logged' = logged \cup {r}
  /\ Goto(r, "failed")
  /\ UNCHANGED <<status, audits, rows>>

\* Mutant: the audit entry is not part of the transaction.
Fails_Audited(r) ==
  /\ reqs[r].pc = "decide"
  /\ Fault
  /\ audits' = [audits EXCEPT ![reqs[r].item] = Append(@, Entry(r))]
  /\ Goto(r, "failed")
  /\ UNCHANGED <<status, rows, logged>>

\* A call fails, or the process dies: an open transaction is rolled back, a
\* committed one stays.
Fails(r) ==
  /\ reqs[r].pc \in {"decide", "log", "reload"}
  /\ Fault
  /\ Goto(r, "failed")
  /\ UNCHANGED <<status, audits, rows, logged>>

-----------------------------------------------------------------------------
Next ==
  \/ \E i \in Item : DeleteRow(i)
  \/ \E r \in Request :
        \/ \E i \in Item, d \in Decisions, usable \in BOOLEAN : Load(r, i, d, usable)
        \/ Decide(r)
        \/ LogAction(r)
        \/ Reload(r)
        \/ Fails(r)

Spec == Init /\ [][Next]_vars

-----------------------------------------------------------------------------
(* Properties *)

AuditEntry == [by : Request, from : {"pending"}, to : Decisions]

TypeOK ==
  /\ status \in [Item -> Decisions \cup {"pending"}]
  /\ audits \in [Item -> Seq(AuditEntry)]
  /\ rows \in [Item -> {"missing", "proposed", "approved", "corrected"}]
  /\ logged \subseteq Request
  /\ reqs \in [Request -> [pc : {"idle", "decide", "log", "reload", "ok", "refused", "failed"},
                           item : Item \cup {NoItem},
                           decision : Decisions \cup {"none"}, usable : BOOLEAN]]
  /\ faults \in 0..MaxFaults

Trail(i) == {audits[i][n].by : n \in DOMAIN audits[i]}

\* The trail of an item accounts for its status: it is empty while the item is
\* pending, its last entry is the status, and a request is in it only once, on
\* the item it was sent for, with the decision it carried.
TrailAccounts ==
  \A i \in Item :
    /\ status[i] = "pending" <=> audits[i] = <<>>
    /\ audits[i] # <<>> => Last(audits[i]).to = status[i]
    /\ \A m, n \in DOMAIN audits[i] : audits[i][m].by = audits[i][n].by => m = n
    /\ \A n \in DOMAIN audits[i] :
         LET q == reqs[audits[i][n].by] IN q.item = i /\ q.decision = audits[i][n].to

\* The system log and the trail agree: a request is answered with success only
\* if both record its decision, the system log holds no decision that was not
\* committed, and a committed decision it lacks belongs to a request that has
\* not reached the log or was answered with an error.
LogMatchesTrail ==
  \A r \in Request :
    LET decided == \E i \in Item : r \in Trail(i) IN
    /\ reqs[r].pc = "ok" => decided /\ r \in logged
    /\ r \in logged => decided
    /\ decided /\ r \notin logged => reqs[r].pc \in {"log", "failed"}

\* The row of a skill or a job post holds what the only decision on its item
\* said, unless a call failed: only two overlapping reviewers, or an error that
\* was dropped, leave a rejected suggestion published or an approved one not.
PublishedAsDecided ==
  \A i \in Item :
    /\ audits[i] = <<>> => rows[i] \in {"missing", "proposed"}
    /\ EntityType[i] # "cv_extraction" /\ Len(audits[i]) = 1 /\ faults = 0
         => \/ rows[i] = "missing"
            \/ rows[i] = status[i] /\ status[i] # "rejected"
            \/ rows[i] = "proposed" /\ status[i] = "rejected"
            \/ rows[i] = "proposed" /\ ~reqs[audits[i][1].by].usable

\* docs/README.md: "Approve: Accept the AI-generated data as-is and publish to
\* production", here when the row exists, the payload is usable and no call fails.
ApprovalPublishes ==
  \A i \in Item :
    /\ status[i] = "approved" /\ rows[i] # "missing" /\ faults = 0
    /\ \A r \in Trail(i) : reqs[r].usable
    => rows[i] # "proposed"
=============================================================================
