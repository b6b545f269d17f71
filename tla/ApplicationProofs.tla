------------------------- MODULE ApplicationProofs -------------------------
(***************************************************************************)
(* Proofs about Application, for any number of postings, applications and  *)
(* requests.                                                               *)
(*                                                                         *)
(* Neither the audit trail nor the rules are inductive by themselves: what *)
(* a request writes was decided earlier, so the invariant keeps what each  *)
(* request established when it read the row.                               *)
(***************************************************************************)
EXTENDS Application, TLAPS

\* A request works on an application that exists.
Loaded == \A r \in Request : reqs[r].pc \in {"save", "withdraw", "notes"} => reqs[r].app \in Applied

\* A request that is about to write has checked the status it read.
Decided ==
  \A r \in Request :
    /\ reqs[r].pc = "save" => MayUpdate(reqs[r].seen, reqs[r].target)
    /\ reqs[r].pc = "withdraw" => MayWithdraw(reqs[r].seen) /\ reqs[r].target = "withdrawn"
    /\ reqs[r].pc \in {"save", "withdraw"} => reqs[r].target \in Stages

\* A submission is for a posting.
Submits == \A r \in Request : reqs[r].pc \in {"duplicate", "create"} => reqs[r].posting \in Posting

IInv == TypeOK /\ Loaded /\ Decided /\ Submits /\ OnePerPosting /\ HistoryAccounts

-----------------------------------------------------------------------------
(* The two kinds of steps *)

\* What a step that writes no application does to its request.
Reads == UNCHANGED <<apps, history>>

\* Moving a request touches nothing but its position.
LEMMA Moved ==
  ASSUME TypeOK, NEW r \in Request, NEW p, Goto(r, p)
  PROVE  /\ reqs'[r].pc = p
         /\ \A q \in Request : q # r => reqs'[q] = reqs[q]
         /\ \A q \in Request : /\ reqs'[q].app = reqs[q].app
                               /\ reqs'[q].seen = reqs[q].seen
                               /\ reqs'[q].target = reqs[q].target
                               /\ reqs'[q].posting = reqs[q].posting
  BY DEF TypeOK, Goto, RequestRow

\* Steps that write no application keep what is known of the applications.
LEMMA ReadsKeep ==
  ASSUME IInv, Reads
  PROVE  OnePerPosting' /\ HistoryAccounts' /\ Applied' = Applied
  BY DEF IInv, Reads, OnePerPosting, HistoryAccounts, Applied, AppliedTo, Last

-----------------------------------------------------------------------------
(* Type correctness *)

\* The trail of an application stays a sequence of entries.
LEMMA Appended ==
  ASSUME NEW s \in Seq(Entry), NEW e \in Entry
  PROVE  /\ Append(s, e) \in Seq(Entry)
         /\ Append(s, e) # <<>>
         /\ Last(Append(s, e)) = e
         /\ s # <<>> => Head(Append(s, e)) = Head(s)
         /\ \A i \in DOMAIN Append(s, e) :
              (i \in DOMAIN s /\ Append(s, e)[i] = s[i]) \/ Append(s, e)[i] = e
<1> DEFINE t == Append(s, e)
<1>1. t \in Seq(Entry) /\ Len(t) = Len(s) + 1
  OBVIOUS
<1>2. \A i \in 1..Len(s) : t[i] = s[i]
  OBVIOUS
<1>3. t[Len(s) + 1] = e
  OBVIOUS
<1>4. Len(s) \in Nat /\ DOMAIN s = 1..Len(s) /\ DOMAIN t = 1..Len(t)
  BY <1>1
<1>5. Last(t) = e
  BY <1>1, <1>3 DEF Last
<1>8. t # <<>>
  BY <1>1, <1>4
<1>6. s # <<>> => Head(t) = Head(s)
  BY <1>1, <1>2, <1>4
<1>7. \A i \in DOMAIN t : (i \in DOMAIN s /\ t[i] = s[i]) \/ t[i] = e
  BY <1>1, <1>2, <1>3, <1>4
<1> QED
  BY <1>1, <1>5, <1>6, <1>7, <1>8

\* The first state has the types of the tables.
LEMMA InitTypeOK == Init => TypeOK
  BY DEF Init, TypeOK, RequestRow, Positions, Row

\* Loading an application changes the requests only, and keeps their types.
LEMMA LoadTypeOK ==
  ASSUME TypeOK, NEW r \in Request, NEW a \in AppId,
         NEW p \in {"save", "withdraw", "notes"}, NEW target \in Stages \cup {"none"},
         Load(r, a, p, target)
  PROVE  TypeOK'
<1>1. apps[a].status \in Stages \cup {"none"}
  BY DEF TypeOK, Row
<1> QED
  BY <1>1, ZenonT(40) DEF TypeOK, Load, RequestRow, Positions

\* Moving a request keeps the types of the requests.
LEMMA GotoTypeOK ==
  ASSUME TypeOK, NEW r \in Request, NEW p \in Positions, Goto(r, p)
  PROVE  reqs' \in [Request -> RequestRow]
  BY ZenonT(40) DEF TypeOK, Goto, RequestRow

\* Every step keeps the types.
LEMMA NextTypeOK == TypeOK /\ Decided /\ Loaded /\ Submits /\ [Next]_vars => TypeOK'
<1> SUFFICES ASSUME TypeOK, Decided, Loaded, Submits, [Next]_vars PROVE TypeOK'
  OBVIOUS
<1>1. ASSUME NEW p \in Posting, Close(p) PROVE TypeOK'
  BY <1>1 DEF Close, TypeOK
<1>2. ASSUME NEW r \in Request, NEW p \in Posting, CheckPosting(r, p) PROVE TypeOK'
  BY <1>2, ZenonT(40) DEF CheckPosting, TypeOK, RequestRow, Positions
<1>3. ASSUME NEW r \in Request, CheckDuplicate(r) PROVE TypeOK'
  <2>1. PICK p \in {"create", "done"} : Goto(r, p)
    BY <1>3 DEF CheckDuplicate
  <2> QED
    BY <1>3, <2>1, GotoTypeOK DEF CheckDuplicate, TypeOK, Positions
<1>4. ASSUME NEW r \in Request, NEW a \in AppId, Create(r, a) PROVE TypeOK'
  <2>1. reqs[r].posting \in Posting
    BY <1>4 DEF Create, Submits
  <2>2. NewApp(reqs[r].posting) \in Row
    BY <2>1 DEF NewApp, Stages, Row
  <2>3. <<[from |-> "none", to |-> "submitted"]>> \in Seq(Entry)
    BY DEF Entry, Stages
  <2>4. reqs' \in [Request -> RequestRow]
    BY <1>4, GotoTypeOK DEF Create, Positions
  <2> QED
    BY <1>4, <2>2, <2>3, <2>4 DEF Create, TypeOK
<1>5. ASSUME NEW r \in Request, NEW a \in AppId, NEW target \in Targets, LoadForUpdate(r, a, target)
      PROVE  TypeOK'
  BY <1>5, LoadTypeOK, ApplicationAssumption DEF LoadForUpdate
<1>6. ASSUME NEW r \in Request, NEW a \in AppId, LoadForWithdrawal(r, a) PROVE TypeOK'
  BY <1>6, LoadTypeOK DEF LoadForWithdrawal, Stages
<1>7. ASSUME NEW r \in Request, NEW a \in AppId, LoadForNotes(r, a) PROVE TypeOK'
  <2>1. apps[a].status \in Stages \cup {"none"}
    BY DEF TypeOK, Row
  <2> QED
    BY <1>7, <2>1, LoadTypeOK DEF LoadForNotes
<1>8. ASSUME NEW r \in Request, SaveStatus(r) PROVE TypeOK'
  <2>1. reqs[r].app \in AppId /\ reqs[r].target \in Stages /\ reqs[r].seen \in Stages \cup {"none"}
    BY <1>8 DEF SaveStatus, Loaded, Decided, Applied, TypeOK, RequestRow
  <2>2. [from |-> reqs[r].seen, to |-> reqs[r].target] \in Entry
    BY <2>1 DEF Entry
  <2>3. Append(history[reqs[r].app], [from |-> reqs[r].seen, to |-> reqs[r].target]) \in Seq(Entry)
    BY <2>1, <2>2 DEF TypeOK
  <2>4. history' \in [AppId -> Seq(Entry)]
    BY <1>8, <2>1, <2>3 DEF SaveStatus, TypeOK
  <2>5. reqs' \in [Request -> RequestRow]
    BY <1>8, GotoTypeOK DEF SaveStatus, Positions
  <2>6. apps' \in [AppId -> Row]
    BY <1>8, <2>1 DEF SaveStatus, TypeOK, Row
  <2> QED
    BY <1>8, <2>1, <2>4, <2>5, <2>6 DEF SaveStatus, TypeOK
<1>9. ASSUME NEW r \in Request, SaveNotes(r) \/ Abort(r) PROVE TypeOK'
  BY <1>9, GotoTypeOK DEF SaveNotes, Abort, TypeOK, Positions
<1>10. CASE UNCHANGED vars
  BY <1>10 DEF vars, TypeOK
<1> QED
  BY <1>1, <1>2, <1>3, <1>4, <1>5, <1>6, <1>7, <1>8, <1>9, <1>10 DEF Next

-----------------------------------------------------------------------------
(* What a request established when it read the row *)

\* What is known of the requests.
Known == Loaded /\ Decided /\ Submits

\* A step either writes no application, or submits one, or saves a status.
LEMMA NextKinds ==
  ASSUME [Next]_vars
  PROVE  \/ Reads
         \/ \E r \in Request, a \in AppId :
              /\ Create(r, a) /\ Unique(reqs[r].posting)
         \/ \E r \in Request : SaveStatus(r)
<1>1. ASSUME NEW r \in Request, NEW a \in AppId, Create(r, a), ~Unique(reqs[r].posting) PROVE Reads
  BY <1>1 DEF Create, Reads
<1> QED
  BY <1>1 DEF Next, Reads, vars, Close, CheckPosting, CheckDuplicate, LoadForUpdate,
     LoadForWithdrawal, LoadForNotes, Load, SaveNotes, Abort

\* No step deletes an application.
LEMMA AppliedGrows == TypeOK /\ Known /\ [Next]_vars => Applied \subseteq Applied'
<1> SUFFICES ASSUME TypeOK, Known, [Next]_vars PROVE Applied \subseteq Applied'
  OBVIOUS
<1>1. ASSUME NEW r \in Request, NEW a \in AppId, Create(r, a), Unique(reqs[r].posting)
      PROVE  Applied \subseteq Applied'
  <2>1. \A b \in AppId : b # a => apps'[b] = apps[b]
    BY <1>1 DEF Create, TypeOK
  <2>2. a \notin Applied
    BY <1>1 DEF Create, NextApp
  <2> QED
    BY <2>1, <2>2 DEF Applied
<1>2. ASSUME NEW r \in Request, SaveStatus(r) PROVE Applied \subseteq Applied'
  <2>1. reqs[r].app \in AppId /\ reqs[r].target # "none"
    BY <1>2 DEF SaveStatus, Known, Loaded, Decided, Applied, Stages
  <2>2. \A b \in AppId : apps'[b].status = apps[b].status \/ apps'[b].status # "none"
    BY <1>2, <2>1 DEF SaveStatus, TypeOK, Row
  <2> QED
    BY <2>2 DEF Applied
<1>3. Reads => Applied \subseteq Applied'
  BY DEF Reads, Applied
<1> QED
  BY <1>1, <1>2, <1>3, NextKinds

\* A step that moves one request to a position without obligations keeps what is
\* known of all of them.
LEMMA MovedKeepsKnown ==
  ASSUME TypeOK, Known, NEW r \in Request, NEW p \in {"create", "done"}, Goto(r, p),
         p = "create" => reqs[r].pc = "duplicate", Applied \subseteq Applied'
  PROVE  Known'
  BY Moved DEF Known, Loaded, Decided, Submits

\* A loaded request knows the application it works on and what it checked.
LEMMA LoadKeepsKnown ==
  ASSUME TypeOK, Known, NEW r \in Request, NEW a \in AppId, NEW p, NEW target,
         Load(r, a, p, target), p \in {"save", "withdraw", "notes"},
         p = "save" => MayUpdate(apps[a].status, target) /\ target \in Stages,
         p = "withdraw" => MayWithdraw(apps[a].status) /\ target = "withdrawn"
  PROVE  Known'
<1>1. /\ reqs'[r].pc = p /\ reqs'[r].app = a
      /\ reqs'[r].seen = apps[a].status /\ reqs'[r].target = target
      /\ \A q \in Request : q # r => reqs'[q] = reqs[q]
  BY DEF Load, TypeOK, RequestRow
<1>2. Applied' = Applied /\ a \in Applied
  BY DEF Load, Applied
<1> QED
  BY <1>1, <1>2 DEF Known, Loaded, Decided, Submits, MayUpdate, MayWithdraw, Stages

\* Every step keeps what is known of the requests.
LEMMA NextKnown == TypeOK /\ Known /\ [Next]_vars => Known'
<1> SUFFICES ASSUME TypeOK, Known, [Next]_vars PROVE Known'
  OBVIOUS
<1>0. Applied \subseteq Applied'
  BY AppliedGrows DEF Known
<1>1. ASSUME NEW p \in Posting, Close(p) PROVE Known'
  BY <1>1 DEF Close, Known, Loaded, Decided, Submits, Applied
<1>2. ASSUME NEW r \in Request, NEW p \in Posting, CheckPosting(r, p) PROVE Known'
  <2>1. /\ reqs'[r].pc = "duplicate" /\ reqs'[r].posting = p
        /\ \A q \in Request : q # r => reqs'[q] = reqs[q]
    BY <1>2 DEF CheckPosting, TypeOK, RequestRow
  <2> QED
    BY <1>0, <2>1 DEF Known, Loaded, Decided, Submits
<1>3. ASSUME NEW r \in Request, CheckDuplicate(r) PROVE Known'
  <2>1. PICK p \in {"create", "done"} : Goto(r, p)
    BY <1>3 DEF CheckDuplicate
  <2> QED
    BY <1>0, <1>3, <2>1, MovedKeepsKnown DEF CheckDuplicate
<1>4. ASSUME NEW r \in Request, NEW a \in AppId, Create(r, a) PROVE Known'
  BY <1>0, <1>4, MovedKeepsKnown DEF Create
<1>5. ASSUME NEW r \in Request, NEW a \in AppId, NEW target \in Targets, LoadForUpdate(r, a, target)
      PROVE  Known'
  BY <1>5, LoadKeepsKnown, ApplicationAssumption DEF LoadForUpdate
<1>6. ASSUME NEW r \in Request, NEW a \in AppId, LoadForWithdrawal(r, a) PROVE Known'
  BY <1>6, LoadKeepsKnown DEF LoadForWithdrawal
<1>7. ASSUME NEW r \in Request, NEW a \in AppId, LoadForNotes(r, a) PROVE Known'
  BY <1>7, LoadKeepsKnown DEF LoadForNotes
<1>8. ASSUME NEW r \in Request, SaveStatus(r) \/ SaveNotes(r) \/ Abort(r) PROVE Known'
  BY <1>0, <1>8, MovedKeepsKnown DEF SaveStatus, SaveNotes, Abort
<1>9. CASE UNCHANGED vars
  BY <1>9 DEF vars, Known, Loaded, Decided, Submits, Applied
<1> QED
  BY <1>1, <1>2, <1>3, <1>4, <1>5, <1>6, <1>7, <1>8, <1>9 DEF Next

-----------------------------------------------------------------------------
(* Applications and their trails *)

\* A submission adds one application, to a posting that has none.
LEMMA CreateKeeps ==
  ASSUME IInv, NEW r \in Request, NEW a \in AppId, Create(r, a), Unique(reqs[r].posting)
  PROVE  OnePerPosting' /\ HistoryAccounts'
<1> DEFINE p == reqs[r].posting
           e == [from |-> "none", to |-> "submitted"]
<1>1. a \notin Applied /\ AppliedTo(p) = {}
  BY DEF Create, NextApp, Unique
<1>2. /\ apps'[a] = [status |-> "submitted", posting |-> p]
      /\ \A b \in AppId : b # a => apps'[b] = apps[b]
      /\ history'[a] = <<e>>
      /\ \A b \in AppId : b # a => history'[b] = history[b]
  BY DEF Create, NewApp, IInv, TypeOK
<1>3. Applied' = Applied \cup {a}
  BY <1>2 DEF Applied
<1>4. OnePerPosting'
  BY <1>1, <1>2, <1>3 DEF OnePerPosting, AppliedTo, IInv, Applied
<1>5. <<e>> # <<>> /\ Head(<<e>>) = e /\ Last(<<e>>) = e /\ \A i \in DOMAIN <<e>> : <<e>>[i] = e
  BY DEF Last
<1>6. \A b \in Applied : b # a /\ b \in AppId
  BY <1>1 DEF Applied
<1> HIDE DEF p, e
<1>7. e.from = "none" /\ e.to = "submitted" /\ e = [from |-> "none", to |-> "submitted"]
  BY DEF e
<1>8. HistoryAccounts'
  BY <1>2, <1>3, <1>5, <1>6, <1>7 DEF HistoryAccounts, IInv
<1> QED
  BY <1>4, <1>8

\* A saved status is the one its entry names.
LEMMA SaveKeeps ==
  ASSUME IInv, NEW r \in Request, SaveStatus(r)
  PROVE  OnePerPosting' /\ HistoryAccounts'
<1>1. PICK a \in Applied, e \in Entry :
        /\ a = reqs[r].app
        /\ e = [from |-> reqs[r].seen, to |-> reqs[r].target]
  <2>1. reqs[r].app \in Applied /\ reqs[r].target \in Stages /\ reqs[r].seen \in Stages \cup {"none"}
    BY DEF SaveStatus, IInv, Loaded, Decided, TypeOK, RequestRow
  <2> QED
    BY <2>1 DEF Entry
<1>2. e.from # e.to
  BY <1>1 DEF SaveStatus, IInv, Decided, MayUpdate, MayWithdraw
<1>3. a \in AppId /\ e.to \in Stages
  BY DEF Applied, Entry
<1>4. /\ apps'[a].status = e.to /\ apps'[a].posting = apps[a].posting
      /\ \A b \in AppId : b # a => apps'[b] = apps[b]
  BY <1>1, <1>3 DEF SaveStatus, IInv, TypeOK, Row
<1>5. /\ history'[a] = Append(history[a], e)
      /\ \A b \in AppId : b # a => history'[b] = history[b]
  BY <1>1, <1>3 DEF SaveStatus, IInv, TypeOK
<1>6. Applied' = Applied
  BY <1>3, <1>4 DEF Applied, Stages
<1>7. OnePerPosting'
  BY <1>4, <1>6 DEF OnePerPosting, AppliedTo, IInv, Applied
<1>8. history[a] \in Seq(Entry) /\ history[a] # <<>>
  BY <1>3 DEF IInv, TypeOK, HistoryAccounts
<1>9. /\ history'[a] # <<>>
      /\ Head(history'[a]) = Head(history[a])
      /\ Last(history'[a]) = e
      /\ \A i \in DOMAIN history'[a] :
           (i \in DOMAIN history[a] /\ history'[a][i] = history[a][i]) \/ history'[a][i] = e
  BY <1>5, <1>8, Appended
<1>10. \A i \in DOMAIN history'[a] : history'[a][i].from # history'[a][i].to
  BY <1>2, <1>9 DEF IInv, HistoryAccounts
<1>11. \A b \in Applied : b \in AppId
  BY DEF Applied
<1>12. Head(history[a]) = [from |-> "none", to |-> "submitted"]
  BY DEF IInv, HistoryAccounts
<1>13. Last(history'[a]).to = apps'[a].status
  BY <1>4, <1>9
<1>14. ASSUME NEW b \in Applied, b # a
       PROVE  /\ history'[b] # <<>>
              /\ Head(history'[b]) = [from |-> "none", to |-> "submitted"]
              /\ Last(history'[b]).to = apps'[b].status
              /\ \A i \in DOMAIN history'[b] : history'[b][i].from # history'[b][i].to
  <2>1. history'[b] = history[b] /\ apps'[b] = apps[b]
    BY <1>4, <1>5, <1>11, <1>14
  <2> QED
    BY <2>1 DEF IInv, HistoryAccounts
<1>15. HistoryAccounts'
  BY <1>6, <1>9, <1>10, <1>12, <1>13, <1>14 DEF HistoryAccounts
<1> QED
  BY <1>7, <1>15

-----------------------------------------------------------------------------
(* The theorems *)

\* The invariant holds in the first state.
LEMMA InitIInv == Init => IInv
<1> SUFFICES ASSUME Init PROVE IInv
  OBVIOUS
<1>1. \A a \in AppId : apps[a].status = "none"
  BY DEF Init
<1>2. \A r \in Request : reqs[r].pc = "idle"
  BY DEF Init
<1>3. Applied = {}
  BY <1>1 DEF Applied
<1> QED
  BY <1>2, <1>3, InitTypeOK DEF IInv, Loaded, Decided, Submits, OnePerPosting, HistoryAccounts, AppliedTo

\* Every step keeps the invariant.
LEMMA NextIInv == IInv /\ [Next]_vars => IInv'
<1> SUFFICES ASSUME IInv, [Next]_vars PROVE IInv'
  OBVIOUS
<1>1. TypeOK'
  BY NextTypeOK DEF IInv
<1>2. Loaded' /\ Decided' /\ Submits'
  BY NextKnown DEF IInv, Known
<1>3. OnePerPosting' /\ HistoryAccounts'
  BY NextKinds, ReadsKeep, CreateKeeps, SaveKeeps DEF IInv, Known
<1> QED
  BY <1>1, <1>2, <1>3 DEF IInv

\* The invariant holds throughout.
THEOREM Invariance == Spec => []IInv
  BY InitIInv, NextIInv, PTL DEF Spec

\* The tables and the requests keep their types.
THEOREM TypeCorrect == Spec => []TypeOK
<1>1. IInv => TypeOK
  BY DEF IInv
<1> QED
  BY Invariance, <1>1, PTL

\* A candidate has at most one application per posting.
THEOREM NoDuplicates == Spec => []OnePerPosting
<1>1. IInv => OnePerPosting
  BY DEF IInv
<1> QED
  BY Invariance, <1>1, PTL

\* The audit trail accounts for the status of every application.
THEOREM TrailsAccount == Spec => []HistoryAccounts
<1>1. IInv => HistoryAccounts
  BY DEF IInv
<1> QED
  BY Invariance, <1>1, PTL

\* The rules on withdrawn and decided applications are broken by overlapping
\* requests only.
THEOREM OnlyRacesBreakRules == Spec => RulesBrokenOnlyByRaces
<1>1. IInv /\ [Next]_vars =>
        [\A r \in Request :
           LET status == apps[reqs[r].app].status IN
           (reqs[r].pc \in {"save", "withdraw"} /\ reqs'[r] # reqs[r] /\ apps' # apps)
             => \/ Stale(r)
                \/ reqs[r].pc = "save" /\ status # "withdrawn"
                \/ reqs[r].pc = "withdraw" /\ status \notin {"withdrawn", "offer", "rejected"}]_vars
  BY DEF IInv, Decided, Stale, MayUpdate, MayWithdraw
<1> QED
  BY Invariance, <1>1, PTL DEF Spec, RulesBrokenOnlyByRaces

=============================================================================
