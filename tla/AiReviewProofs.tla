--------------------------- MODULE AiReviewProofs ---------------------------
(***************************************************************************)
(* Proofs about AiReview, for any number of reviewers, items and failures. *)
(*                                                                         *)
(* Two reviewers may decide one item, so nothing here says that an item is *)
(* decided once.  What holds is that the trail, the status, the system log *)
(* and the row tell one story; the invariant adds what a reviewer at each  *)
(* position has written.                                                   *)
(***************************************************************************)
EXTENDS AiReview, TLAPS

\* What the position of a request says about the trail and the system log.
PlaceOK(r) ==
  /\ reqs[r].pc \in {"decide", "log", "reload", "ok"} =>
       reqs[r].item \in Item /\ reqs[r].decision \in Decisions
  /\ reqs[r].pc \in {"idle", "decide", "refused"} => \A i \in Item : r \notin Trail(i)
  /\ reqs[r].pc \in {"idle", "decide", "refused", "log"} => r \notin logged
  /\ reqs[r].pc \in {"log", "reload", "ok"} => r \in Trail(reqs[r].item)
  /\ reqs[r].pc \in {"reload", "ok"} => r \in logged

Places == \A r \in Request : PlaceOK(r)

IInv == TypeOK /\ Places /\ TrailAccounts /\ LogMatchesTrail /\ PublishedAsDecided

-----------------------------------------------------------------------------
(* Requests and trails *)

PCs == {"idle", "decide", "log", "reload", "ok", "refused", "failed"}
ReqRow == [pc : PCs, item : Item \cup {NoItem}, decision : Decisions \cup {"none"}, usable : BOOLEAN]

\* Requests other than r are as they were.
Others(r) == \A q \in Request : q # r => reqs'[q] = reqs[q]

\* A request that moves carries what it carried.
LEMMA Moved ==
  ASSUME TypeOK, NEW r \in Request, NEW pc \in PCs, Goto(r, pc)
  PROVE  /\ reqs' \in [Request -> ReqRow] /\ Others(r)
         /\ reqs'[r].pc = pc /\ reqs'[r].item = reqs[r].item
         /\ reqs'[r].decision = reqs[r].decision /\ reqs'[r].usable = reqs[r].usable
<1>1. reqs \in [Request -> ReqRow] /\ reqs[r] \in ReqRow
  BY DEF TypeOK, ReqRow, PCs
<1>2. [reqs[r] EXCEPT !.pc = pc] \in ReqRow
  BY <1>1 DEF ReqRow
<1>3. reqs' = [reqs EXCEPT ![r] = [reqs[r] EXCEPT !.pc = pc]]
  BY DEF Goto
<1>4. reqs' \in [Request -> ReqRow] /\ Others(r) /\ reqs'[r] = [reqs[r] EXCEPT !.pc = pc]
  BY <1>1, <1>2, <1>3 DEF Others
<1> QED
  BY <1>1, <1>4 DEF ReqRow

\* The trails are sequences of entries.
LEMMA TrailsTyped ==
  ASSUME TypeOK, NEW i \in Item
  PROVE  /\ audits[i] \in Seq(AuditEntry) /\ Len(audits[i]) \in Nat
         /\ DOMAIN audits[i] = 1..Len(audits[i])
         /\ \A n \in DOMAIN audits[i] : audits[i][n] \in AuditEntry /\ audits[i][n].by \in Request
         /\ Trail(i) \subseteq Request
<1>1. audits[i] \in Seq(AuditEntry)
  BY DEF TypeOK
<1>2. Len(audits[i]) \in Nat /\ DOMAIN audits[i] = 1..Len(audits[i])
  BY <1>1
<1>3. \A n \in DOMAIN audits[i] : audits[i][n] \in AuditEntry
  BY <1>1, <1>2
<1>4. \A n \in DOMAIN audits[i] : audits[i][n].by \in Request
  BY <1>3 DEF AuditEntry
<1> QED
  BY <1>1, <1>2, <1>3, <1>4 DEF Trail

\* A step that writes neither items nor trails and rewrites no request that is
\* in a trail keeps what the trails account for.
NoDecision ==
  /\ UNCHANGED <<status, audits>>
  /\ \A q \in Request : (\E i \in Item : q \in Trail(i)) =>
       reqs'[q].item = reqs[q].item /\ reqs'[q].decision = reqs[q].decision
                                    /\ reqs'[q].usable = reqs[q].usable

\* Such a step keeps what the trails account for.
LEMMA NoDecisionKeeps ==
  ASSUME TypeOK, TrailAccounts, NoDecision
  PROVE  TrailAccounts'
<1>1. \A i \in Item : \A n \in DOMAIN audits[i] :
        /\ audits[i][n].by \in Request /\ audits[i][n].by \in Trail(i)
  BY TrailsTyped DEF Trail
<1>2. \A i \in Item : \A n \in DOMAIN audits[i] :
        LET by == audits[i][n].by IN
        reqs'[by].item = reqs[by].item /\ reqs'[by].decision = reqs[by].decision
  BY <1>1 DEF NoDecision
<1> QED
  BY <1>2 DEF NoDecision, TrailAccounts

\* The row of an item stays what its only decision made of it.
LEMMA RowsRest ==
  ASSUME TypeOK, PublishedAsDecided, NoDecision, faults \in Nat, faults' \in Nat, faults <= faults',
         \A i \in Item : rows'[i] \in {"missing", rows[i]}
  PROVE  PublishedAsDecided'
<1> SUFFICES ASSUME NEW i \in Item
    PROVE /\ audits'[i] = <<>> => rows'[i] \in {"missing", "proposed"}
          /\ EntityType[i] # "cv_extraction" /\ Len(audits'[i]) = 1 /\ faults' = 0
               => \/ rows'[i] = "missing"
                  \/ rows'[i] = status'[i] /\ status'[i] # "rejected"
                  \/ rows'[i] = "proposed" /\ status'[i] = "rejected"
                  \/ rows'[i] = "proposed" /\ ~reqs'[audits'[i][1].by].usable
  BY DEF PublishedAsDecided
<1>1. /\ audits[i] = <<>> => rows[i] \in {"missing", "proposed"}
      /\ EntityType[i] # "cv_extraction" /\ Len(audits[i]) = 1 /\ faults = 0
           => \/ rows[i] = "missing"
              \/ rows[i] = status[i] /\ status[i] # "rejected"
              \/ rows[i] = "proposed" /\ status[i] = "rejected"
              \/ rows[i] = "proposed" /\ ~reqs[audits[i][1].by].usable
  BY DEF PublishedAsDecided
<1>2. Len(audits[i]) = 1 => reqs'[audits[i][1].by].usable = reqs[audits[i][1].by].usable
  <2> HAVE Len(audits[i]) = 1
  <2>1. 1 \in DOMAIN audits[i] /\ audits[i][1].by \in Request
    BY TrailsTyped
  <2>2. audits[i][1].by \in Trail(i)
    BY <2>1 DEF Trail
  <2> QED
    BY <2>1, <2>2 DEF NoDecision
<1>3. rows'[i] \in {"missing", rows[i]} /\ status' = status /\ audits' = audits /\ (faults' = 0 => faults = 0)
  BY DEF NoDecision
<1> QED
  BY <1>1, <1>2, <1>3

-----------------------------------------------------------------------------
(* The first state *)

\* The first state satisfies the invariant.
LEMMA InitIInv == Init => IInv
<1> SUFFICES ASSUME Init PROVE IInv
  OBVIOUS
<1>1. \A i \in Item : audits[i] = <<>> /\ status[i] = "pending" /\ rows[i] = "proposed" /\ Trail(i) = {}
  BY DEF Init, Trail
<1>2. TypeOK
  BY AiReviewAssumption DEF Init, TypeOK, Decisions
<1>3. Places /\ LogMatchesTrail
  BY <1>1 DEF Init, Places, PlaceOK, LogMatchesTrail
<1>4. TrailAccounts
  BY <1>1 DEF TrailAccounts
<1>5. PublishedAsDecided
  <2>1. \A i \in Item : Len(audits[i]) = 0
    BY <1>1
  <2> QED
    BY <1>1, <2>1 DEF PublishedAsDecided
<1> QED
  BY <1>2, <1>3, <1>4, <1>5 DEF IInv

-----------------------------------------------------------------------------
(* The steps *)

\* Where only one request moves and no trail changes, it is enough to look at that one.
LEMMA PlacesRest ==
  ASSUME Places, LogMatchesTrail, UNCHANGED audits, NEW r \in Request, Others(r), PlaceOK(r)',
         logged \subseteq logged', logged' \subseteq logged \cup {r},
         LET decided == \E i \in Item : r \in Trail(i) IN
         (reqs'[r].pc = "ok" => decided /\ r \in logged') /\ (r \in logged' => decided)
           /\ (decided /\ r \notin logged' => reqs'[r].pc \in {"log", "failed"})
  PROVE  Places' /\ LogMatchesTrail'
<1>1. \A i \in Item : Trail(i)' = Trail(i)
  BY DEF Trail
<1>2. Places'
  <2> SUFFICES ASSUME NEW q \in Request, q # r PROVE PlaceOK(q)'
    BY DEF Places
  <2>1. reqs'[q] = reqs[q] /\ PlaceOK(q) /\ (q \in logged' <=> q \in logged)
    BY DEF Others, Places
  <2> QED
    BY <1>1, <2>1 DEF PlaceOK
<1>3. LogMatchesTrail'
  BY <1>1 DEF Others, LogMatchesTrail
<1> QED
  BY <1>2, <1>3

\* The row of an item is deleted.
LEMMA DeleteRowKeeps ==
  ASSUME IInv, NEW i \in Item, DeleteRow(i)
  PROVE  IInv'
<1>1. UNCHANGED <<status, audits, logged, reqs, faults>> /\ rows' = [rows EXCEPT ![i] = "missing"]
  BY DEF DeleteRow
<1>2. TypeOK'
  BY <1>1 DEF IInv, TypeOK
<1>3. Places' /\ LogMatchesTrail' /\ TrailAccounts'
  BY <1>1 DEF IInv, Places, PlaceOK, LogMatchesTrail, TrailAccounts, Trail
<1>4. PublishedAsDecided'
  <2>1. NoDecision
    BY <1>1 DEF NoDecision
  <2>2. \A j \in Item : rows'[j] \in {"missing", rows[j]}
    BY <1>1 DEF IInv, TypeOK
  <2>3. faults \in Nat /\ faults' = faults
    BY <1>1, AiReviewAssumption DEF IInv, TypeOK
  <2> QED
    BY <2>1, <2>2, <2>3, RowsRest DEF IInv
<1> QED
  BY <1>2, <1>3, <1>4 DEF IInv

\* An item is read.
LEMMA LoadKeeps ==
  ASSUME IInv, NEW r \in Request, NEW i \in Item, NEW d \in Decisions, NEW usable \in BOOLEAN,
         Load(r, i, d, usable)
  PROVE  IInv'
<1> DEFINE pc == IF status[i] = "pending" THEN "decide" ELSE "refused"
<1>1. /\ reqs[r].pc = "idle" /\ UNCHANGED <<status, audits, rows, logged, faults>>
      /\ reqs' = [reqs EXCEPT ![r] = [pc |-> pc, item |-> i, decision |-> d, usable |-> usable]]
  BY DEF Load
<1>2. pc \in {"decide", "refused"}
  OBVIOUS
<1> HIDE DEF pc
<1>3. reqs' \in [Request -> ReqRow] /\ Others(r) /\ reqs'[r].pc = pc /\ reqs'[r].item = i /\ reqs'[r].decision = d
  <2>1. [pc |-> pc, item |-> i, decision |-> d, usable |-> usable] \in ReqRow
    BY <1>2 DEF ReqRow, PCs
  <2> QED
    BY <1>1, <2>1 DEF IInv, TypeOK, ReqRow, PCs, Others
<1>4. PlaceOK(r) /\ \A j \in Item : r \notin Trail(j)
  BY <1>1 DEF IInv, Places, PlaceOK
<1>5. TypeOK'
  BY <1>1, <1>3 DEF IInv, TypeOK, ReqRow, PCs
<1>6. Places' /\ LogMatchesTrail'
  <2>1. PlaceOK(r)'
    BY <1>1, <1>2, <1>3, <1>4 DEF PlaceOK, Trail
  <2> QED
    BY <1>1, <1>2, <1>3, <1>4, <2>1, PlacesRest DEF IInv, PlaceOK
<1>7. NoDecision
  BY <1>1, <1>3, <1>4 DEF NoDecision, Others
<1>8. PublishedAsDecided'
  <2>1. faults \in Nat /\ faults' = faults /\ rows' = rows
    BY <1>1, AiReviewAssumption DEF IInv, TypeOK
  <2> QED
    BY <1>7, <2>1, RowsRest DEF IInv
<1> QED
  BY <1>5, <1>6, <1>7, <1>8, NoDecisionKeeps DEF IInv

\* The system log is written.
LEMMA LogActionKeeps ==
  ASSUME IInv, NEW r \in Request, LogAction(r)
  PROVE  IInv'
<1>1. /\ reqs[r].pc = "log" /\ logged' = logged \cup {r} /\ Goto(r, "reload")
      /\ UNCHANGED <<status, audits, rows, faults>>
  BY DEF LogAction
<1>2. /\ reqs' \in [Request -> ReqRow] /\ Others(r)
      /\ reqs'[r].pc = "reload" /\ reqs'[r].item = reqs[r].item
      /\ reqs'[r].decision = reqs[r].decision /\ reqs'[r].usable = reqs[r].usable
  BY <1>1, Moved DEF IInv, PCs
<1>3. PlaceOK(r) /\ reqs[r].item \in Item /\ r \in Trail(reqs[r].item)
  BY <1>1 DEF IInv, Places, PlaceOK
<1>4. TypeOK'
  BY <1>1, <1>2 DEF IInv, TypeOK, ReqRow, PCs
<1>5. Places' /\ LogMatchesTrail'
  <2>1. PlaceOK(r)'
    BY <1>1, <1>2, <1>3 DEF PlaceOK, Trail
  <2> QED
    BY <1>1, <1>2, <1>3, <2>1, PlacesRest DEF IInv
<1>6. NoDecision
  BY <1>1, <1>2 DEF NoDecision, Others
<1>7. PublishedAsDecided'
  <2>1. faults \in Nat /\ faults' = faults /\ rows' = rows
    BY <1>1, AiReviewAssumption DEF IInv, TypeOK
  <2> QED
    BY <1>6, <2>1, RowsRest DEF IInv
<1> QED
  BY <1>4, <1>5, <1>6, <1>7, NoDecisionKeeps DEF IInv

\* The item is read again for the answer.
LEMMA ReloadKeeps ==
  ASSUME IInv, NEW r \in Request, Reload(r)
  PROVE  IInv'
<1>1. reqs[r].pc = "reload" /\ Goto(r, "ok") /\ UNCHANGED <<status, audits, rows, logged, faults>>
  BY DEF Reload
<1>2. /\ reqs' \in [Request -> ReqRow] /\ Others(r)
      /\ reqs'[r].pc = "ok" /\ reqs'[r].item = reqs[r].item
      /\ reqs'[r].decision = reqs[r].decision /\ reqs'[r].usable = reqs[r].usable
  BY <1>1, Moved DEF IInv, PCs
<1>3. PlaceOK(r) /\ reqs[r].item \in Item /\ r \in Trail(reqs[r].item) /\ r \in logged
  BY <1>1 DEF IInv, Places, PlaceOK
<1>4. TypeOK'
  BY <1>1, <1>2 DEF IInv, TypeOK, ReqRow, PCs
<1>5. Places' /\ LogMatchesTrail'
  <2>1. PlaceOK(r)'
    BY <1>1, <1>2, <1>3 DEF PlaceOK, Trail
  <2> QED
    BY <1>1, <1>2, <1>3, <2>1, PlacesRest DEF IInv
<1>6. NoDecision
  BY <1>1, <1>2 DEF NoDecision, Others
<1>7. PublishedAsDecided'
  <2>1. faults \in Nat /\ faults' = faults /\ rows' = rows
    BY <1>1, AiReviewAssumption DEF IInv, TypeOK
  <2> QED
    BY <1>6, <2>1, RowsRest DEF IInv
<1> QED
  BY <1>4, <1>5, <1>6, <1>7, NoDecisionKeeps DEF IInv

\* A request fails.
LEMMA FailsKeeps ==
  ASSUME IInv, NEW r \in Request, Fails(r)
  PROVE  IInv'
<1>1. /\ reqs[r].pc \in {"decide", "log", "reload"} /\ Goto(r, "failed") /\ Fault
      /\ UNCHANGED <<status, audits, rows, logged>>
  BY DEF Fails
<1>2. /\ reqs' \in [Request -> ReqRow] /\ Others(r)
      /\ reqs'[r].pc = "failed" /\ reqs'[r].item = reqs[r].item
      /\ reqs'[r].decision = reqs[r].decision /\ reqs'[r].usable = reqs[r].usable
  BY <1>1, Moved DEF IInv, PCs
<1>3. faults \in Nat /\ faults' \in Nat /\ faults <= faults' /\ faults' \in 0..MaxFaults
  BY <1>1, AiReviewAssumption DEF IInv, TypeOK, Fault
<1>4. TypeOK'
  BY <1>1, <1>2, <1>3 DEF IInv, TypeOK, ReqRow, PCs
<1>5. Places' /\ LogMatchesTrail'
  <2>1. PlaceOK(r)'
    BY <1>2 DEF PlaceOK
  <2>2. r \in logged => \E i \in Item : r \in Trail(i)
    BY DEF IInv, LogMatchesTrail
  <2> QED
    BY <1>1, <1>2, <2>1, <2>2, PlacesRest DEF IInv
<1>6. NoDecision
  BY <1>1, <1>2 DEF NoDecision, Others
<1>7. PublishedAsDecided'
  BY <1>1, <1>3, <1>6, RowsRest DEF IInv
<1> QED
  BY <1>4, <1>5, <1>6, <1>7, NoDecisionKeeps DEF IInv

\* An item is decided.
LEMMA DecideKeeps ==
  ASSUME IInv, NEW r \in Request, Decide(r)
  PROVE  IInv'
<1>0. /\ reqs[r].item \in Item /\ reqs[r].decision \in Decisions
      /\ reqs[r].pc = "decide" /\ r \notin logged /\ \A j \in Item : r \notin Trail(j)
  BY DEF Decide, IInv, Places, PlaceOK
<1> PICK i \in Item, d \in Decisions : i = reqs[r].item /\ d = reqs[r].decision
  BY <1>0
<1> DEFINE e == [by |-> r, from |-> "pending", to |-> d]
<1>1. /\ i \in Item /\ d \in Decisions /\ reqs[r].pc = "decide" /\ r \notin logged
      /\ \A j \in Item : r \notin Trail(j)
  BY <1>0
<1>2. /\ status' = [status EXCEPT ![i] = d] /\ audits' = [audits EXCEPT ![i] = Append(audits[i], e)]
      /\ logged' = logged /\ Goto(r, "log")
  BY DEF Decide, Entry
<1>3. \/ Applies(i, d, reqs[r].usable) /\ rows' = Publish(i, d) /\ faults' = faults
      \/ Applies(i, d, reqs[r].usable) /\ rows' = rows /\ Fault
      \/ ~Applies(i, d, reqs[r].usable) /\ rows' = rows /\ faults' = faults
  BY DEF Decide
<1>4. /\ reqs' \in [Request -> ReqRow] /\ Others(r)
      /\ reqs'[r].pc = "log" /\ reqs'[r].item = i
      /\ reqs'[r].decision = d /\ reqs'[r].usable = reqs[r].usable
  BY <1>2, Moved DEF IInv, PCs
<1>5. e \in AuditEntry /\ e.by = r /\ e.to = d
  BY <1>1 DEF AuditEntry
<1> HIDE DEF e
<1>6. /\ status'[i] = d /\ status' \in [Item -> Decisions \cup {"pending"}]
      /\ \A j \in Item : j # i => status'[j] = status[j] /\ audits'[j] = audits[j]
      /\ audits' \in [Item -> Seq(AuditEntry)]
  <2>1. status \in [Item -> Decisions \cup {"pending"}] /\ audits \in [Item -> Seq(AuditEntry)]
    BY DEF IInv, TypeOK
  <2>2. Append(audits[i], e) \in Seq(AuditEntry)
    BY <1>1, <1>5, <2>1
  <2> QED
    BY <1>1, <1>2, <2>1, <2>2
<1>7. /\ Len(audits[i]) \in Nat /\ Len(audits'[i]) = Len(audits[i]) + 1
      /\ DOMAIN audits[i] = 1..Len(audits[i]) /\ DOMAIN audits'[i] = 1..(Len(audits[i]) + 1)
      /\ audits'[i][Len(audits[i]) + 1] = e
      /\ \A n \in 1..Len(audits[i]) : audits'[i][n] = audits[i][n]
      /\ audits'[i] # <<>>
  <2>1. audits[i] \in Seq(AuditEntry) /\ audits'[i] = Append(audits[i], e)
    BY <1>1, <1>2 DEF IInv, TypeOK
  <2> QED
    BY <1>5, <2>1, SMTT(20)
<1> DEFINE L == Len(audits[i]) + 1
<1>16. /\ L \in DOMAIN audits'[i] /\ L \notin DOMAIN audits[i] /\ audits'[i][L] = e
       /\ \A n \in DOMAIN audits'[i] : n = L \/ n \in DOMAIN audits[i]
       /\ \A n \in DOMAIN audits[i] : n \in DOMAIN audits'[i] /\ audits'[i][n] = audits[i][n]
  <2>1. Len(audits[i]) \in Nat /\ DOMAIN audits'[i] = 1..L /\ DOMAIN audits[i] = 1..(L - 1) /\ L \in Nat \ {0}
    BY <1>7
  <2>2. audits'[i][L] = e /\ \A n \in DOMAIN audits[i] : audits'[i][n] = audits[i][n]
    BY <1>7
  <2> HIDE DEF L
  <2>3. /\ L \in 1..L /\ L \notin 1..(L - 1) /\ \A n \in 1..L : n = L \/ n \in 1..(L - 1)
        /\ \A n \in 1..(L - 1) : n \in 1..L
    BY <2>1
  <2> QED
    BY <2>1, <2>2, <2>3
<1> HIDE DEF L
<1>8. /\ Trail(i)' = Trail(i) \cup {r}
      /\ \A j \in Item : j # i => Trail(j)' = Trail(j)
  <2>1. ASSUME NEW q, q \in Trail(i)' PROVE q \in Trail(i) \cup {r}
    <3>1. PICK n \in DOMAIN audits'[i] : q = audits'[i][n].by
      BY <2>1 DEF Trail
    <3> QED
      BY <1>5, <1>16, <3>1 DEF Trail
  <2>2. ASSUME NEW q, q \in Trail(i) \cup {r} PROVE q \in Trail(i)'
    BY <1>5, <1>16, <2>2 DEF Trail
  <2>3. Trail(i)' = Trail(i) \cup {r}
    BY <2>1, <2>2
  <2>4. \A j \in Item : j # i => Trail(j)' = Trail(j)
    BY <1>6 DEF Trail
  <2> QED
    BY <2>3, <2>4
<1>9. faults \in Nat /\ faults' \in 0..MaxFaults /\ (faults' = 0 => faults = 0)
  BY <1>3, AiReviewAssumption DEF IInv, TypeOK, Fault
<1>10. /\ rows \in [Item -> {"missing", "proposed", "approved", "corrected"}]
       /\ Applies(i, d, reqs[r].usable) => d \in {"approved", "corrected"}
       /\ \A j \in Item : j # i => rows'[j] = rows[j]
       /\ rows' \in [Item -> {"missing", "proposed", "approved", "corrected"}]
  <2>1. rows \in [Item -> {"missing", "proposed", "approved", "corrected"}]
    BY DEF IInv, TypeOK
  <2>2. Applies(i, d, reqs[r].usable) => d \in {"approved", "corrected"}
    BY <1>1 DEF Applies, Changes, Decisions
  <2> QED
    BY <1>1, <1>3, <2>1, <2>2 DEF Publish
<1>11. TypeOK'
  BY <1>2, <1>4, <1>6, <1>9, <1>10 DEF IInv, TypeOK, ReqRow, PCs
<1>12. Places'
  <2> SUFFICES ASSUME NEW q \in Request PROVE PlaceOK(q)'
    BY DEF Places
  <2>1. CASE q = r
    BY <1>1, <1>2, <1>4, <1>8, <2>1 DEF PlaceOK
  <2>2. CASE q # r
    <3>1. reqs'[q] = reqs[q] /\ PlaceOK(q)
      BY <1>4, <2>2 DEF Others, IInv, Places
    <3>2. \A j \in Item : q \in Trail(j)' <=> q \in Trail(j)
      BY <1>8, <2>2
    <3> QED
      BY <1>2, <3>1, <3>2 DEF PlaceOK
  <2> QED
    BY <2>1, <2>2
<1>13. LogMatchesTrail'
  <2>1. \A q \in Request : q # r => ((\E j \in Item : q \in Trail(j)') <=> (\E j \in Item : q \in Trail(j)))
    BY <1>8
  <2> QED
    BY <1>1, <1>2, <1>4, <2>1 DEF IInv, LogMatchesTrail, Others
<1>14. TrailAccounts'
  <2> SUFFICES ASSUME NEW j \in Item
      PROVE /\ status'[j] = "pending" <=> audits'[j] = <<>>
            /\ audits'[j] # <<>> => Last(audits'[j]).to = status'[j]
            /\ \A m, n \in DOMAIN audits'[j] : audits'[j][m].by = audits'[j][n].by => m = n
            /\ \A n \in DOMAIN audits'[j] :
                 reqs'[audits'[j][n].by].item = j /\ reqs'[audits'[j][n].by].decision = audits'[j][n].to
    BY DEF TrailAccounts
  <2>1. \A n \in DOMAIN audits[j] :
          /\ audits[j][n].by \in Request /\ audits[j][n].by # r
          /\ reqs'[audits[j][n].by] = reqs[audits[j][n].by]
    <3> TAKE n \in DOMAIN audits[j]
    <3>1. audits[j][n].by \in Request /\ audits[j][n].by \in Trail(j)
      BY TrailsTyped DEF Trail, IInv
    <3> QED
      BY <1>1, <1>4, <3>1 DEF Others
  <2>2. /\ status[j] = "pending" <=> audits[j] = <<>>
        /\ audits[j] # <<>> => Last(audits[j]).to = status[j]
        /\ \A m, n \in DOMAIN audits[j] : audits[j][m].by = audits[j][n].by => m = n
        /\ \A n \in DOMAIN audits[j] :
             reqs[audits[j][n].by].item = j /\ reqs[audits[j][n].by].decision = audits[j][n].to
    BY DEF IInv, TrailAccounts
  <2>3. CASE j # i
    <3>1. status'[j] = status[j] /\ audits'[j] = audits[j]
      BY <1>6, <2>3
    <3>2. \A n \in DOMAIN audits'[j] :
            reqs'[audits'[j][n].by].item = j /\ reqs'[audits'[j][n].by].decision = audits'[j][n].to
      BY <2>1, <2>2, <3>1
    <3> QED
      BY <2>2, <3>1, <3>2
  <2>4. CASE j = i
    <3>1. status'[i] # "pending" /\ audits'[i] # <<>>
      BY <1>1, <1>6, <1>7 DEF Decisions
    <3>2. Last(audits'[i]).to = status'[i]
      BY <1>5, <1>6, <1>7 DEF Last
    <3>3. \A m, n \in DOMAIN audits'[i] : audits'[i][m].by = audits'[i][n].by => m = n
      <4> TAKE m, n \in DOMAIN audits'[i]
      <4> HAVE audits'[i][m].by = audits'[i][n].by
      <4>1. CASE m \in DOMAIN audits[i] /\ n \in DOMAIN audits[i]
        BY <1>16, <2>2, <2>4, <4>1, SMTT(20)
      <4>2. CASE m = L \/ n = L
        BY <1>5, <1>16, <2>1, <2>4, <4>2
      <4> QED
        BY <1>16, <4>1, <4>2
    <3>4. \A n \in DOMAIN audits'[i] :
            reqs'[audits'[i][n].by].item = i /\ reqs'[audits'[i][n].by].decision = audits'[i][n].to
      BY <1>4, <1>5, <1>16, <2>1, <2>2, <2>4, SMTT(20)
    <3> QED
      BY <2>4, <3>1, <3>2, <3>3, <3>4
  <2> QED
    BY <2>3, <2>4
<1>15. PublishedAsDecided'
  <2> SUFFICES ASSUME NEW j \in Item
      PROVE /\ audits'[j] = <<>> => rows'[j] \in {"missing", "proposed"}
            /\ EntityType[j] # "cv_extraction" /\ Len(audits'[j]) = 1 /\ faults' = 0
                 => \/ rows'[j] = "missing"
                    \/ rows'[j] = status'[j] /\ status'[j] # "rejected"
                    \/ rows'[j] = "proposed" /\ status'[j] = "rejected"
                    \/ rows'[j] = "proposed" /\ ~reqs'[audits'[j][1].by].usable
    BY DEF PublishedAsDecided
  <2>1. /\ audits[j] = <<>> => rows[j] \in {"missing", "proposed"}
        /\ EntityType[j] # "cv_extraction" /\ Len(audits[j]) = 1 /\ faults = 0
             => \/ rows[j] = "missing"
                \/ rows[j] = status[j] /\ status[j] # "rejected"
                \/ rows[j] = "proposed" /\ status[j] = "rejected"
                \/ rows[j] = "proposed" /\ ~reqs[audits[j][1].by].usable
    BY DEF IInv, PublishedAsDecided
  <2>2. CASE j # i
    <3>1. Len(audits[j]) = 1 => reqs'[audits[j][1].by] = reqs[audits[j][1].by]
      <4> HAVE Len(audits[j]) = 1
      <4>1. 1 \in DOMAIN audits[j] /\ audits[j][1].by \in Request
        BY TrailsTyped DEF IInv
      <4>2. audits[j][1].by \in Trail(j)
        BY <4>1 DEF Trail
      <4> QED
        BY <1>1, <1>4, <4>1, <4>2 DEF Others
    <3> QED
      BY <1>6, <1>9, <1>10, <2>1, <2>2, <3>1
  <2>3. CASE j = i
    <3> SUFFICES ASSUME EntityType[i] # "cv_extraction", Len(audits'[i]) = 1, faults' = 0
                 PROVE  \/ rows'[i] = "missing"
                        \/ rows'[i] = status'[i] /\ status'[i] # "rejected"
                        \/ rows'[i] = "proposed" /\ status'[i] = "rejected"
                        \/ rows'[i] = "proposed" /\ ~reqs'[audits'[i][1].by].usable
      BY <1>7, <2>3
    <3>1. Len(audits[i]) = 0 /\ audits'[i][1] = e
      BY <1>7
    <3>2. audits[i] = <<>> /\ rows[i] \in {"missing", "proposed"}
      BY <1>1, <2>1, <2>3, <3>1 DEF IInv, TypeOK
    <3>3. reqs'[audits'[i][1].by].usable = reqs[r].usable
      BY <1>4, <1>5, <3>1
    <3>4. CASE Applies(i, d, reqs[r].usable)
      <4>1. rows' = Publish(i, d)
        BY <1>3, <1>9, <3>4 DEF Fault
      <4>2. rows'[i] = d
        BY <1>1, <1>10, <3>2, <4>1 DEF Publish
      <4> QED
        BY <1>6, <1>10, <3>4, <4>2
    <3>5. CASE ~Applies(i, d, reqs[r].usable)
      <4>1. rows' = rows
        BY <1>3, <3>5
      <4>2. rows[i] = "missing" \/ d = "rejected" \/ ~reqs[r].usable
        BY <3>5 DEF Applies, Changes, Storable
      <4> QED
        BY <1>6, <3>2, <3>3, <4>1, <4>2
    <3> QED
      BY <3>4, <3>5
  <2> QED
    BY <2>2, <2>3
<1> QED
  BY <1>11, <1>12, <1>13, <1>14, <1>15 DEF IInv

-----------------------------------------------------------------------------
(* The theorems *)

\* Every step keeps the invariant.
LEMMA NextIInv == IInv /\ [Next]_vars => IInv'
<1> SUFFICES ASSUME IInv, [Next]_vars PROVE IInv'
  OBVIOUS
<1>1. CASE UNCHANGED vars
  BY <1>1 DEF vars, IInv, TypeOK, Places, PlaceOK, TrailAccounts, LogMatchesTrail, PublishedAsDecided, Trail
<1> QED
  BY <1>1, DeleteRowKeeps, LoadKeeps, DecideKeeps, LogActionKeeps, ReloadKeeps, FailsKeeps DEF Next

\* The invariant holds in every behaviour.
LEMMA InvariantHolds == Spec => []IInv
  BY InitIInv, NextIInv, PTL DEF Spec

\* The items, their trails, their rows and the requests keep their types.
THEOREM TypeCorrect == Spec => []TypeOK
<1>1. IInv => TypeOK
  BY DEF IInv
<1> QED
  BY <1>1, InvariantHolds, PTL

\* However many reviewers overlap and fail, the trail of every item accounts for
\* its status and names each decision once, as it was sent.
THEOREM TrailsStayTrue == Spec => []TrailAccounts
<1>1. IInv => TrailAccounts
  BY DEF IInv
<1> QED
  BY <1>1, InvariantHolds, PTL

\* The system log holds no decision that was not committed, and lacks a committed
\* one only for a request that is not yet at the log or was answered with an error.
THEOREM LogsStayTrue == Spec => []LogMatchesTrail
<1>1. IInv => LogMatchesTrail
  BY DEF IInv
<1> QED
  BY <1>1, InvariantHolds, PTL

\* Without a failed call, the row of an item that was decided once is what that
\* decision says.
THEOREM OneDecisionIsPublished == Spec => []PublishedAsDecided
<1>1. IInv => PublishedAsDecided
  BY DEF IInv
<1> QED
  BY <1>1, InvariantHolds, PTL
=============================================================================
