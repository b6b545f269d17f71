--------------------------- MODULE CandidateProofs ---------------------------
(***************************************************************************)
(* Proofs about the services a candidate uses alone: Account, Interview    *)
(* and Feed, each for any number of requests, rows and failures.           *)
(*                                                                         *)
(* Account: that codes and tokens are accounted for is not inductive.  A   *)
(* request holds a code between finding and deleting it, so the invariant  *)
(* says what a request at each position knows, and who held a code when it *)
(* was used.                                                               *)
(*                                                                         *)
(* Interview: a request works on values it read earlier.  The invariant    *)
(* says what those are worth while the request is the only one under way,  *)
(* and that two requests under way have crossed.  The mean is a number     *)
(* because a fold of the scores is a table over the sets of answers, which *)
(* exists and holds numbers by counting up their cardinality.              *)
(*                                                                         *)
(* Feed: an answer is current because every stage is what it should be.    *)
(* The history kept of the events says for each posting what its last      *)
(* events say; of the rows that are alike exactly one is taken; sorting    *)
(* gives each row its place, one more than the number of rows before it,   *)
(* so that the pages hold every row once.  And no write removes or changes *)
(* an entry of the cache: that none is answered when it should not be      *)
(* rests on its key alone, since an entry holds what the feed of its key's *)
(* fields is, and the key of a request has the fields as they are now.     *)
(***************************************************************************)
EXTENDS Account, Interview, Feed, FiniteSetTheorems, SequenceTheorems, WellFoundedInduction, TLAPS

-----------------------------------------------------------------------------
(* One-time codes: the invariant *)

Holding == {"account", "save password", "drop"}

\* What the position of a request says about its operation, the account and its code.
PlaceOK(r) ==
  /\ auth[r].at \in {"idle", "find", "destroy"} => r \notin passed
  /\ auth[r].at \in {"find", "destroy"} => auth[r].op \in {"verifyEmail", "verifyReset"}
  /\ auth[r].at \in {"find", "destroy", "save"} => user.exists
  /\ auth[r].at \in {"create", "log", "clear", "issue"} \cup Holding => auth[r].op # "verifyEmail"
  /\ auth[r].at = "save" => auth[r].op = "verifyEmail" /\ r \in passed
  /\ auth[r].at \in {"retire", "grant"} => auth[r].op = "verifyReset" /\ r \in passed
  /\ auth[r].at = "destroy" => /\ auth[r].code \in 1..Len(sent)
                               /\ sent[auth[r].code].kind = KindOf(auth[r].op)

Places == (user.verified => user.exists) /\ \A r \in Request : PlaceOK(r)

\* A request about to store a code has deleted the older codes of its kind.
Cleared ==
  \A r \in Request :
    AuthAt(r, "issue") =>
      /\ auth[r].before <= Len(sent)
      /\ \A c \in codes : sent[c].kind = KindOf(auth[r].op) => c > auth[r].before

\* A code that was spent is gone, and who still holds it met those who spent it.
Spending ==
  /\ \A c \in CodeIds : /\ spent[c] # {} => c \in 1..Len(sent) /\ c \notin codes
                        /\ spent[c] \subseteq passed
  /\ \A r, q \in Request : r # q /\ AuthAt(r, "destroy") =>
       /\ AuthAt(q, "destroy") /\ auth[q].code = auth[r].code => {r, q} \in rivals
       /\ q \in spent[auth[r].code] => {r, q} \in rivals

\* A token belongs to the request that was granted it and has ended; it is there
\* until the request that used it has deleted it, and who holds it met the others.
Granted ==
  /\ \A t \in Request : t \in tokens \/ used[t] # {} => AuthAt(t, "ok") /\ auth[t].op = "verifyReset" /\ t \in passed
  /\ \A r \in Request : auth[r].at \in Holding =>
       auth[r].token \in Request /\ AuthAt(auth[r].token, "ok") /\ auth[auth[r].token].op = "verifyReset"
                                 /\ auth[r].token \in passed
  /\ \A t, q \in Request : q \in used[t] =>
       t \notin tokens \/ AuthAt(q, "failed") \/ (AuthAt(q, "drop") /\ auth[q].token = t)
  /\ \A r, q \in Request : r # q /\ auth[r].at \in Holding =>
       /\ auth[q].at \in Holding /\ auth[q].token = auth[r].token => {r, q} \in rivals
       /\ q \in used[auth[r].token] => {r, q} \in rivals \/ AuthAt(q, "failed")

IInv ==
  /\ AccountTypeOK
  /\ Places /\ Cleared /\ Spending /\ Granted
  /\ CodesAccounted

-----------------------------------------------------------------------------
(* One-time codes: what keeps each part *)

\* Requests other than those that change are as they were.
Others(r) == \A q \in Request : q # r => auth'[q] = auth[q]

\* Changing the position of a request changes nothing else of it.
LEMMA AuthMoves ==
  ASSUME AccountTypeOK, NEW r \in Request, NEW p \in AuthSteps \cup AuthFinal, AuthTo(r, p)
  PROVE  /\ auth' \in [Request -> AuthRow]
         /\ auth'[r].at = p /\ auth'[r].op = auth[r].op /\ auth'[r].code = auth[r].code
         /\ auth'[r].token = auth[r].token /\ auth'[r].before = auth[r].before
         /\ Others(r)
<1> USE DEF AccountTypeOK, AuthTo, Others
<1>1. auth[r] \in AuthRow
  OBVIOUS
<1>2. [auth[r] EXCEPT !.at = p] \in AuthRow
  BY <1>1 DEF AuthRow
<1>3. auth' = [auth EXCEPT ![r] = [auth[r] EXCEPT !.at = p]]
  OBVIOUS
<1>4. auth' \in [Request -> AuthRow]
  BY <1>2, <1>3
<1> QED
  BY <1>1, <1>3, <1>4 DEF AuthRow

\* A request whose record is replaced.
LEMMA Updated ==
  ASSUME AccountTypeOK, NEW r \in Request, NEW row \in AuthRow, auth' = [auth EXCEPT ![r] = row]
  PROVE  auth' \in [Request -> AuthRow] /\ auth'[r] = row /\ Others(r)
  BY DEF AccountTypeOK, Others

\* Codes are numbers up to the number of codes made.
LEMMA CodesAreNumbers ==
  ASSUME AccountTypeOK
  PROVE  /\ Len(sent) \in Nat /\ Len(sent) \in 0..MaxCodes
         /\ codes \subseteq 1..Len(sent)
         /\ DOMAIN sent = 1..Len(sent)
         /\ \A c \in 1..Len(sent) : c \in CodeIds
<1>1. Len(sent) \in Nat /\ DOMAIN sent = 1..Len(sent) /\ Len(sent) <= MaxCodes
  BY DEF AccountTypeOK
<1> QED
  BY <1>1, MaxCodesAssumption DEF AccountTypeOK, CodeIds

\* No code is stored, and no request gets to the point of storing one.
NoIssue ==
  /\ sent' = sent /\ codes' \subseteq codes
  /\ \A q \in Request : auth'[q] = auth[q] \/ auth'[q].at # "issue"

\* Then two active codes remain a matter of crossed requests.
LEMMA NoIssueKeeps ==
  ASSUME Cleared, ActiveCodesCrossed, NoIssue
  PROVE  Cleared' /\ ActiveCodesCrossed'
<1>1. Cleared'
  BY DEF NoIssue, Cleared, AuthAt, KindOf
<1>2. ActiveCodesCrossed'
  BY DEF NoIssue, ActiveCodesCrossed
<1> QED
  BY <1>1, <1>2

\* No code is found or spent.
NoSpend ==
  /\ sent' = sent /\ codes' \subseteq codes
  /\ spent' = spent /\ passed \subseteq passed' /\ rivals \subseteq rivals'
  /\ \A q \in Request : auth'[q] = auth[q] \/ auth'[q].at # "destroy"

\* Then a code that was used twice remains a matter of crossed requests.
LEMMA NoSpendKeeps ==
  ASSUME Spending, CodesSpentOnce, NoSpend
  PROVE  Spending' /\ CodesSpentOnce'
<1>1. Spending'
  BY DEF NoSpend, Spending, AuthAt
<1>2. CodesSpentOnce'
  BY DEF NoSpend, CodesSpentOnce
<1> QED
  BY <1>1, <1>2

\* No token is granted, found, used or deleted.
TokensRest ==
  /\ tokens' = tokens /\ used' = used /\ passed \subseteq passed' /\ rivals \subseteq rivals'
  /\ \A q \in Request : \/ auth'[q] = auth[q]
                        \/ /\ auth[q].at \notin Holding \cup {"ok", "failed"}
                           /\ auth'[q].at \notin Holding

\* Then a token that was used twice remains a matter of crossed requests.
LEMMA TokensRestKeep ==
  ASSUME AccountTypeOK, Granted, TokensUsedOnce, TokensRest
  PROVE  Granted' /\ TokensUsedOnce'
<1>1. \A q \in Request : (auth[q].at \in Holding \cup {"ok", "failed"} \/ auth'[q].at \in Holding)
                           => auth'[q] = auth[q]
  BY DEF TokensRest
<1>2. used' = used /\ tokens' = tokens /\ passed \subseteq passed' /\ rivals \subseteq rivals'
  BY DEF TokensRest
<1>3. \A t \in Request : t \in tokens' \/ used'[t] # {} =>
        AuthAt(t, "ok")' /\ auth'[t].op = "verifyReset" /\ t \in passed'
  BY <1>1, <1>2 DEF Granted, AuthAt
<1>4. \A r \in Request : auth'[r].at \in Holding =>
        /\ auth'[r].token \in Request /\ AuthAt(auth[r].token, "ok")'
        /\ auth'[auth'[r].token].op = "verifyReset" /\ auth'[r].token \in passed'
  <2> TAKE r \in Request
  <2> HAVE auth'[r].at \in Holding
  <2>1. auth'[r] = auth[r] /\ auth[r].at \in Holding
    BY <1>1
  <2>2. /\ auth[r].token \in Request /\ AuthAt(auth[r].token, "ok")
        /\ auth[auth[r].token].op = "verifyReset" /\ auth[r].token \in passed
    BY <2>1 DEF Granted
  <2>3. auth'[auth[r].token] = auth[auth[r].token]
    BY <1>1, <2>2 DEF AuthAt
  <2> QED
    BY <1>2, <2>1, <2>2, <2>3 DEF AuthAt
<1>5. \A t, q \in Request : q \in used'[t] =>
        t \notin tokens' \/ AuthAt(q, "failed")' \/ (AuthAt(q, "drop")' /\ auth'[q].token = t)
  <2> TAKE t, q \in Request
  <2> HAVE q \in used'[t]
  <2>1. t \notin tokens \/ auth[q].at = "failed" \/ (auth[q].at = "drop" /\ auth[q].token = t)
    BY <1>2 DEF Granted, AuthAt
  <2>2. auth[q].at \in {"failed", "drop"} => auth'[q] = auth[q]
    BY <1>1 DEF Holding
  <2> QED
    BY <1>2, <2>1, <2>2 DEF AuthAt
<1>6. \A r, q \in Request : r # q /\ auth'[r].at \in Holding =>
        /\ auth'[q].at \in Holding /\ auth'[q].token = auth'[r].token => {r, q} \in rivals'
        /\ q \in used'[auth'[r].token] => {r, q} \in rivals' \/ AuthAt(q, "failed")'
  BY <1>1, <1>2 DEF Granted, AuthAt
<1>7. TokensUsedOnce'
  BY <1>1, <1>2 DEF TokensUsedOnce, AuthAt, AccountTypeOK
<1> QED
  BY <1>3, <1>4, <1>5, <1>6, <1>7 DEF Granted, AuthAt

\* Where only one request moves, it is enough to look at that one.
LEMMA PlacesRest ==
  ASSUME Places, NEW r \in Request, Others(r), PlaceOK(r)',
         user'.verified => user'.exists, user.exists => user'.exists,
         Len(sent) \in Nat, Len(sent') \in Nat, Len(sent) <= Len(sent'),
         \A c \in 1..Len(sent) : sent'[c] = sent[c],
         \A q \in Request : q # r => (q \in passed' <=> q \in passed)
  PROVE  Places'
<1> SUFFICES ASSUME NEW q \in Request, q # r PROVE PlaceOK(q)'
  BY DEF Places
<1>1. auth'[q] = auth[q] /\ (q \in passed' <=> q \in passed) /\ PlaceOK(q)
  BY DEF Others, Places
<1>2. \A c \in 1..Len(sent) : c \in 1..Len(sent') /\ sent'[c] = sent[c]
  OBVIOUS
<1> QED
  BY <1>1, <1>2 DEF PlaceOK, KindOf, Holding

\* Who passed, what was spent and for what do not change; the use of tokens is
\* what Granted says.
PassesRest ==
  /\ user'.verified = user.verified /\ spent' = spent /\ passed' = passed
  /\ \A c \in 1..Len(sent) : sent'[c] = sent[c]
  /\ \A q \in Request : \/ auth'[q] = auth[q]
                        \/ q \notin passed
                        \/ /\ auth'[q].op = auth[q].op
                           /\ auth'[q].at = "failed" \/ auth[q].op # "verifyEmail"

\* Then whatever was earned is still accounted for by the request that earned it.
LEMMA PassesRestKeep ==
  ASSUME PassesAreEarned, Spending, Granted', passed \subseteq Request, PassesRest
  PROVE  PassesAreEarned'
<1>1. \A q \in passed : auth'[q].op = auth[q].op
  BY DEF PassesRest
<1>2. user'.verified => \E r \in passed' : auth'[r].op \in {"verifyEmail", "createUser"}
  BY <1>1 DEF PassesAreEarned, PassesRest
<1>3. \A t \in Request : t \in tokens' \/ used'[t] # {} => t \in passed' /\ auth'[t].op = "verifyReset"
  BY DEF Granted
<1>4. \A c \in CodeIds : \A r \in spent'[c] : sent'[c].kind = KindOf(auth'[r].op)
  <2> TAKE c \in CodeIds
  <2> TAKE r \in spent'[c]
  <2>1. r \in spent[c] /\ r \in passed /\ c \in 1..Len(sent)
    BY DEF PassesRest, Spending
  <2> QED
    BY <1>1, <2>1 DEF PassesRest, PassesAreEarned, KindOf
<1>5. \A r \in passed' : auth'[r].op = "verifyEmail" =>
        user'.verified \/ AuthAt(r, "save")' \/ AuthAt(r, "failed")'
  BY <1>1 DEF PassesRest, PassesAreEarned, AuthAt
<1> QED
  BY <1>2, <1>3, <1>4, <1>5 DEF PassesAreEarned, KindOf

\* No token is granted or found, and the one request that moves keeps or deletes
\* the token it has used, or fails.
LEMMA TokensFewer ==
  ASSUME AccountTypeOK, Granted, TokensUsedOnce, NEW r \in Request, Others(r),
         used' = used, tokens' \subseteq tokens, passed' = passed, rivals' = rivals,
         auth[r].at \notin {"ok", "failed"},
         auth'[r].at \in Holding => auth[r].at \in Holding /\ auth'[r].token = auth[r].token,
         \A t \in tokens' : r \in used[t] =>
           auth'[r].at = "failed" \/ (auth'[r].at = "drop" /\ auth'[r].token = t)
  PROVE  Granted' /\ TokensUsedOnce'
<1>1. \A q \in Request : auth[q].at \in {"ok", "failed"} => auth'[q] = auth[q]
  BY DEF Others
<1>2. \A q \in Request : auth'[q].at \in Holding => auth[q].at \in Holding /\ auth'[q].token = auth[q].token
  BY DEF Others
<1>3. \A t \in Request : t \in tokens' \/ used'[t] # {} =>
        AuthAt(t, "ok")' /\ auth'[t].op = "verifyReset" /\ t \in passed'
  BY <1>1 DEF Granted, AuthAt
<1>4. \A q \in Request : auth'[q].at \in Holding =>
        /\ auth'[q].token \in Request /\ AuthAt(auth[q].token, "ok")'
        /\ auth'[auth'[q].token].op = "verifyReset" /\ auth'[q].token \in passed'
  <2> TAKE q \in Request
  <2> HAVE auth'[q].at \in Holding
  <2>1. auth[q].at \in Holding /\ auth'[q].token = auth[q].token
    BY <1>2
  <2>2. /\ auth[q].token \in Request /\ auth[auth[q].token].at = "ok"
        /\ auth[auth[q].token].op = "verifyReset" /\ auth[q].token \in passed
    BY <2>1 DEF Granted, AuthAt
  <2>3. auth'[auth[q].token] = auth[auth[q].token]
    BY <1>1, <2>2
  <2> QED
    BY <2>1, <2>2, <2>3 DEF AuthAt
<1>5. \A t, q \in Request : q \in used'[t] =>
        t \notin tokens' \/ AuthAt(q, "failed")' \/ (AuthAt(q, "drop")' /\ auth'[q].token = t)
  <2> TAKE t, q \in Request
  <2> HAVE q \in used'[t]
  <2>1. CASE q = r
    BY <2>1 DEF AuthAt
  <2>2. CASE q # r
    <3>1. auth'[q] = auth[q]
      BY <2>2 DEF Others
    <3>2. t \notin tokens \/ auth[q].at = "failed" \/ (auth[q].at = "drop" /\ auth[q].token = t)
      BY DEF Granted, AuthAt
    <3> QED
      BY <3>1, <3>2 DEF AuthAt
  <2> QED
    BY <2>1, <2>2
<1>6. \A p, q \in Request : p # q /\ auth'[p].at \in Holding =>
        /\ auth'[q].at \in Holding /\ auth'[q].token = auth'[p].token => {p, q} \in rivals'
        /\ q \in used'[auth'[p].token] => {p, q} \in rivals' \/ AuthAt(q, "failed")'
  <2> TAKE p, q \in Request
  <2> HAVE p # q /\ auth'[p].at \in Holding
  <2>1. auth[p].at \in Holding /\ auth'[p].token = auth[p].token
    BY <1>2
  <2>2. auth[q].at \in Holding /\ auth[q].token = auth[p].token => {p, q} \in rivals
    BY <2>1 DEF Granted
  <2>3. q \in used[auth[p].token] => {p, q} \in rivals \/ auth[q].at = "failed"
    BY <2>1 DEF Granted, AuthAt
  <2> QED
    BY <1>1, <1>2, <2>1, <2>2, <2>3 DEF AuthAt
<1>7. TokensUsedOnce'
  <2> SUFFICES ASSUME NEW t \in Request, NEW p \in used[t], NEW q \in used[t], p # q
               PROVE  {p, q} \in rivals \/ AuthAt(p, "failed")' \/ AuthAt(q, "failed")'
    BY DEF TokensUsedOnce
  <2>1. p \in Request /\ q \in Request
    BY DEF AccountTypeOK
  <2>2. {p, q} \in rivals \/ auth[p].at = "failed" \/ auth[q].at = "failed"
    BY DEF TokensUsedOnce, AuthAt
  <2> QED
    BY <1>1, <2>1, <2>2 DEF AuthAt
<1> QED
  BY <1>3, <1>4, <1>5, <1>6, <1>7 DEF Granted, AuthAt

\* One request may pass, spend a code of its kind or verify the account.
LEMMA PassesMore ==
  ASSUME PassesAreEarned, Spending, Granted', passed \subseteq Request,
         NEW r \in Request, Others(r), auth'[r].op = auth[r].op, sent' = sent,
         passed \subseteq passed', passed' \subseteq passed \cup {r},
         user.verified => user'.verified,
         user'.verified => user.verified \/ (r \in passed' /\ auth[r].op \in {"verifyEmail", "createUser"}),
         \A c \in CodeIds : /\ spent'[c] \subseteq spent[c] \cup {r}
                            /\ r \in spent'[c] => sent[c].kind = KindOf(auth[r].op),
         r \in passed' /\ auth[r].op = "verifyEmail" => user'.verified \/ auth'[r].at \in {"save", "failed"}
  PROVE  PassesAreEarned'
<1>1. \A q \in passed' : auth'[q].op = auth[q].op
  BY DEF Others
<1>2. user'.verified => \E q \in passed' : auth'[q].op \in {"verifyEmail", "createUser"}
  BY <1>1 DEF PassesAreEarned
<1>3. \A t \in Request : t \in tokens' \/ used'[t] # {} => t \in passed' /\ auth'[t].op = "verifyReset"
  BY DEF Granted
<1>4. \A c \in CodeIds : \A q \in spent'[c] : sent'[c].kind = KindOf(auth'[q].op)
  <2> TAKE c \in CodeIds
  <2> TAKE q \in spent'[c]
  <2>1. CASE q = r
    BY <2>1 DEF KindOf
  <2>2. CASE q # r
    <3>1. q \in spent[c] /\ q \in passed
      BY <2>2 DEF Spending
    <3> QED
      BY <1>1, <3>1 DEF PassesAreEarned, KindOf
  <2> QED
    BY <2>1, <2>2
<1>5. \A q \in passed' : auth'[q].op = "verifyEmail" =>
        user'.verified \/ AuthAt(q, "save")' \/ AuthAt(q, "failed")'
  <2> TAKE q \in passed'
  <2>1. CASE q = r
    BY <2>1 DEF AuthAt
  <2>2. CASE q # r
    BY <2>2 DEF PassesAreEarned, Others, AuthAt
  <2> QED
    BY <2>1, <2>2
<1> QED
  BY <1>2, <1>3, <1>4, <1>5 DEF PassesAreEarned, KindOf

-----------------------------------------------------------------------------
(* One-time codes: the first state *)

\* The first state satisfies the invariant.
LEMMA InitIInv == AccountInit => IInv
<1> SUFFICES ASSUME AccountInit PROVE IInv
  OBVIOUS
<1>1. AccountTypeOK
  <2>1. auth \in [Request -> AuthRow]
    BY MaxCodesAssumption DEF AccountInit, AuthRow
  <2>2. /\ sent \in Seq(SentRow) /\ Len(sent) \in {0, 1}
        /\ codes = 1..Len(sent) /\ expired = {} /\ 1..Len(sent) \subseteq 1..Len(sent)
    <3>1. [kind |-> "password_reset", after |-> 0] \in SentRow
      BY MaxCodesAssumption DEF SentRow, Kinds
    <3>2. CASE sent = <<>>
      BY <3>2 DEF AccountInit
    <3>3. CASE sent = <<[kind |-> "password_reset", after |-> 0]>>
      <4> DEFINE row == [kind |-> "password_reset", after |-> 0]
      <4>1. row \in SentRow
        BY <3>1
      <4>2. sent = <<row>>
        BY <3>3
      <4> HIDE DEF row
      <4>3. sent \in Seq(SentRow) /\ Len(sent) = 1 /\ DOMAIN sent = 1..Len(sent)
        BY <4>1, <4>2
      <4> QED
        BY <4>3 DEF AccountInit
    <3> QED
      BY <3>2, <3>3 DEF AccountInit
  <2>3. user \in [exists : BOOLEAN, verified : BOOLEAN]
    BY DEF AccountInit
  <2>4. Len(sent) <= MaxCodes
    BY <2>2, MaxCodesAssumption
  <2>5. /\ static \in BOOLEAN /\ tokens = {} /\ lapsed = {} /\ passed = {} /\ rivals = {}
        /\ spent \in [CodeIds -> SUBSET Request] /\ used \in [Request -> SUBSET Request]
    BY DEF AccountInit
  <2> QED
    BY <2>1, <2>2, <2>3, <2>4, <2>5 DEF AccountTypeOK
<1>2. Places /\ Cleared /\ Spending /\ Granted
  BY DEF AccountInit, Places, PlaceOK, Cleared, Spending, Granted, Holding, AuthAt, CodeIds
<1>3. CodesAccounted
  <2>1. codes = 1..Len(sent) /\ Len(sent) \in {0, 1}
    <3>1. CASE sent = <<>>
      BY <3>1 DEF AccountInit
    <3>2. CASE sent = <<[kind |-> "password_reset", after |-> 0]>>
      BY <3>2 DEF AccountInit
    <3> QED
      BY <3>1, <3>2 DEF AccountInit
  <2>2. ActiveCodesCrossed
    BY <2>1 DEF ActiveCodesCrossed
  <2> QED
    BY <2>2 DEF AccountInit, CodesAccounted, CodesSpentOnce, TokensUsedOnce,
                PassesAreEarned, AuthAt, CodeIds
<1> QED
  BY <1>1, <1>2, <1>3 DEF IInv

-----------------------------------------------------------------------------
(* One-time codes: the steps *)

\* The first read of an operation.
LEMMA BeginKeeps ==
  ASSUME IInv, NEW r \in Request, NEW goesOn \in BOOLEAN,
         NEW op \in {"register", "createUser", "resend", "forgot", "verifyEmail", "verifyReset"},
         NEW next \in {"create", "clear", "find"},
         next = "find" => op \in {"verifyEmail", "verifyReset"} /\ (goesOn => user.exists),
         next # "find" => op \notin {"verifyEmail", "verifyReset"},
         Begin(r, op, goesOn, next)
  PROVE  IInv'
<1> USE DEF Begin, AuthAt
<1>0. /\ Len(sent) \in Nat /\ Len(sent) \in 0..MaxCodes /\ codes \subseteq 1..Len(sent)
      /\ DOMAIN sent = 1..Len(sent) /\ \A c \in 1..Len(sent) : c \in CodeIds
  BY CodesAreNumbers DEF IInv
<1>1. /\ auth' \in [Request -> AuthRow] /\ Others(r)
      /\ auth'[r].at = (IF goesOn THEN next ELSE "refused")
      /\ auth'[r].op = op
  <2>1. auth[r] \in AuthRow
    BY DEF IInv, AccountTypeOK
  <2>2. [auth[r] EXCEPT !.op = op, !.at = IF goesOn THEN next ELSE "refused"] \in AuthRow
    BY <2>1, <1>0, MaxCodesAssumption DEF AuthRow, AuthSteps, AuthFinal
  <2>3. auth' = [auth EXCEPT ![r] = [auth[r] EXCEPT !.op = op, !.at = IF goesOn THEN next ELSE "refused"]]
    BY <2>1 DEF IInv, AccountTypeOK, AuthRow
  <2>4. auth' \in [Request -> AuthRow] /\ auth'[r] = [auth[r] EXCEPT !.op = op, !.at = IF goesOn THEN next ELSE "refused"] /\ Others(r)
    BY <2>2, <2>3, Updated DEF IInv
  <2> QED
    BY <2>1, <2>4 DEF AuthRow
<1>8. /\ auth'[r].at \in {"create", "clear", "find", "refused"} /\ r \notin passed
      /\ auth'[r].at = "find" => op \in {"verifyEmail", "verifyReset"} /\ user.exists
      /\ auth'[r].at \in {"create", "clear"} => op # "verifyEmail"
      /\ passed' = passed /\ user' = user /\ auth[r].at = "idle"
  BY <1>1 DEF IInv, Places, PlaceOK, history
<1>2. AccountTypeOK'
  BY <1>0, <1>1, MaxCodesAssumption DEF IInv, AccountTypeOK, history
<1>3. Places'
  <2>1. PlaceOK(r)'
    BY <1>1, <1>8 DEF PlaceOK, Holding
  <2> QED
    BY <1>0, <1>1, <2>1, <1>8, PlacesRest DEF IInv, Places, history
<1>4. Cleared' /\ ActiveCodesCrossed'
  <2>1. NoIssue
    BY <1>1 DEF IInv, NoIssue, Others, history
  <2> QED
    BY <2>1, NoIssueKeeps DEF IInv, CodesAccounted
<1>5. Spending' /\ CodesSpentOnce'
  <2>1. NoSpend
    BY <1>1 DEF IInv, NoSpend, Others, history
  <2> QED
    BY <2>1, NoSpendKeeps DEF IInv, CodesAccounted
<1>6. Granted' /\ TokensUsedOnce'
  <2>1. TokensRest
    BY <1>1, <1>8 DEF TokensRest, Others, history, Holding
  <2> QED
    BY <2>1, TokensRestKeep DEF IInv, CodesAccounted
<1>7. PassesAreEarned'
  <2>1. PassesRest
    BY <1>1 DEF IInv, PassesRest, Others, history, Places, PlaceOK, Holding, AccountTypeOK
  <2> QED
    BY <2>1, <1>6, PassesRestKeep DEF IInv, CodesAccounted, AccountTypeOK
<1> QED
  BY <1>2, <1>3, <1>4, <1>5, <1>6, <1>7 DEF IInv, CodesAccounted

\* The account is stored, or the index refuses it.
LEMMA CreateKeeps ==
  ASSUME IInv, NEW r \in Request, Create(r)
  PROVE  IInv'
<1> USE DEF Create, AuthAt
<1>0. /\ Len(sent) \in Nat /\ Len(sent) \in 0..MaxCodes /\ codes \subseteq 1..Len(sent)
      /\ DOMAIN sent = 1..Len(sent) /\ \A c \in 1..Len(sent) : c \in CodeIds
  BY CodesAreNumbers DEF IInv
<1>1. /\ auth' \in [Request -> AuthRow] /\ Others(r)
      /\ auth'[r].at = (IF user.exists THEN "failed" ELSE IF auth[r].op = "createUser" THEN "log" ELSE "clear")
      /\ auth'[r].op = auth[r].op /\ auth'[r].code = auth[r].code
      /\ auth'[r].token = auth[r].token
  BY AuthMoves DEF IInv, AuthSteps, AuthFinal
<1>2. AccountTypeOK'
  <2>1. user' \in [exists : BOOLEAN, verified : BOOLEAN]
    <3>1. CASE user.exists
      BY <3>1 DEF IInv, AccountTypeOK
    <3>2. CASE ~user.exists
      <4>1. user' = [exists |-> TRUE, verified |-> auth[r].op = "createUser"]
        BY <3>2
      <4>2. (auth[r].op = "createUser") \in BOOLEAN
        OBVIOUS
      <4> QED
        BY <4>1, <4>2
    <3> QED
      BY <3>1, <3>2
  <2>2. passed' \subseteq Request
    BY DEF IInv, AccountTypeOK
  <2> QED
    BY <1>0, <1>1, <2>1, <2>2, MaxCodesAssumption DEF IInv, AccountTypeOK
<1>3. Places'
  <2>1. PlaceOK(r)'
    BY <1>0, <1>1 DEF IInv, Places, PlaceOK, history, Holding
  <2> QED
    BY <1>0, <1>1, <2>1, PlacesRest DEF IInv, AccountTypeOK, Places, PlaceOK, history
<1>4. Cleared' /\ ActiveCodesCrossed'
  <2>1. NoIssue
    BY <1>1 DEF IInv, NoIssue, Others, history
  <2> QED
    BY <2>1, NoIssueKeeps DEF IInv, CodesAccounted
<1>5. Spending' /\ CodesSpentOnce'
  <2>1. NoSpend
    BY <1>1 DEF IInv, NoSpend, Others, history
  <2> QED
    BY <2>1, NoSpendKeeps DEF IInv, CodesAccounted
<1>6. Granted' /\ TokensUsedOnce'
  <2>1. TokensRest
    BY <1>1 DEF IInv, TokensRest, Others, history, Holding
  <2> QED
    BY <2>1, TokensRestKeep DEF IInv, CodesAccounted
<1>7. PassesAreEarned'
  <2>1. /\ auth'[r].op = auth[r].op /\ sent' = sent /\ passed \subseteq passed' /\ passed' \subseteq passed \cup {r}
        /\ user.verified => user'.verified
        /\ user'.verified => user.verified \/ (r \in passed' /\ auth[r].op \in {"verifyEmail", "createUser"})
        /\ r \in passed' /\ auth[r].op = "verifyEmail" => user'.verified \/ auth'[r].at \in {"save", "failed"}
    BY <1>1 DEF IInv, AccountTypeOK, Places, PlaceOK, history
  <2>2. \A c \in CodeIds : /\ spent'[c] \subseteq spent[c] \cup {r}
                           /\ r \in spent'[c] => sent[c].kind = KindOf(auth[r].op)
    BY <1>1 DEF IInv, AccountTypeOK, CodesAccounted, PassesAreEarned, Places, PlaceOK, history
  <2> QED
    BY <1>1, <1>6, <2>1, <2>2, PassesMore DEF IInv, AccountTypeOK, CodesAccounted
<1> QED
  BY <1>2, <1>3, <1>4, <1>5, <1>6, <1>7 DEF IInv, CodesAccounted

\* The end of createUser.
LEMMA LogUserKeeps ==
  ASSUME IInv, NEW r \in Request, LogUser(r)
  PROVE  IInv'
<1> USE DEF LogUser, AuthAt
<1>0. /\ Len(sent) \in Nat /\ Len(sent) \in 0..MaxCodes /\ codes \subseteq 1..Len(sent)
      /\ DOMAIN sent = 1..Len(sent) /\ \A c \in 1..Len(sent) : c \in CodeIds
  BY CodesAreNumbers DEF IInv
<1>1. /\ auth' \in [Request -> AuthRow] /\ Others(r)
      /\ auth'[r].at = "ok"
      /\ auth'[r].op = auth[r].op /\ auth'[r].code = auth[r].code
      /\ auth'[r].token = auth[r].token
  BY AuthMoves DEF IInv, AuthSteps, AuthFinal
<1>2. AccountTypeOK'
  BY <1>0, <1>1, MaxCodesAssumption DEF IInv, AccountTypeOK, history
<1>3. Places'
  <2>1. PlaceOK(r)'
    BY <1>0, <1>1 DEF IInv, Places, PlaceOK, history, Holding
  <2> QED
    BY <1>0, <1>1, <2>1, PlacesRest DEF IInv, AccountTypeOK, Places, PlaceOK, history
<1>4. Cleared' /\ ActiveCodesCrossed'
  <2>1. NoIssue
    BY <1>1 DEF IInv, NoIssue, Others, history
  <2> QED
    BY <2>1, NoIssueKeeps DEF IInv, CodesAccounted
<1>5. Spending' /\ CodesSpentOnce'
  <2>1. NoSpend
    BY <1>1 DEF IInv, NoSpend, Others, history
  <2> QED
    BY <2>1, NoSpendKeeps DEF IInv, CodesAccounted
<1>6. Granted' /\ TokensUsedOnce'
  <2>1. TokensRest
    BY <1>1 DEF IInv, TokensRest, Others, history, Holding
  <2> QED
    BY <2>1, TokensRestKeep DEF IInv, CodesAccounted
<1>7. PassesAreEarned'
  <2>1. PassesRest
    BY <1>1 DEF IInv, PassesRest, Others, history, Places, PlaceOK, Holding, AccountTypeOK
  <2> QED
    BY <2>1, <1>6, PassesRestKeep DEF IInv, CodesAccounted, AccountTypeOK
<1> QED
  BY <1>2, <1>3, <1>4, <1>5, <1>6, <1>7 DEF IInv, CodesAccounted

\* The older codes of a kind go.
LEMMA ClearCodesKeeps ==
  ASSUME IInv, NEW r \in Request, ClearCodes(r)
  PROVE  IInv'
<1> USE DEF ClearCodes, AuthAt, OfKind
<1>0. /\ Len(sent) \in Nat /\ Len(sent) \in 0..MaxCodes /\ codes \subseteq 1..Len(sent)
      /\ DOMAIN sent = 1..Len(sent) /\ \A c \in 1..Len(sent) : c \in CodeIds
  BY CodesAreNumbers DEF IInv
<1>1. /\ auth' \in [Request -> AuthRow] /\ Others(r)
      /\ auth'[r].at = "issue"
      /\ auth'[r].op = auth[r].op /\ auth'[r].before = Len(sent)
  <2>1. auth[r] \in AuthRow
    BY DEF IInv, AccountTypeOK
  <2>2. [auth[r] EXCEPT !.at = "issue", !.before = Len(sent)] \in AuthRow
    BY <2>1, <1>0, MaxCodesAssumption DEF AuthRow, AuthSteps, AuthFinal
  <2>3. auth' = [auth EXCEPT ![r] = [auth[r] EXCEPT !.at = "issue", !.before = Len(sent)]]
    BY <2>1 DEF IInv, AccountTypeOK, AuthRow
  <2>4. auth' \in [Request -> AuthRow] /\ auth'[r] = [auth[r] EXCEPT !.at = "issue", !.before = Len(sent)] /\ Others(r)
    BY <2>2, <2>3, Updated DEF IInv
  <2> QED
    BY <2>1, <2>4 DEF AuthRow
<1>2. AccountTypeOK'
  BY <1>0, <1>1, MaxCodesAssumption DEF IInv, AccountTypeOK, history
<1>3. Places'
  <2>1. PlaceOK(r)'
    BY <1>0, <1>1 DEF IInv, Places, PlaceOK, history, Holding
  <2> QED
    BY <1>0, <1>1, <2>1, PlacesRest DEF IInv, AccountTypeOK, Places, PlaceOK, history
<1>4. Cleared' /\ ActiveCodesCrossed'
  BY <1>1 DEF IInv, AccountTypeOK, CodesAccounted, Cleared, ActiveCodesCrossed, Others
<1>5. Spending' /\ CodesSpentOnce'
  <2>1. NoSpend
    BY <1>1 DEF IInv, NoSpend, Others, history
  <2> QED
    BY <2>1, NoSpendKeeps DEF IInv, CodesAccounted
<1>6. Granted' /\ TokensUsedOnce'
  <2>1. TokensRest
    BY <1>1 DEF IInv, TokensRest, Others, history, Holding
  <2> QED
    BY <2>1, TokensRestKeep DEF IInv, CodesAccounted
<1>7. PassesAreEarned'
  <2>1. PassesRest
    BY <1>1 DEF IInv, PassesRest, Others, history, Places, PlaceOK, Holding, AccountTypeOK
  <2> QED
    BY <2>1, <1>6, PassesRestKeep DEF IInv, CodesAccounted, AccountTypeOK
<1> QED
  BY <1>2, <1>3, <1>4, <1>5, <1>6, <1>7 DEF IInv, CodesAccounted

\* A code is stored.
LEMMA IssueCodeKeeps ==
  ASSUME IInv, NEW r \in Request, IssueCode(r)
  PROVE  IInv'
<1> USE DEF IssueCode, AuthAt
<1>0. /\ Len(sent) \in Nat /\ Len(sent) \in 0..MaxCodes /\ codes \subseteq 1..Len(sent)
      /\ DOMAIN sent = 1..Len(sent) /\ \A c \in 1..Len(sent) : c \in CodeIds
  BY CodesAreNumbers DEF IInv
<1>1. /\ auth' \in [Request -> AuthRow] /\ Others(r)
      /\ auth'[r].at = "ok"
      /\ auth'[r].op = auth[r].op
  <2>0. 0 \in 0..MaxCodes
    BY MaxCodesAssumption
  <2>1. auth[r] \in AuthRow
    BY DEF IInv, AccountTypeOK
  <2>2. [auth[r] EXCEPT !.at = "ok", !.before = 0] \in AuthRow
    BY <2>1, <2>0 DEF AuthRow, AuthSteps, AuthFinal
  <2>3. auth' = [auth EXCEPT ![r] = [auth[r] EXCEPT !.at = "ok", !.before = 0]]
    BY <2>1 DEF IInv, AccountTypeOK, AuthRow
  <2>4. auth' \in [Request -> AuthRow] /\ auth'[r] = [auth[r] EXCEPT !.at = "ok", !.before = 0] /\ Others(r)
    BY <2>2, <2>3, Updated DEF IInv
  <2> QED
    BY <2>1, <2>4 DEF AuthRow
<1>2. AccountTypeOK'
  <2>1. [kind |-> KindOf(auth[r].op), after |-> auth[r].before] \in SentRow
    <3>1. auth[r].before \in 0..MaxCodes /\ KindOf(auth[r].op) \in Kinds
      BY DEF IInv, AccountTypeOK, AuthRow, KindOf, Kinds
    <3> QED
      BY <3>1 DEF SentRow
  <2>2. sent \in Seq(SentRow)
    BY DEF IInv, AccountTypeOK
  <2>3. sent' \in Seq(SentRow) /\ Len(sent') = Len(sent) + 1
    BY <2>1, <2>2
  <2>4. Len(sent') <= MaxCodes /\ 1..Len(sent) \subseteq 1..Len(sent') /\ Len(sent) + 1 \in 1..Len(sent')
    BY <1>0, <2>3, MaxCodesAssumption
  <2>5. codes' \subseteq 1..Len(sent') /\ expired' \subseteq 1..Len(sent')
    BY <1>0, <2>4 DEF IInv, AccountTypeOK
  <2> QED
    BY <1>1, <2>3, <2>4, <2>5 DEF IInv, AccountTypeOK, history
<1>8. /\ Len(sent') = Len(sent) + 1 /\ codes' = codes \cup {Len(sent) + 1}
      /\ \A c \in 1..Len(sent) : sent'[c] = sent[c]
      /\ sent'[Len(sent) + 1].after = auth[r].before
      /\ sent'[Len(sent) + 1].kind = KindOf(auth[r].op)
      /\ auth[r].at = "issue" /\ auth[r].before \in Nat
      /\ UNCHANGED <<user, tokens, spent, passed, used, rivals>>
  <2>1. sent \in Seq(SentRow) /\ auth[r].before \in Nat
    BY MaxCodesAssumption DEF IInv, AccountTypeOK, AuthRow
  <2> QED
    BY <1>0, <2>1 DEF history
<1>3. Places'
  <2>1. PlaceOK(r)'
    BY <1>0, <1>1 DEF IInv, Places, PlaceOK, history, Holding
  <2> QED
    BY <1>0, <1>1, <1>8, <2>1, PlacesRest DEF IInv, Places
<1>4. Cleared' /\ ActiveCodesCrossed'
  <2>1. Cleared'
    <3> SUFFICES ASSUME NEW q \in Request, auth'[q].at = "issue", NEW c \in codes',
                        sent'[c].kind = KindOf(auth'[q].op)
                 PROVE  auth'[q].before <= Len(sent') /\ c > auth'[q].before
      <4>1. \A q \in Request : auth'[q].at = "issue" => auth'[q].before <= Len(sent')
        BY <1>0, <1>1, <1>8 DEF IInv, Cleared, Others, AccountTypeOK, AuthRow
      <4> QED
        BY <4>1 DEF Cleared, KindOf
    <3>1. q # r /\ auth'[q] = auth[q]
      BY <1>1 DEF Others
    <3>2. auth[q].before <= Len(sent) /\ auth[q].before \in Nat
      BY <3>1, MaxCodesAssumption DEF IInv, Cleared, AccountTypeOK, AuthRow
    <3>3. CASE c = Len(sent) + 1
      BY <1>0, <1>8, <3>1, <3>2, <3>3
    <3>4. CASE c \in codes
      BY <1>0, <1>8, <3>1, <3>2, <3>4 DEF IInv, Cleared, KindOf
    <3> QED
      BY <1>8, <3>3, <3>4
  <2>2. ActiveCodesCrossed'
    <3> SUFFICES ASSUME NEW c \in codes', NEW d \in codes', c < d, sent'[c].kind = sent'[d].kind
                 PROVE  c > sent'[d].after
      BY DEF ActiveCodesCrossed
    <3>1. c \in codes
      BY <1>0, <1>8
    <3>2. CASE d \in codes
      BY <1>0, <1>8, <3>1, <3>2 DEF IInv, CodesAccounted, ActiveCodesCrossed
    <3>3. CASE d = Len(sent) + 1
      BY <1>0, <1>8, <3>1, <3>3 DEF IInv, Cleared
    <3> QED
      BY <1>8, <3>2, <3>3
  <2> QED
    BY <2>1, <2>2
<1>5. Spending' /\ CodesSpentOnce'
  <2>1. \A c \in CodeIds : spent[c] # {} => c \in 1..Len(sent') /\ c \notin codes'
    BY <1>0, <1>8 DEF IInv, Spending
  <2>2. \A p, q \in Request : p # q /\ auth'[p].at = "destroy" =>
          /\ auth'[q].at = "destroy" /\ auth'[q].code = auth'[p].code => {p, q} \in rivals
          /\ q \in spent[auth'[p].code] => {p, q} \in rivals
    BY <1>1 DEF IInv, Spending, Others
  <2>3. Spending'
    BY <1>8, <2>1, <2>2 DEF IInv, Spending
  <2> QED
    BY <1>8, <2>3 DEF IInv, CodesAccounted, CodesSpentOnce
<1>6. Granted' /\ TokensUsedOnce'
  <2>1. TokensRest
    BY <1>1 DEF IInv, TokensRest, Others, history, Holding
  <2> QED
    BY <2>1, TokensRestKeep DEF IInv, CodesAccounted
<1>7. PassesAreEarned'
  <2>1. PassesRest
    BY <1>1, <1>8 DEF IInv, PassesRest, Others, Places, PlaceOK
  <2> QED
    BY <2>1, <1>6, PassesRestKeep DEF IInv, CodesAccounted, AccountTypeOK
<1> QED
  BY <1>2, <1>3, <1>4, <1>5, <1>6, <1>7 DEF IInv, CodesAccounted

\* A code is accepted.
LEMMA DestroyCodeKeeps ==
  ASSUME IInv, NEW r \in Request, DestroyCode(r)
  PROVE  IInv'
<1> USE DEF DestroyCode, AuthAt, AcceptedTo, Remaining
<1>0. /\ Len(sent) \in Nat /\ Len(sent) \in 0..MaxCodes /\ codes \subseteq 1..Len(sent)
      /\ DOMAIN sent = 1..Len(sent) /\ \A c \in 1..Len(sent) : c \in CodeIds
  BY CodesAreNumbers DEF IInv
<1>1. /\ auth' \in [Request -> AuthRow] /\ Others(r)
      /\ auth'[r].at = AcceptedTo(auth[r].op)
      /\ auth'[r].op = auth[r].op
  <2>0. 0 \in 0..MaxCodes
    BY MaxCodesAssumption
  <2>1. auth[r] \in AuthRow
    BY DEF IInv, AccountTypeOK
  <2>2. [auth[r] EXCEPT !.at = AcceptedTo(auth[r].op), !.code = 0] \in AuthRow
    BY <2>1, <2>0 DEF AuthRow, AuthSteps, AuthFinal
  <2>3. auth' = [auth EXCEPT ![r] = [auth[r] EXCEPT !.at = AcceptedTo(auth[r].op), !.code = 0]]
    BY <2>1 DEF IInv, AccountTypeOK, AuthRow
  <2>4. auth' \in [Request -> AuthRow] /\ auth'[r] = [auth[r] EXCEPT !.at = AcceptedTo(auth[r].op), !.code = 0] /\ Others(r)
    BY <2>2, <2>3, Updated DEF IInv
  <2> QED
    BY <2>1, <2>4 DEF AuthRow
<1>8. /\ auth[r].at = "destroy" /\ r \notin passed /\ user.exists
      /\ auth[r].op \in {"verifyEmail", "verifyReset"}
      /\ auth[r].code \in 1..Len(sent) /\ auth[r].code \in CodeIds
      /\ sent[auth[r].code].kind = KindOf(auth[r].op)
      /\ auth'[r].at \in {"save", "retire"}
      /\ auth'[r].at = "save" <=> auth[r].op = "verifyEmail"
  BY <1>0, <1>1 DEF IInv, Places, PlaceOK
<1>9. /\ codes' = codes \ {auth[r].code} /\ passed' = passed \cup {r}
      /\ spent'[auth[r].code] = spent[auth[r].code] \cup {r}
      /\ \A c \in CodeIds : c # auth[r].code => spent'[c] = spent[c]
      /\ UNCHANGED <<user, sent, tokens, used, rivals>>
  BY <1>8 DEF IInv, AccountTypeOK
<1>2. AccountTypeOK'
  BY <1>0, <1>1, MaxCodesAssumption, ZenonT(40) DEF IInv, AccountTypeOK, history
<1>3. Places'
  <2>1. PlaceOK(r)'
    BY <1>1, <1>8, <1>9 DEF PlaceOK, Holding
  <2> QED
    BY <1>0, <1>1, <2>1, PlacesRest, ZenonT(40) DEF IInv, AccountTypeOK, Places, PlaceOK, history
<1>4. Cleared' /\ ActiveCodesCrossed'
  <2>1. NoIssue
    BY <1>1 DEF IInv, NoIssue, Others, history
  <2> QED
    BY <2>1, NoIssueKeeps DEF IInv, CodesAccounted
<1>5. Spending' /\ CodesSpentOnce'
  <2>1. \A c \in CodeIds : /\ spent'[c] # {} => c \in 1..Len(sent') /\ c \notin codes'
                           /\ spent'[c] \subseteq passed'
    BY <1>8, <1>9 DEF IInv, Spending
  <2>2. \A q \in Request : q # r =>
          /\ AuthAt(q, "destroy") /\ auth[q].code = auth[r].code => {q, r} \in rivals
          /\ q \in spent[auth[r].code] => {q, r} \in rivals
    <3> TAKE q \in Request
    <3>1. {q, r} = {r, q}
      OBVIOUS
    <3> QED
      BY <1>8, <3>1 DEF IInv, Spending
  <2>3. \A p, q \in Request : p # q /\ auth'[p].at = "destroy" =>
          /\ auth'[q].at = "destroy" /\ auth'[q].code = auth'[p].code => {p, q} \in rivals
          /\ q \in spent'[auth'[p].code] => {p, q} \in rivals
    <3> TAKE p, q \in Request
    <3> HAVE p # q /\ auth'[p].at = "destroy"
    <3>1. p # r /\ auth'[p] = auth[p] /\ auth[p].code \in CodeIds
      BY <1>0, <1>1, <1>8 DEF Others, IInv, Places, PlaceOK
    <3>2. CASE q = r
      BY <1>8, <1>9, <2>2, <3>1, <3>2 DEF IInv, Spending
    <3>3. CASE q # r
      <4>1. auth'[q] = auth[q] /\ (q \in spent'[auth[p].code] => q \in spent[auth[p].code])
        BY <1>1, <1>9, <3>1, <3>3 DEF Others
      <4> QED
        BY <3>1, <4>1 DEF IInv, Spending
    <3> QED
      BY <3>2, <3>3
  <2>4. Spending'
    BY <1>9, <2>1, <2>3 DEF Spending
  <2>5. CodesSpentOnce'
    <3> SUFFICES ASSUME NEW c \in CodeIds, NEW p \in spent'[c], NEW q \in spent'[c], p # q
                 PROVE  {p, q} \in rivals
      BY <1>9 DEF CodesSpentOnce
    <3>1. p \in spent[c] \cup {r} /\ q \in spent[c] \cup {r} /\ spent[c] \subseteq Request
      BY <1>9 DEF IInv, AccountTypeOK
    <3>2. CASE p \in spent[c] /\ q \in spent[c]
      BY <3>2 DEF IInv, CodesAccounted, CodesSpentOnce
    <3>3. CASE p = r /\ q \in spent[c]
      <4>1. c = auth[r].code
        BY <1>8, <1>9, <3>3 DEF IInv, Spending
      <4>2. {p, q} = {q, r}
        BY <3>3
      <4> QED
        BY <2>2, <3>1, <3>3, <4>1, <4>2
    <3>4. CASE q = r /\ p \in spent[c]
      <4>1. c = auth[r].code
        BY <1>8, <1>9, <3>4 DEF IInv, Spending
      <4> QED
        BY <2>2, <3>1, <3>4, <4>1
    <3> QED
      BY <3>1, <3>2, <3>3, <3>4
  <2> QED
    BY <2>4, <2>5
<1>6. Granted' /\ TokensUsedOnce'
  <2>1. TokensRest
    BY <1>1, <1>8, <1>9 DEF TokensRest, Others, Holding
  <2> QED
    BY <2>1, TokensRestKeep DEF IInv, CodesAccounted
<1>7. PassesAreEarned'
  <2>1. /\ auth'[r].op = auth[r].op /\ sent' = sent /\ passed \subseteq passed' /\ passed' \subseteq passed \cup {r}
        /\ user.verified => user'.verified
        /\ user'.verified => user.verified \/ (r \in passed' /\ auth[r].op \in {"verifyEmail", "createUser"})
        /\ r \in passed' /\ auth[r].op = "verifyEmail" => user'.verified \/ auth'[r].at \in {"save", "failed"}
    BY <1>1 DEF IInv, AccountTypeOK, Places, PlaceOK, history
  <2>2. \A c \in CodeIds : /\ spent'[c] \subseteq spent[c] \cup {r}
                           /\ r \in spent'[c] => sent[c].kind = KindOf(auth[r].op)
    BY <1>1 DEF IInv, AccountTypeOK, CodesAccounted, PassesAreEarned, Places, PlaceOK, history
  <2> QED
    BY <1>1, <1>6, <2>1, <2>2, PassesMore DEF IInv, AccountTypeOK, CodesAccounted
<1> QED
  BY <1>2, <1>3, <1>4, <1>5, <1>6, <1>7 DEF IInv, CodesAccounted

\* The static code is accepted.
LEMMA StaticCodeKeeps ==
  ASSUME IInv, NEW r \in Request, StaticCode(r)
  PROVE  IInv'
<1> USE DEF StaticCode, AuthAt, AcceptedTo, OfKind
<1>0. /\ Len(sent) \in Nat /\ Len(sent) \in 0..MaxCodes /\ codes \subseteq 1..Len(sent)
      /\ DOMAIN sent = 1..Len(sent) /\ \A c \in 1..Len(sent) : c \in CodeIds
  BY CodesAreNumbers DEF IInv
<1>1. /\ auth' \in [Request -> AuthRow] /\ Others(r)
      /\ auth'[r].at = AcceptedTo(auth[r].op)
      /\ auth'[r].op = auth[r].op /\ auth'[r].code = auth[r].code
      /\ auth'[r].token = auth[r].token
  BY AuthMoves DEF IInv, AuthSteps, AuthFinal, AcceptedTo
<1>2. AccountTypeOK'
  BY <1>0, <1>1, MaxCodesAssumption DEF IInv, AccountTypeOK, history
<1>3. Places'
  <2>1. PlaceOK(r)'
    BY <1>0, <1>1 DEF IInv, Places, PlaceOK, history, Holding
  <2> QED
    BY <1>0, <1>1, <2>1, PlacesRest DEF IInv, AccountTypeOK, Places, PlaceOK, history
<1>4. Cleared' /\ ActiveCodesCrossed'
  <2>1. NoIssue
    BY <1>1 DEF IInv, NoIssue, Others, history
  <2> QED
    BY <2>1, NoIssueKeeps DEF IInv, CodesAccounted
<1>5. Spending' /\ CodesSpentOnce'
  <2>1. NoSpend
    BY <1>1 DEF IInv, NoSpend, Others, history
  <2> QED
    BY <2>1, NoSpendKeeps DEF IInv, CodesAccounted
<1>6. Granted' /\ TokensUsedOnce'
  <2>1. TokensRest
    BY <1>1 DEF IInv, TokensRest, Others, history, Holding
  <2> QED
    BY <2>1, TokensRestKeep DEF IInv, CodesAccounted
<1>7. PassesAreEarned'
  <2>1. /\ auth'[r].op = auth[r].op /\ sent' = sent /\ passed \subseteq passed' /\ passed' \subseteq passed \cup {r}
        /\ user.verified => user'.verified
        /\ user'.verified => user.verified \/ (r \in passed' /\ auth[r].op \in {"verifyEmail", "createUser"})
        /\ r \in passed' /\ auth[r].op = "verifyEmail" => user'.verified \/ auth'[r].at \in {"save", "failed"}
    BY <1>1 DEF IInv, AccountTypeOK, Places, PlaceOK, history
  <2>2. \A c \in CodeIds : /\ spent'[c] \subseteq spent[c] \cup {r}
                           /\ r \in spent'[c] => sent[c].kind = KindOf(auth[r].op)
    BY <1>1 DEF IInv, AccountTypeOK, CodesAccounted, PassesAreEarned, Places, PlaceOK, history
  <2> QED
    BY <1>1, <1>6, <2>1, <2>2, PassesMore DEF IInv, AccountTypeOK, CodesAccounted
<1> QED
  BY <1>2, <1>3, <1>4, <1>5, <1>6, <1>7 DEF IInv, CodesAccounted

\* The account is saved as verified.
LEMMA SaveVerifiedKeeps ==
  ASSUME IInv, NEW r \in Request, SaveVerified(r)
  PROVE  IInv'
<1> USE DEF SaveVerified, AuthAt
<1>0. /\ Len(sent) \in Nat /\ Len(sent) \in 0..MaxCodes /\ codes \subseteq 1..Len(sent)
      /\ DOMAIN sent = 1..Len(sent) /\ \A c \in 1..Len(sent) : c \in CodeIds
  BY CodesAreNumbers DEF IInv
<1>1. /\ auth' \in [Request -> AuthRow] /\ Others(r)
      /\ auth'[r].at = "ok"
      /\ auth'[r].op = auth[r].op /\ auth'[r].code = auth[r].code
      /\ auth'[r].token = auth[r].token
  BY AuthMoves DEF IInv, AuthSteps, AuthFinal
<1>2. AccountTypeOK'
  BY <1>0, <1>1, MaxCodesAssumption DEF IInv, AccountTypeOK, history
<1>3. Places'
  <2>1. PlaceOK(r)'
    BY <1>0, <1>1 DEF IInv, Places, PlaceOK, history, Holding
  <2>2. /\ sent' = sent /\ passed' = passed
        /\ user'.verified => user'.exists
        /\ user.exists => user'.exists
    BY <1>1 DEF IInv, AccountTypeOK, Places, PlaceOK, history
  <2> QED
    BY <1>0, <1>1, <2>1, <2>2, PlacesRest DEF IInv
<1>4. Cleared' /\ ActiveCodesCrossed'
  <2>1. NoIssue
    BY <1>1 DEF IInv, NoIssue, Others, history
  <2> QED
    BY <2>1, NoIssueKeeps DEF IInv, CodesAccounted
<1>5. Spending' /\ CodesSpentOnce'
  <2>1. NoSpend
    BY <1>1 DEF IInv, NoSpend, Others, history
  <2> QED
    BY <2>1, NoSpendKeeps DEF IInv, CodesAccounted
<1>6. Granted' /\ TokensUsedOnce'
  <2>1. TokensRest
    BY <1>1 DEF IInv, TokensRest, Others, history, Holding
  <2> QED
    BY <2>1, TokensRestKeep DEF IInv, CodesAccounted
<1>7. PassesAreEarned'
  <2>1. /\ auth'[r].op = auth[r].op /\ sent' = sent /\ passed \subseteq passed' /\ passed' \subseteq passed \cup {r}
        /\ user.verified => user'.verified
        /\ user'.verified => user.verified \/ (r \in passed' /\ auth[r].op \in {"verifyEmail", "createUser"})
        /\ r \in passed' /\ auth[r].op = "verifyEmail" => user'.verified \/ auth'[r].at \in {"save", "failed"}
    BY <1>1 DEF IInv, AccountTypeOK, Places, PlaceOK, history
  <2>2. \A c \in CodeIds : /\ spent'[c] \subseteq spent[c] \cup {r}
                           /\ r \in spent'[c] => sent[c].kind = KindOf(auth[r].op)
    BY <1>1 DEF IInv, AccountTypeOK, CodesAccounted, PassesAreEarned, Places, PlaceOK, history
  <2> QED
    BY <1>1, <1>6, <2>1, <2>2, PassesMore DEF IInv, AccountTypeOK, CodesAccounted
<1> QED
  BY <1>2, <1>3, <1>4, <1>5, <1>6, <1>7 DEF IInv, CodesAccounted

\* The older tokens go.
LEMMA RetireTokensKeeps ==
  ASSUME IInv, NEW r \in Request, RetireTokens(r)
  PROVE  IInv'
<1> USE DEF RetireTokens, AuthAt
<1>0. /\ Len(sent) \in Nat /\ Len(sent) \in 0..MaxCodes /\ codes \subseteq 1..Len(sent)
      /\ DOMAIN sent = 1..Len(sent) /\ \A c \in 1..Len(sent) : c \in CodeIds
  BY CodesAreNumbers DEF IInv
<1>1. /\ auth' \in [Request -> AuthRow] /\ Others(r)
      /\ auth'[r].at = "grant"
      /\ auth'[r].op = auth[r].op /\ auth'[r].code = auth[r].code
      /\ auth'[r].token = auth[r].token
  BY AuthMoves DEF IInv, AuthSteps, AuthFinal
<1>2. AccountTypeOK'
  BY <1>0, <1>1, MaxCodesAssumption DEF IInv, AccountTypeOK, history
<1>3. Places'
  <2>1. PlaceOK(r)'
    BY <1>0, <1>1 DEF IInv, Places, PlaceOK, history, Holding
  <2> QED
    BY <1>0, <1>1, <2>1, PlacesRest DEF IInv, AccountTypeOK, Places, PlaceOK, history
<1>4. Cleared' /\ ActiveCodesCrossed'
  <2>1. NoIssue
    BY <1>1 DEF IInv, NoIssue, Others, history
  <2> QED
    BY <2>1, NoIssueKeeps DEF IInv, CodesAccounted
<1>5. Spending' /\ CodesSpentOnce'
  <2>1. NoSpend
    BY <1>1 DEF IInv, NoSpend, Others, history
  <2> QED
    BY <2>1, NoSpendKeeps DEF IInv, CodesAccounted
<1>6. Granted' /\ TokensUsedOnce'
  <2>1. /\ used' = used /\ tokens' \subseteq tokens /\ passed' = passed /\ rivals' = rivals
        /\ auth[r].at \notin {"ok", "failed"}
        /\ auth'[r].at \in Holding => auth[r].at \in Holding /\ auth'[r].token = auth[r].token
    BY <1>1 DEF Holding, history, AuthSteps
  <2>2. \A t \in tokens' : r \in used[t] =>
          auth'[r].at = "failed" \/ (auth'[r].at = "drop" /\ auth'[r].token = t)
    BY <1>1 DEF IInv, AccountTypeOK, Granted, history
  <2> QED
    BY <1>1, <2>1, <2>2, TokensFewer DEF IInv, CodesAccounted
<1>7. PassesAreEarned'
  <2>1. PassesRest
    BY <1>1 DEF IInv, PassesRest, Others, history, Places, PlaceOK, Holding, AccountTypeOK
  <2> QED
    BY <2>1, <1>6, PassesRestKeep DEF IInv, CodesAccounted, AccountTypeOK
<1> QED
  BY <1>2, <1>3, <1>4, <1>5, <1>6, <1>7 DEF IInv, CodesAccounted

\* A token is stored.
LEMMA GrantTokenKeeps ==
  ASSUME IInv, NEW r \in Request, GrantToken(r)
  PROVE  IInv'
<1> USE DEF GrantToken, AuthAt
<1>0. /\ Len(sent) \in Nat /\ Len(sent) \in 0..MaxCodes /\ codes \subseteq 1..Len(sent)
      /\ DOMAIN sent = 1..Len(sent) /\ \A c \in 1..Len(sent) : c \in CodeIds
  BY CodesAreNumbers DEF IInv
<1>1. /\ auth' \in [Request -> AuthRow] /\ Others(r)
      /\ auth'[r].at = "ok"
      /\ auth'[r].op = auth[r].op /\ auth'[r].code = auth[r].code
      /\ auth'[r].token = auth[r].token
  BY AuthMoves DEF IInv, AuthSteps, AuthFinal
<1>2. AccountTypeOK'
  BY <1>0, <1>1, MaxCodesAssumption DEF IInv, AccountTypeOK, history
<1>3. Places'
  <2>1. PlaceOK(r)'
    BY <1>0, <1>1 DEF IInv, Places, PlaceOK, history, Holding
  <2> QED
    BY <1>0, <1>1, <2>1, PlacesRest DEF IInv, AccountTypeOK, Places, PlaceOK, history
<1>4. Cleared' /\ ActiveCodesCrossed'
  <2>1. NoIssue
    BY <1>1 DEF IInv, NoIssue, Others, history
  <2> QED
    BY <2>1, NoIssueKeeps DEF IInv, CodesAccounted
<1>5. Spending' /\ CodesSpentOnce'
  <2>1. NoSpend
    BY <1>1 DEF IInv, NoSpend, Others, history
  <2> QED
    BY <2>1, NoSpendKeeps DEF IInv, CodesAccounted
<1>6. Granted' /\ TokensUsedOnce'
  <2>1. /\ auth[r].at = "grant" /\ auth[r].op = "verifyReset" /\ r \in passed
        /\ tokens' = tokens \cup {r} /\ UNCHANGED <<passed, used, rivals>>
    BY DEF IInv, Places, PlaceOK, history
  <2>2. \A q \in Request : (auth[q].at \in Holding \cup {"ok", "failed"} \/ auth'[q].at \in Holding)
                             => auth'[q] = auth[q]
    BY <1>1, <2>1 DEF Others, Holding
  <2>3. \A t \in Request : t \in tokens' \/ used[t] # {} =>
          auth'[t].at = "ok" /\ auth'[t].op = "verifyReset" /\ t \in passed
    BY <1>1, <2>1, <2>2 DEF IInv, Granted
  <2>4. \A q \in Request : auth'[q].at \in Holding =>
          /\ auth'[q].token \in Request /\ auth'[auth'[q].token].at = "ok"
          /\ auth'[auth'[q].token].op = "verifyReset" /\ auth'[q].token \in passed
    <3> TAKE q \in Request
    <3> HAVE auth'[q].at \in Holding
    <3>1. auth'[q] = auth[q] /\ auth[q].at \in Holding
      BY <2>2
    <3>2. /\ auth[q].token \in Request /\ auth[auth[q].token].at = "ok"
          /\ auth[auth[q].token].op = "verifyReset" /\ auth[q].token \in passed
      BY <3>1 DEF IInv, Granted
    <3>3. auth'[auth[q].token] = auth[auth[q].token]
      BY <2>2, <3>2
    <3> QED
      BY <3>1, <3>2, <3>3
  <2>5. \A t, q \in Request : q \in used[t] =>
          t \notin tokens' \/ auth'[q].at = "failed" \/ (auth'[q].at = "drop" /\ auth'[q].token = t)
    <3> TAKE t, q \in Request
    <3> HAVE q \in used[t]
    <3>1. t # r
      BY <2>1 DEF IInv, Granted
    <3>2. t \notin tokens \/ auth[q].at = "failed" \/ (auth[q].at = "drop" /\ auth[q].token = t)
      BY DEF IInv, Granted
    <3>3. auth[q].at \in {"failed", "drop"} => auth'[q] = auth[q]
      BY <2>2 DEF Holding
    <3> QED
      BY <2>1, <3>1, <3>2, <3>3
  <2>6. \A p, q \in Request : p # q /\ auth'[p].at \in Holding =>
          /\ auth'[q].at \in Holding /\ auth'[q].token = auth'[p].token => {p, q} \in rivals
          /\ q \in used[auth'[p].token] => {p, q} \in rivals \/ auth'[q].at = "failed"
    BY <2>2 DEF IInv, Granted
  <2>7. Granted'
    BY <2>1, <2>3, <2>4, <2>5, <2>6 DEF Granted
  <2>8. TokensUsedOnce'
    BY <2>1, <2>2 DEF IInv, CodesAccounted, TokensUsedOnce, AccountTypeOK
  <2> QED
    BY <2>7, <2>8
<1>7. PassesAreEarned'
  <2>1. PassesRest
    BY <1>1 DEF IInv, PassesRest, Others, history, Places, PlaceOK, Holding, AccountTypeOK
  <2> QED
    BY <2>1, <1>6, PassesRestKeep DEF IInv, CodesAccounted, AccountTypeOK
<1> QED
  BY <1>2, <1>3, <1>4, <1>5, <1>6, <1>7 DEF IInv, CodesAccounted

\* The account of a reset is read.
LEMMA FindAccountKeeps ==
  ASSUME IInv, NEW r \in Request, FindAccount(r)
  PROVE  IInv'
<1> USE DEF FindAccount, AuthAt
<1>0. /\ Len(sent) \in Nat /\ Len(sent) \in 0..MaxCodes /\ codes \subseteq 1..Len(sent)
      /\ DOMAIN sent = 1..Len(sent) /\ \A c \in 1..Len(sent) : c \in CodeIds
  BY CodesAreNumbers DEF IInv
<1>1. /\ auth' \in [Request -> AuthRow] /\ Others(r)
      /\ auth'[r].at = (IF user.exists THEN "save password" ELSE "refused")
      /\ auth'[r].op = auth[r].op /\ auth'[r].code = auth[r].code
      /\ auth'[r].token = auth[r].token
  BY AuthMoves DEF IInv, AuthSteps, AuthFinal
<1>2. AccountTypeOK'
  BY <1>0, <1>1, MaxCodesAssumption DEF IInv, AccountTypeOK, history
<1>3. Places'
  <2>1. PlaceOK(r)'
    BY <1>0, <1>1 DEF IInv, Places, PlaceOK, history, Holding
  <2>2. /\ sent' = sent /\ passed' = passed
        /\ user'.verified => user'.exists
        /\ user.exists => user'.exists
    BY <1>1 DEF IInv, AccountTypeOK, Places, PlaceOK, history
  <2> HIDE DEF FindAccount
  <2>3. Places /\ (\A q \in Request : q # r => (q \in passed' <=> q \in passed))
    BY <2>2 DEF IInv
  <2>4. Len(sent') \in Nat /\ Len(sent) <= Len(sent') /\ \A c \in 1..Len(sent) : sent'[c] = sent[c]
    BY <1>0, <2>2
  <2> QED
    BY <1>0, <1>1, <2>1, <2>2, <2>3, <2>4, PlacesRest
<1>4. Cleared' /\ ActiveCodesCrossed'
  <2>1. NoIssue
    BY <1>1 DEF IInv, NoIssue, Others, history
  <2> QED
    BY <2>1, NoIssueKeeps DEF IInv, CodesAccounted
<1>5. Spending' /\ CodesSpentOnce'
  <2>1. NoSpend
    BY <1>1 DEF IInv, NoSpend, Others, history
  <2> QED
    BY <2>1, NoSpendKeeps DEF IInv, CodesAccounted
<1>6. Granted' /\ TokensUsedOnce'
  <2>1. /\ used' = used /\ tokens' \subseteq tokens /\ passed' = passed /\ rivals' = rivals
        /\ auth[r].at \notin {"ok", "failed"}
        /\ auth'[r].at \in Holding => auth[r].at \in Holding /\ auth'[r].token = auth[r].token
    BY <1>1 DEF Holding, history, AuthSteps
  <2>2. \A t \in tokens' : r \in used[t] =>
          auth'[r].at = "failed" \/ (auth'[r].at = "drop" /\ auth'[r].token = t)
    BY <1>1 DEF IInv, AccountTypeOK, Granted, history
  <2> QED
    BY <1>1, <2>1, <2>2, TokensFewer DEF IInv, CodesAccounted
<1>7. PassesAreEarned'
  <2>1. PassesRest
    BY <1>1 DEF IInv, PassesRest, Others, history, Places, PlaceOK, Holding, AccountTypeOK
  <2> QED
    BY <2>1, <1>6, PassesRestKeep DEF IInv, CodesAccounted, AccountTypeOK
<1> QED
  BY <1>2, <1>3, <1>4, <1>5, <1>6, <1>7 DEF IInv, CodesAccounted

\* A password is set.
LEMMA SavePasswordKeeps ==
  ASSUME IInv, NEW r \in Request, SavePassword(r)
  PROVE  IInv'
<1> USE DEF SavePassword, AuthAt
<1>0. /\ Len(sent) \in Nat /\ Len(sent) \in 0..MaxCodes /\ codes \subseteq 1..Len(sent)
      /\ DOMAIN sent = 1..Len(sent) /\ \A c \in 1..Len(sent) : c \in CodeIds
  BY CodesAreNumbers DEF IInv
<1>1. /\ auth' \in [Request -> AuthRow] /\ Others(r)
      /\ auth'[r].at = "drop"
      /\ auth'[r].op = auth[r].op /\ auth'[r].code = auth[r].code
      /\ auth'[r].token = auth[r].token
  BY AuthMoves DEF IInv, AuthSteps, AuthFinal
<1>2. AccountTypeOK'
  BY <1>0, <1>1, MaxCodesAssumption DEF IInv, AccountTypeOK, history
<1>3. Places'
  <2>1. PlaceOK(r)'
    BY <1>0, <1>1 DEF IInv, Places, PlaceOK, history, Holding
  <2>2. /\ sent' = sent /\ passed' = passed
        /\ user'.verified => user'.exists
        /\ user.exists => user'.exists
    BY <1>1 DEF IInv, AccountTypeOK, Places, PlaceOK, history
  <2> HIDE DEF SavePassword
  <2>3. Places /\ (\A q \in Request : q # r => (q \in passed' <=> q \in passed))
    BY <2>2 DEF IInv
  <2>4. Len(sent') \in Nat /\ Len(sent) <= Len(sent') /\ \A c \in 1..Len(sent) : sent'[c] = sent[c]
    BY <1>0, <2>2
  <2> QED
    BY <1>0, <1>1, <2>1, <2>2, <2>3, <2>4, PlacesRest
<1>4. Cleared' /\ ActiveCodesCrossed'
  <2>1. NoIssue
    BY <1>1 DEF IInv, NoIssue, Others, history
  <2> QED
    BY <2>1, NoIssueKeeps DEF IInv, CodesAccounted
<1>5. Spending' /\ CodesSpentOnce'
  <2>1. NoSpend
    BY <1>1 DEF IInv, NoSpend, Others, history
  <2> QED
    BY <2>1, NoSpendKeeps DEF IInv, CodesAccounted
<1>6. Granted' /\ TokensUsedOnce'
  <2> DEFINE token == auth[r].token
  <2>1. /\ auth[r].at = "save password" /\ auth[r].at \in Holding
        /\ UNCHANGED <<tokens, passed, rivals>>
    BY DEF Holding
  <2>2. /\ token \in Request /\ token # r /\ auth[token].at = "ok"
        /\ auth[token].op = "verifyReset" /\ token \in passed
    BY <2>1 DEF IInv, Granted
  <2>3. /\ used'[token] = used[token] \cup {r}
        /\ \A t \in Request : t # token => used'[t] = used[t]
    BY <2>2 DEF IInv, AccountTypeOK
  <2>4. \A q \in Request : /\ auth'[q].at \in Holding => auth[q].at \in Holding
                           /\ auth'[q].token = auth[q].token /\ auth'[q].op = auth[q].op
                           /\ q # r => auth'[q] = auth[q]
    BY <1>1, <2>1 DEF Others
  <2> HIDE DEF token
  <2>5. \A t \in Request : t \in tokens \/ used'[t] # {} =>
          auth'[t].at = "ok" /\ auth'[t].op = "verifyReset" /\ t \in passed
    <3> SUFFICES ASSUME NEW t \in Request, t \in tokens \/ used'[t] # {}
                 PROVE  auth'[t].at = "ok" /\ auth'[t].op = "verifyReset" /\ t \in passed
      OBVIOUS
    <3>1. CASE t = token
      BY <2>2, <2>4, <3>1
    <3>2. CASE t # token
      <4>1. t \in tokens \/ used[t] # {}
        BY <2>3, <3>2
      <4>2. auth[t].at = "ok" /\ auth[t].op = "verifyReset" /\ t \in passed
        BY <4>1 DEF IInv, Granted
      <4> QED
        BY <2>1, <2>4, <4>2
    <3> QED
      BY <3>1, <3>2
  <2>6. \A q \in Request : auth'[q].at \in Holding =>
          /\ auth'[q].token \in Request /\ auth'[auth'[q].token].at = "ok"
          /\ auth'[auth'[q].token].op = "verifyReset" /\ auth'[q].token \in passed
    <3> TAKE q \in Request
    <3> HAVE auth'[q].at \in Holding
    <3>1. /\ auth[q].token \in Request /\ auth[auth[q].token].at = "ok"
          /\ auth[auth[q].token].op = "verifyReset" /\ auth[q].token \in passed
      BY <2>4 DEF IInv, Granted
    <3>2. auth'[auth[q].token] = auth[auth[q].token]
      BY <2>1, <2>4, <3>1
    <3> QED
      BY <2>4, <3>1, <3>2
  <2>7. \A t, q \in Request : q \in used'[t] =>
          t \notin tokens \/ auth'[q].at = "failed" \/ (auth'[q].at = "drop" /\ auth'[q].token = t)
    <3> TAKE t, q \in Request
    <3> HAVE q \in used'[t]
    <3>1. CASE q \in used[t]
      <4>1. t \notin tokens \/ auth[q].at = "failed" \/ (auth[q].at = "drop" /\ auth[q].token = t)
        BY <3>1 DEF IInv, Granted
      <4> QED
        BY <2>1, <2>4, <4>1
    <3>2. CASE q \notin used[t]
      <4>1. q = r /\ t = token
        BY <2>3, <3>2
      <4> QED
        BY <1>1, <4>1 DEF token
    <3> QED
      BY <3>1, <3>2
  <2>8. \A p, q \in Request : p # q /\ auth[p].at \in Holding =>
          /\ auth[q].at \in Holding /\ auth[q].token = auth[p].token => {p, q} \in rivals
          /\ q \in used'[auth[p].token] => {p, q} \in rivals \/ (auth[q].at = "failed" /\ q # r)
    <3> TAKE p, q \in Request
    <3> HAVE p # q /\ auth[p].at \in Holding
    <3>1. auth[p].token \in Request
      BY DEF IInv, Granted
    <3>2. auth[q].at \in Holding /\ auth[q].token = auth[p].token => {p, q} \in rivals
      BY DEF IInv, Granted
    <3>3. q \in used[auth[p].token] => {p, q} \in rivals \/ auth[q].at = "failed"
      BY DEF IInv, Granted
    <3>4. q \in used'[auth[p].token] => q \in used[auth[p].token] \/ (q = r /\ auth[p].token = token)
      BY <2>3, <3>1
    <3>5. q = r /\ auth[p].token = token => {p, q} \in rivals
      BY <2>1, <3>2 DEF token
    <3> QED
      BY <2>1, <3>2, <3>3, <3>4, <3>5
  <2>9. Granted'
    BY <2>1, <2>4, <2>5, <2>6, <2>7, <2>8 DEF Granted
  <2>10. TokensUsedOnce'
    <3> SUFFICES ASSUME NEW t \in Request, NEW p \in used'[t], NEW q \in used'[t], p # q
                 PROVE  {p, q} \in rivals \/ auth'[p].at = "failed" \/ auth'[q].at = "failed"
      BY <2>1 DEF TokensUsedOnce
    <3>1. /\ p \in used[t] \/ (p = r /\ t = token)
          /\ q \in used[t] \/ (q = r /\ t = token)
          /\ p \in Request /\ q \in Request
      BY <2>3 DEF IInv, AccountTypeOK
    <3>2. CASE p \in used[t] /\ q \in used[t]
      BY <2>1, <2>4, <3>1, <3>2, ZenonT(40) DEF IInv, CodesAccounted, TokensUsedOnce
    <3>3. CASE p = r /\ t = token
      BY <2>1, <2>4, <2>8, <3>1, <3>3 DEF token
    <3>4. CASE q = r /\ t = token
      <4>1. {p, q} = {q, p}
        OBVIOUS
      <4>2. auth[q].token = token /\ auth[q].at \in Holding /\ q # p
        BY <2>1, <3>4 DEF token
      <4>3. {q, p} \in rivals \/ (auth[p].at = "failed" /\ p # r)
        BY <2>8, <3>1, <3>4, <4>2
      <4> QED
        BY <2>4, <3>1, <4>1, <4>3
    <3> QED
      BY <3>1, <3>2, <3>3, <3>4
  <2> QED
    BY <2>9, <2>10
<1>7. PassesAreEarned'
  <2>1. PassesRest
    BY <1>1 DEF IInv, PassesRest, Others, history, Places, PlaceOK, Holding, AccountTypeOK
  <2> QED
    BY <2>1, <1>6, PassesRestKeep DEF IInv, CodesAccounted, AccountTypeOK
<1> QED
  BY <1>2, <1>3, <1>4, <1>5, <1>6, <1>7 DEF IInv, CodesAccounted

\* The used token goes.
LEMMA DropTokenKeeps ==
  ASSUME IInv, NEW r \in Request, DropToken(r)
  PROVE  IInv'
<1> USE DEF DropToken, AuthAt
<1>0. /\ Len(sent) \in Nat /\ Len(sent) \in 0..MaxCodes /\ codes \subseteq 1..Len(sent)
      /\ DOMAIN sent = 1..Len(sent) /\ \A c \in 1..Len(sent) : c \in CodeIds
  BY CodesAreNumbers DEF IInv
<1>1. /\ auth' \in [Request -> AuthRow] /\ Others(r)
      /\ auth'[r].at = "ok"
      /\ auth'[r].op = auth[r].op /\ auth'[r].code = auth[r].code
      /\ auth'[r].token = auth[r].token
  BY AuthMoves DEF IInv, AuthSteps, AuthFinal
<1>2. AccountTypeOK'
  BY <1>0, <1>1, MaxCodesAssumption DEF IInv, AccountTypeOK, history
<1>3. Places'
  <2>1. PlaceOK(r)'
    BY <1>0, <1>1 DEF IInv, Places, PlaceOK, history, Holding
  <2> QED
    BY <1>0, <1>1, <2>1, PlacesRest, SMTT(20) DEF IInv, AccountTypeOK, Places, PlaceOK, history
<1>4. Cleared' /\ ActiveCodesCrossed'
  <2>1. NoIssue
    BY <1>1 DEF IInv, NoIssue, Others, history
  <2> QED
    BY <2>1, NoIssueKeeps DEF IInv, CodesAccounted
<1>5. Spending' /\ CodesSpentOnce'
  <2>1. NoSpend
    BY <1>1 DEF IInv, NoSpend, Others, history
  <2> QED
    BY <2>1, NoSpendKeeps DEF IInv, CodesAccounted
<1>6. Granted' /\ TokensUsedOnce'
  <2>1. /\ used' = used /\ tokens' \subseteq tokens /\ passed' = passed /\ rivals' = rivals
        /\ auth[r].at \notin {"ok", "failed"}
        /\ auth'[r].at \in Holding => auth[r].at \in Holding /\ auth'[r].token = auth[r].token
    BY <1>1 DEF Holding, history, AuthSteps
  <2>2. \A t \in tokens' : r \in used[t] =>
          auth'[r].at = "failed" \/ (auth'[r].at = "drop" /\ auth'[r].token = t)
    BY <1>1 DEF IInv, AccountTypeOK, Granted, history
  <2> QED
    BY <1>1, <2>1, <2>2, TokensFewer DEF IInv, CodesAccounted
<1>7. PassesAreEarned'
  <2>1. PassesRest
    BY <1>1 DEF IInv, PassesRest, Others, history, Places, PlaceOK, Holding, AccountTypeOK
  <2> QED
    BY <2>1, <1>6, PassesRestKeep DEF IInv, CodesAccounted, AccountTypeOK
<1> QED
  BY <1>2, <1>3, <1>4, <1>5, <1>6, <1>7 DEF IInv, CodesAccounted

\* A request fails.
LEMMA AuthFailsKeeps ==
  ASSUME IInv, NEW r \in Request, AuthFails(r)
  PROVE  IInv'
<1> USE DEF AuthFails, AuthAt
<1>0. /\ Len(sent) \in Nat /\ Len(sent) \in 0..MaxCodes /\ codes \subseteq 1..Len(sent)
      /\ DOMAIN sent = 1..Len(sent) /\ \A c \in 1..Len(sent) : c \in CodeIds
  BY CodesAreNumbers DEF IInv
<1>1. /\ auth' \in [Request -> AuthRow] /\ Others(r)
      /\ auth'[r].at = "failed"
      /\ auth'[r].op = auth[r].op /\ auth'[r].code = auth[r].code
      /\ auth'[r].token = auth[r].token
  BY AuthMoves DEF IInv, AuthSteps, AuthFinal
<1>2. AccountTypeOK'
  BY <1>0, <1>1, MaxCodesAssumption DEF IInv, AccountTypeOK, history
<1>3. Places'
  <2>1. PlaceOK(r)'
    BY <1>0, <1>1 DEF IInv, Places, PlaceOK, history, Holding
  <2> QED
    BY <1>0, <1>1, <2>1, PlacesRest DEF IInv, AccountTypeOK, Places, PlaceOK, history
<1>4. Cleared' /\ ActiveCodesCrossed'
  <2>1. NoIssue
    BY <1>1 DEF IInv, NoIssue, Others, history
  <2> QED
    BY <2>1, NoIssueKeeps DEF IInv, CodesAccounted
<1>5. Spending' /\ CodesSpentOnce'
  <2>1. NoSpend
    BY <1>1 DEF IInv, NoSpend, Others, history
  <2> QED
    BY <2>1, NoSpendKeeps DEF IInv, CodesAccounted
<1>6. Granted' /\ TokensUsedOnce'
  <2>1. /\ used' = used /\ tokens' \subseteq tokens /\ passed' = passed /\ rivals' = rivals
        /\ auth[r].at \notin {"ok", "failed"}
        /\ auth'[r].at \in Holding => auth[r].at \in Holding /\ auth'[r].token = auth[r].token
    BY <1>1 DEF Holding, history, AuthSteps
  <2>2. \A t \in tokens' : r \in used[t] =>
          auth'[r].at = "failed" \/ (auth'[r].at = "drop" /\ auth'[r].token = t)
    BY <1>1 DEF IInv, AccountTypeOK, Granted, history
  <2> QED
    BY <1>1, <2>1, <2>2, TokensFewer DEF IInv, CodesAccounted
<1>7. PassesAreEarned'
  <2>1. PassesRest
    BY <1>1 DEF IInv, PassesRest, Others, history, Places, PlaceOK, Holding, AccountTypeOK
  <2> QED
    BY <2>1, <1>6, PassesRestKeep DEF IInv, CodesAccounted, AccountTypeOK
<1> QED
  BY <1>2, <1>3, <1>4, <1>5, <1>6, <1>7 DEF IInv, CodesAccounted

\* A code is found, or the request refused.
LEMMA FindCodeKeeps ==
  ASSUME IInv, NEW r \in Request, NEW c \in DOMAIN sent, FindCode(r, c)
  PROVE  IInv'
<1> USE DEF FindCode, AuthAt
<1>0. /\ Len(sent) \in Nat /\ Len(sent) \in 0..MaxCodes /\ codes \subseteq 1..Len(sent)
      /\ DOMAIN sent = 1..Len(sent) /\ \A d \in 1..Len(sent) : d \in CodeIds
  BY CodesAreNumbers DEF IInv
<1>1. /\ auth' \in [Request -> AuthRow] /\ Others(r)
      /\ auth'[r].op = auth[r].op
      /\ \/ /\ auth'[r].at = "destroy" /\ auth'[r].code = c /\ c \in OfKind(KindOf(auth[r].op))
            /\ Met(r, CodeHolders(r, c))
         \/ auth'[r].at = "refused" /\ rivals' = rivals
  <2>1. CASE c \in OfKind(KindOf(auth[r].op)) \ expired
    <3>1. auth[r] \in AuthRow
      BY DEF IInv, AccountTypeOK
    <3>0. c \in 0..MaxCodes
      BY <1>0, MaxCodesAssumption DEF CodeIds
    <3>2. [auth[r] EXCEPT !.at = "destroy", !.code = c] \in AuthRow
      BY <3>0, <3>1 DEF AuthRow, AuthSteps, AuthFinal
    <3>3. auth' = [auth EXCEPT ![r] = [auth[r] EXCEPT !.at = "destroy", !.code = c]]
      BY <2>1, <3>1 DEF IInv, AccountTypeOK, AuthRow
    <3>4. auth' \in [Request -> AuthRow] /\ auth'[r] = [auth[r] EXCEPT !.at = "destroy", !.code = c] /\ Others(r)
      BY <3>2, <3>3, Updated DEF IInv
    <3>5. auth'[r].at = "destroy" /\ auth'[r].code = c /\ auth'[r].op = auth[r].op
      BY <3>1, <3>4 DEF AuthRow
    <3>6. c \in OfKind(KindOf(auth[r].op)) /\ Met(r, CodeHolders(r, c))
      BY <2>1
    <3> QED
      BY <3>4, <3>5, <3>6
  <2>2. CASE c \notin OfKind(KindOf(auth[r].op)) \ expired
    BY <2>2, AuthMoves DEF IInv, AuthSteps, AuthFinal
  <2> QED
    BY <2>1, <2>2
<1>8. /\ rivals' \subseteq SUBSET Request /\ rivals \subseteq rivals'
      /\ auth[r].at = "find" /\ auth'[r].at \notin {"find", "issue"}
  <2>1. {{r, q} : q \in CodeHolders(r, c)} \subseteq SUBSET Request
    <3>1. CodeHolders(r, c) \subseteq Request
      BY DEF CodeHolders
    <3> QED
      BY <3>1
  <2>2. rivals \subseteq SUBSET Request
    BY DEF IInv, AccountTypeOK
  <2>3. rivals' = rivals \/ rivals' = rivals \cup {{r, q} : q \in CodeHolders(r, c)}
    BY <1>1 DEF Met
  <2> QED
    BY <1>1, <2>1, <2>2, <2>3
<1>2. AccountTypeOK'
  BY <1>0, <1>1, <1>8 DEF IInv, AccountTypeOK
<1>3. Places'
  <2>1. PlaceOK(r)'
    BY <1>0, <1>1 DEF IInv, Places, PlaceOK, history, Holding, OfKind
  <2> QED
    BY <1>0, <1>1, <2>1, PlacesRest DEF IInv, AccountTypeOK, Places, PlaceOK, history
<1>4. Cleared' /\ ActiveCodesCrossed'
  <2>1. NoIssue
    BY <1>1 DEF IInv, NoIssue, Others, history
  <2> QED
    BY <2>1, NoIssueKeeps DEF IInv, CodesAccounted
<1>5. Spending' /\ CodesSpentOnce'
  <2>1. CASE auth'[r].at = "refused" /\ rivals' = rivals
    <3>1. NoSpend
      BY <1>1, <2>1 DEF NoSpend, Others
    <3> QED
      BY <3>1, NoSpendKeeps DEF IInv, CodesAccounted
  <2>2. CASE /\ auth'[r].at = "destroy" /\ auth'[r].code = c /\ c \in OfKind(KindOf(auth[r].op))
             /\ Met(r, CodeHolders(r, c))
    <3>1. /\ c \in codes /\ spent[c] = {}
          /\ rivals \subseteq rivals' /\ UNCHANGED <<sent, codes, spent, passed>>
      BY <1>0, <2>2 DEF OfKind, Met, IInv, Spending
    <3>2. \A q \in Request : q # r /\ auth[q].at = "destroy" /\ auth[q].code = c =>
            {r, q} \in rivals' /\ {q, r} \in rivals'
      <4> TAKE q \in Request
      <4>1. {r, q} = {q, r}
        OBVIOUS
      <4> QED
        BY <2>2, <4>1 DEF Met, CodeHolders
    <3>3. \A p, q \in Request : p # q /\ auth'[p].at = "destroy" =>
            /\ auth'[q].at = "destroy" /\ auth'[q].code = auth'[p].code => {p, q} \in rivals'
            /\ q \in spent[auth'[p].code] => {p, q} \in rivals'
      <4> TAKE p, q \in Request
      <4> HAVE p # q /\ auth'[p].at = "destroy"
      <4>1. CASE p = r
        BY <1>1, <2>2, <3>1, <3>2, <4>1 DEF Others
      <4>2. CASE q = r
        <5>1. auth'[p] = auth[p]
          BY <1>1, <4>2 DEF Others
        <5>2. q \in spent[auth[p].code] => {p, q} \in rivals
          BY <5>1 DEF IInv, Spending
        <5> QED
          BY <2>2, <3>1, <3>2, <4>2, <5>1, <5>2
      <4>3. CASE p # r /\ q # r
        <5>1. auth'[p] = auth[p] /\ auth'[q] = auth[q]
          BY <1>1, <4>3 DEF Others
        <5> QED
          BY <3>1, <5>1 DEF IInv, Spending
      <4> QED
        BY <4>1, <4>2, <4>3
    <3>4. Spending'
      BY <3>1, <3>3 DEF IInv, Spending
    <3> QED
      BY <3>1, <3>4 DEF IInv, CodesAccounted, CodesSpentOnce
  <2> QED
    BY <1>1, <2>1, <2>2
<1>6. Granted' /\ TokensUsedOnce'
  <2>1. TokensRest
    BY <1>1, <1>8 DEF TokensRest, Others, Holding
  <2> QED
    BY <2>1, TokensRestKeep DEF IInv, CodesAccounted
<1>7. PassesAreEarned'
  <2>1. PassesRest
    BY <1>1 DEF IInv, PassesRest, Others, history, Places, PlaceOK, Holding, AccountTypeOK
  <2> QED
    BY <2>1, <1>6, PassesRestKeep DEF IInv, CodesAccounted, AccountTypeOK
<1> QED
  BY <1>2, <1>3, <1>4, <1>5, <1>6, <1>7 DEF IInv, CodesAccounted

\* A token is found, or the request refused.
LEMMA ResetPasswordKeeps ==
  ASSUME IInv, NEW r \in Request, NEW t \in Request, ResetPassword(r, t)
  PROVE  IInv'
<1> USE DEF ResetPassword, AuthAt
<1>0. /\ Len(sent) \in Nat /\ Len(sent) \in 0..MaxCodes /\ codes \subseteq 1..Len(sent)
      /\ DOMAIN sent = 1..Len(sent) /\ \A c \in 1..Len(sent) : c \in CodeIds
  BY CodesAreNumbers DEF IInv
<1>1. /\ auth' \in [Request -> AuthRow] /\ Others(r)
      /\ auth'[r].op = "reset"
      /\ \/ /\ auth'[r].at = "account" /\ auth'[r].token = t /\ t \in tokens
            /\ Met(r, TokenHolders(r, t))
         \/ auth'[r].at = "refused" /\ rivals' = rivals
  <2>1. CASE t \in tokens \ lapsed
    <3>1. auth[r] \in AuthRow
      BY DEF IInv, AccountTypeOK
    <3>2. [auth[r] EXCEPT !.op = "reset", !.at = "account", !.token = t] \in AuthRow
      BY <3>1, <1>0, MaxCodesAssumption DEF AuthRow, AuthSteps, AuthFinal
    <3>3. auth' = [auth EXCEPT ![r] = [auth[r] EXCEPT !.op = "reset", !.at = "account", !.token = t]]
      BY <3>1 DEF IInv, AccountTypeOK, AuthRow
    <3>4. auth' \in [Request -> AuthRow] /\ auth'[r] = [auth[r] EXCEPT !.op = "reset", !.at = "account", !.token = t] /\ Others(r)
      BY <3>2, <3>3, Updated DEF IInv
    <3> QED
      BY <3>1, <3>4 DEF AuthRow
  <2>2. CASE t \notin tokens \ lapsed
    <3>1. auth[r] \in AuthRow
      BY DEF IInv, AccountTypeOK
    <3>2. [auth[r] EXCEPT !.op = "reset", !.at = "refused"] \in AuthRow
      BY <3>1, <1>0, MaxCodesAssumption DEF AuthRow, AuthSteps, AuthFinal
    <3>3. auth' = [auth EXCEPT ![r] = [auth[r] EXCEPT !.op = "reset", !.at = "refused"]]
      BY <3>1 DEF IInv, AccountTypeOK, AuthRow
    <3>4. auth' \in [Request -> AuthRow] /\ auth'[r] = [auth[r] EXCEPT !.op = "reset", !.at = "refused"] /\ Others(r)
      BY <3>2, <3>3, Updated DEF IInv
    <3> QED
      BY <3>1, <3>4 DEF AuthRow
  <2> QED
    BY <2>1, <2>2
<1>8. /\ rivals' \subseteq SUBSET Request /\ rivals \subseteq rivals'
      /\ auth[r].at = "idle" /\ auth'[r].at \notin {"find", "issue"}
  <2>1. {{r, q} : q \in TokenHolders(r, t)} \subseteq SUBSET Request
    <3>1. TokenHolders(r, t) \subseteq Request
      BY DEF TokenHolders
    <3> QED
      BY <3>1
  <2>2. rivals \subseteq SUBSET Request
    BY DEF IInv, AccountTypeOK
  <2>3. rivals' = rivals \/ rivals' = rivals \cup {{r, q} : q \in TokenHolders(r, t)}
    BY <1>1 DEF Met
  <2> QED
    BY <1>1, <2>1, <2>2, <2>3
<1>2. AccountTypeOK'
  BY <1>0, <1>1, <1>8 DEF IInv, AccountTypeOK
<1>3. Places'
  <2>1. PlaceOK(r)'
    BY <1>0, <1>1 DEF IInv, Places, PlaceOK, history, Holding
  <2> QED
    BY <1>0, <1>1, <2>1, PlacesRest DEF IInv, AccountTypeOK, Places, PlaceOK, history
<1>4. Cleared' /\ ActiveCodesCrossed'
  <2>1. NoIssue
    BY <1>1 DEF IInv, NoIssue, Others, history
  <2> QED
    BY <2>1, NoIssueKeeps DEF IInv, CodesAccounted
<1>5. Spending' /\ CodesSpentOnce'
  <2>1. NoSpend
    BY <1>1, <1>8 DEF NoSpend, Others
  <2> QED
    BY <2>1, NoSpendKeeps DEF IInv, CodesAccounted
<1>6. Granted' /\ TokensUsedOnce'
  <2>0. auth[r].at = "idle" /\ UNCHANGED <<tokens, passed, used>>
    OBVIOUS
  <2>1. CASE auth'[r].at = "refused" /\ rivals' = rivals
    <3>1. TokensRest
      BY <1>1, <2>0, <2>1 DEF TokensRest, Others, Holding
    <3> QED
      BY <3>1, TokensRestKeep DEF IInv, CodesAccounted
  <2>2. CASE auth'[r].at = "account" /\ auth'[r].token = t /\ t \in tokens /\ Met(r, TokenHolders(r, t))
    <3>1. /\ rivals \subseteq rivals'
          /\ \A q \in Request : q # r => auth'[q] = auth[q]
          /\ \A q \in Request : auth[q].at \in {"ok", "failed", "drop"} => auth'[q] = auth[q]
      BY <1>1, <2>0, <2>2 DEF Met, Others
    <3>2. \A q \in Request : q # r /\ auth[q].at \in Holding /\ auth[q].token = t =>
            {r, q} \in rivals' /\ {q, r} \in rivals'
      <4> TAKE q \in Request
      <4>1. {r, q} = {q, r}
        OBVIOUS
      <4> QED
        BY <2>2, <4>1 DEF Met, TokenHolders, Holding
    <3>3. \A x \in Request : x \in tokens \/ used[x] # {} =>
            auth'[x].at = "ok" /\ auth'[x].op = "verifyReset" /\ x \in passed
      BY <2>0, <3>1 DEF IInv, Granted
    <3>4. \A q \in Request : auth'[q].at \in Holding =>
            /\ auth'[q].token \in Request /\ auth'[auth'[q].token].at = "ok"
            /\ auth'[auth'[q].token].op = "verifyReset" /\ auth'[q].token \in passed
      <4> TAKE q \in Request
      <4> HAVE auth'[q].at \in Holding
      <4>1. CASE q = r
        BY <2>2, <3>3, <4>1
      <4>2. CASE q # r
        <5>1. auth'[q] = auth[q]
          BY <3>1, <4>2
        <5>2. /\ auth[q].token \in Request /\ auth[auth[q].token].at = "ok"
              /\ auth[auth[q].token].op = "verifyReset" /\ auth[q].token \in passed
          BY <5>1 DEF IInv, Granted
        <5> QED
          BY <3>1, <5>1, <5>2
      <4> QED
        BY <4>1, <4>2
    <3>5. \A x, q \in Request : q \in used[x] =>
            x \notin tokens \/ auth'[q].at = "failed" \/ (auth'[q].at = "drop" /\ auth'[q].token = x)
      BY <3>1 DEF IInv, Granted
    <3>6. \A p, q \in Request : p # q /\ auth'[p].at \in Holding =>
            /\ auth'[q].at \in Holding /\ auth'[q].token = auth'[p].token => {p, q} \in rivals'
            /\ q \in used[auth'[p].token] => {p, q} \in rivals' \/ auth'[q].at = "failed"
      <4> TAKE p, q \in Request
      <4> HAVE p # q /\ auth'[p].at \in Holding
      <4>1. CASE p = r
        <5>1. auth'[q] = auth[q]
          BY <3>1, <4>1
        <5>2. q \in used[t] => auth[q].at = "failed" \/ (auth[q].at = "drop" /\ auth[q].token = t)
          BY <2>2 DEF IInv, Granted
        <5> QED
          BY <2>2, <3>2, <4>1, <5>1, <5>2 DEF Holding
      <4>2. CASE q = r
        <5>1. auth'[p] = auth[p]
          BY <3>1, <4>2
        <5>2. q \in used[auth[p].token] => {p, q} \in rivals
          BY <2>0, <4>2, <5>1 DEF IInv, Granted
        <5> QED
          BY <2>2, <3>1, <3>2, <4>2, <5>1, <5>2
      <4>3. CASE p # r /\ q # r
        <5>1. auth'[p] = auth[p] /\ auth'[q] = auth[q]
          BY <3>1, <4>3
        <5>2. auth[q].at \in Holding /\ auth[q].token = auth[p].token => {p, q} \in rivals
          BY <5>1 DEF IInv, Granted
        <5>3. q \in used[auth[p].token] => {p, q} \in rivals \/ auth[q].at = "failed"
          BY <5>1 DEF IInv, Granted
        <5> QED
          BY <3>1, <5>1, <5>2, <5>3
      <4> QED
        BY <4>1, <4>2, <4>3
    <3>7. Granted'
      BY <2>0, <3>3, <3>4, <3>5, <3>6 DEF Granted
    <3>8. TokensUsedOnce'
      BY <2>0, <3>1 DEF IInv, CodesAccounted, TokensUsedOnce, AccountTypeOK
    <3> QED
      BY <3>7, <3>8
  <2> QED
    BY <1>1, <2>1, <2>2
<1>7. PassesAreEarned'
  <2>1. PassesRest
    BY <1>1 DEF IInv, PassesRest, Others, history, Places, PlaceOK, Holding, AccountTypeOK
  <2> QED
    BY <2>1, <1>6, PassesRestKeep DEF IInv, CodesAccounted, AccountTypeOK
<1> QED
  BY <1>2, <1>3, <1>4, <1>5, <1>6, <1>7 DEF IInv, CodesAccounted

\* Time passes for a code or a token.
LEMMA TimeKeeps ==
  ASSUME IInv, AccountTime
  PROVE  IInv'
<1>1. /\ expired' \subseteq 1..Len(sent) /\ lapsed' \subseteq Request
      /\ UNCHANGED <<user, static, sent, codes, tokens, auth, history>>
  BY DEF IInv, AccountTypeOK, AccountTime, ExpireCode, ExpireToken
<1>2. AccountTypeOK'
  BY <1>1 DEF IInv, AccountTypeOK, history
<1>3. Places' /\ Cleared' /\ Spending'
  BY <1>1 DEF IInv, Places, PlaceOK, Cleared, Spending, AuthAt, KindOf, history
<1>4. Granted'
  BY <1>1 DEF IInv, Granted, AuthAt, history
<1>5. ActiveCodesCrossed' /\ CodesSpentOnce' /\ TokensUsedOnce'
  BY <1>1 DEF IInv, CodesAccounted, ActiveCodesCrossed, CodesSpentOnce, TokensUsedOnce, AuthAt, history
<1>6. PassesAreEarned'
  BY <1>1 DEF IInv, CodesAccounted, PassesAreEarned, AuthAt, KindOf, history
<1> QED
  BY <1>2, <1>3, <1>4, <1>5, <1>6 DEF IInv, CodesAccounted

-----------------------------------------------------------------------------
(* One-time codes: the theorems *)

\* Every step keeps the invariant.
LEMMA NextIInv == IInv /\ [AccountNext]_accountVars => IInv'
<1> SUFFICES ASSUME IInv, [AccountNext]_accountVars PROVE IInv'
  OBVIOUS
<1>1. ASSUME NEW r \in Request, AccountStep(r) PROVE IInv'
  <2>0. user.exists \in BOOLEAN /\ user.verified \in BOOLEAN
    BY DEF IInv, AccountTypeOK
  <2>1. CASE Register(r) \/ CreateUser(r)
    BY <2>0, <2>1, BeginKeeps DEF Register, CreateUser
  <2>2. CASE ResendEmailOtp(r) \/ ForgotPassword(r)
    BY <2>0, <2>2, BeginKeeps DEF ResendEmailOtp, ForgotPassword
  <2>3. CASE VerifyEmailOtp(r) \/ VerifyPasswordResetOtp(r)
    BY <2>0, <2>3, BeginKeeps DEF VerifyEmailOtp, VerifyPasswordResetOtp
  <2> QED
    BY <1>1, <2>1, <2>2, <2>3, CreateKeeps, LogUserKeeps, ClearCodesKeeps, IssueCodeKeeps,
       DestroyCodeKeeps, StaticCodeKeeps, SaveVerifiedKeeps, RetireTokensKeeps, GrantTokenKeeps,
       FindAccountKeeps, SavePasswordKeeps, DropTokenKeeps, AuthFailsKeeps, FindCodeKeeps,
       ResetPasswordKeeps
       DEF AccountStep
<1>2. CASE UNCHANGED accountVars
  <2>1. UNCHANGED <<user, static, sent, codes, expired, tokens, lapsed, auth, passed, spent, used, rivals>>
    BY <1>2 DEF accountVars
  <2>2. AccountTypeOK' /\ Places' /\ Cleared' /\ Spending'
    BY <2>1 DEF IInv, AccountTypeOK, Places, PlaceOK, Cleared, Spending, AuthAt, KindOf
  <2>3. Granted' /\ CodesAccounted'
    BY <2>1 DEF IInv, Granted, CodesAccounted, ActiveCodesCrossed, CodesSpentOnce, TokensUsedOnce,
                PassesAreEarned, AuthAt, KindOf
  <2> QED
    BY <2>2, <2>3 DEF IInv
<1> QED
  BY <1>1, <1>2, TimeKeeps DEF AccountNext

\* The invariant holds in every behaviour.
LEMMA InvariantHolds == AccountSpec => []IInv
<1>1. AccountInit /\ faults = 0 => IInv
  BY InitIInv
<1>2. IInv /\ [AccountNext]_<<accountVars, faults>> => IInv'
  BY NextIInv
<1> QED
  BY <1>1, <1>2, PTL DEF AccountSpec

\* The tables and the requests of an account keep their types.
THEOREM AccountTypeCorrect == AccountSpec => []AccountTypeOK
<1>1. IInv => AccountTypeOK
  BY DEF IInv
<1> QED
  BY <1>1, InvariantHolds, PTL

\* Whatever requests overlap and fail, two codes are active, a code or a token is
\* used twice, or an accepted code has no effect only where requests crossed or
\* one failed.
THEOREM CodesStayAccounted == AccountSpec => []CodesAccounted
<1>1. IInv => CodesAccounted
  BY DEF IInv
<1> QED
  BY <1>1, InvariantHolds, PTL

-----------------------------------------------------------------------------
(* Counting, folds and sorted sets *)

\* A set of natural numbers has a least one.
LEMMA LeastNumber ==
  ASSUME NEW K \in SUBSET Nat, K # {}
  PROVE  \E x \in K : \A y \in K : x <= y
<1> DEFINE R == OpToRel(<, Nat)
<1>1. IsWellFoundedOn(R, Nat)
  BY NatLessThanWellFounded
<1>2. \A x, y \in Nat : <<y, x>> \in R <=> y < x
  BY DEF OpToRel
<1> HIDE DEF R
<1>3. PICK x \in K : \A y \in K : ~(<<y, x>> \in R)
  BY <1>1, WFMin
<1>4. ASSUME NEW y \in K PROVE x <= y
  <2>1. x \in Nat /\ y \in Nat /\ ~(<<y, x>> \in R)
    BY <1>3
  <2>2. ~(y < x)
    BY <1>2, <2>1, Zenon
  <2> QED
    BY <2>1, <2>2
<1> QED
  BY <1>4

\* Counting upwards reaches every number.
LEMMA CountUp ==
  ASSUME NEW n \in Nat, NEW G, 0 \in G, \A k \in 0..n : k < n /\ k \in G => k + 1 \in G
  PROVE  \A k \in 0..n : k \in G
<1> DEFINE K == {k \in 0..n : k \notin G}
<1> SUFFICES ASSUME K # {} PROVE FALSE
  OBVIOUS
<1>1. PICK x \in K : \A y \in K : x <= y
  <2>1. K \in SUBSET Nat
    OBVIOUS
  <2> QED
    BY <2>1, LeastNumber
<1>2. x \in Nat /\ x # 0 /\ x <= n
  OBVIOUS
<1>3. x - 1 \in 0..n /\ x - 1 < n /\ ~(x <= x - 1)
  BY <1>2
<1>4. x - 1 \in G
  BY <1>1, <1>3
<1>5. (x - 1) + 1 = x
  BY <1>2
<1>6. x \in G
  BY <1>3, <1>4, <1>5
<1> QED
  BY <1>6

\* The greatest of some numbers up to n is one of them.
LEMMA MaxIs ==
  ASSUME NEW n \in Nat, NEW t \in SUBSET (1..n), t # {}
  PROVE  Max(t) \in t /\ \A y \in t : Max(t) >= y
<1> DEFINE K == {n - y : y \in t}
<1>0. \A y \in t : y \in Nat /\ n - y \in Nat
  OBVIOUS
<1>1. K \in SUBSET Nat /\ K # {}
  BY <1>0
<1>2. PICK x \in K : \A y \in K : x <= y
  BY <1>1, LeastNumber
<1>3. PICK z \in t : x = n - z
  OBVIOUS
<1>4. ASSUME NEW y \in t PROVE z >= y
  <2>1. x <= n - y
    BY <1>2
  <2> QED
    BY <1>3, <2>1
<1> QED
  BY <1>4 DEF Max

\* The greatest number up to n is n, and below it are those up to n - 1.
LEMMA MaxOfInterval ==
  ASSUME NEW n \in Nat, n # 0
  PROVE  Max(1..n) = n /\ (1..n) \ {n} = 1..(n - 1)
<1>1. n \in 1..n
  OBVIOUS
<1>2. Max(1..n) \in 1..n /\ Max(1..n) >= n
  BY <1>1, MaxIs
<1>3. Max(1..n) = n
  BY <1>2
<1> QED
  BY <1>3

\* A table of what a fold makes of each part of a set, one element after another.
Table(g, op, base, pick, S) ==
  g = [t \in SUBSET S |-> IF t = {} THEN base ELSE op[<<g[t \ {pick[t]}], pick[t]>>]]

\* There is one.
LEMMA TableExists ==
  ASSUME NEW S, IsFiniteSet(S), NEW D, NEW op \in [D \X S -> D], NEW base \in D,
         NEW pick, \A t \in SUBSET S : t # {} => pick[t] \in t
  PROVE  \E g \in [SUBSET S -> D] : Table(g, op, base, pick, S)
<1> DEFINE n == Cardinality(S)
           Right(g, t) == g[t] = IF t = {} THEN base ELSE op[<<g[t \ {pick[t]}], pick[t]>>]
           Upto(g, k) == \A t \in SUBSET S : Cardinality(t) <= k => Right(g, t)
           G == {k \in 0..n : \E g \in [SUBSET S -> D] : Upto(g, k)}
<1>1. n \in Nat /\ \A t \in SUBSET S : IsFiniteSet(t) /\ Cardinality(t) \in 0..n
  BY FS_CardinalityType, FS_Subset
<1>2. 0 \in G
  <2> DEFINE g == [t \in SUBSET S |-> base]
  <2>1. g \in [SUBSET S -> D]
    OBVIOUS
  <2>2. ASSUME NEW t \in SUBSET S, Cardinality(t) <= 0 PROVE Right(g, t)
    <3>1. t = {}
      BY <1>1, <2>2, FS_EmptySet
    <3> QED
      BY <3>1
  <2> HIDE DEF g, Right
  <2>3. Upto(g, 0)
    BY <2>2
  <2> QED
    BY <1>1, <2>1, <2>3
<1>3. ASSUME NEW k \in 0..n, k < n, k \in G PROVE k + 1 \in G
  <2>1. PICK g \in [SUBSET S -> D] : Upto(g, k)
    BY <1>3
  <2> DEFINE h == [t \in SUBSET S |->
                     IF Cardinality(t) = k + 1 THEN op[<<g[t \ {pick[t]}], pick[t]>>] ELSE g[t]]
  <2>2. ASSUME NEW t \in SUBSET S, t # {}
        PROVE  /\ pick[t] \in S /\ t \ {pick[t]} \in SUBSET S
               /\ Cardinality(t \ {pick[t]}) = Cardinality(t) - 1
    BY <1>1, <2>2, FS_RemoveElement
  <2>3. ASSUME NEW t \in SUBSET S, Cardinality(t) = k + 1 PROVE t # {}
    <3> SUFFICES ASSUME t = {} PROVE FALSE
      OBVIOUS
    <3>1. Cardinality(t) = 0 /\ k \in Nat /\ k + 1 # 0
      BY FS_EmptySet
    <3> QED
      BY <2>3, <3>1
  <2>4. h \in [SUBSET S -> D]
    <3>1. ASSUME NEW t \in SUBSET S, Cardinality(t) = k + 1
          PROVE  op[<<g[t \ {pick[t]}], pick[t]>>] \in D
      BY <2>2, <2>3, <3>1
    <3> QED
      BY <3>1
  <2>5. ASSUME NEW t \in SUBSET S, Cardinality(t) <= k + 1 PROVE Right(h, t)
    <3>1. CASE Cardinality(t) = k + 1
      <4>1. t # {} /\ Cardinality(t \ {pick[t]}) = k /\ k # k + 1
        BY <2>2, <2>3, <3>1
      <4>2. h[t \ {pick[t]}] = g[t \ {pick[t]}]
        BY <2>2, <4>1
      <4> QED
        BY <3>1, <4>1, <4>2
    <3>2. CASE Cardinality(t) # k + 1
      <4>1. Cardinality(t) <= k /\ Cardinality(t) \in Nat
        BY <1>1, <2>5, <3>2
      <4>2. Right(g, t) /\ h[t] = g[t]
        BY <2>1, <3>2, <4>1
      <4>3. CASE t = {}
        BY <4>2, <4>3
      <4>4. CASE t # {}
        <5>1. Cardinality(t \ {pick[t]}) # k + 1
          BY <2>2, <4>1, <4>4
        <5>2. h[t \ {pick[t]}] = g[t \ {pick[t]}]
          BY <2>2, <4>4, <5>1
        <5> QED
          BY <4>2, <4>4, <5>2
      <4> QED
        BY <4>3, <4>4
    <3> QED
      BY <3>1, <3>2
  <2> HIDE DEF h, Right
  <2>6. Upto(h, k + 1)
    BY <2>5
  <2> QED
    BY <1>1, <1>3, <2>4, <2>6
<1> HIDE DEF G
<1>4. n \in G
  BY <1>1, <1>2, <1>3, CountUp
<1>5. PICK g \in [SUBSET S -> D] : Upto(g, n)
  BY <1>4 DEF G
<1>6. ASSUME NEW t \in SUBSET S PROVE Right(g, t)
  <2>1. Cardinality(t) <= n
    BY <1>1
  <2> QED
    BY <1>5, <2>1
<1>7. Table(g, op, base, pick, S)
  <2> DEFINE q == [t \in SUBSET S |-> IF t = {} THEN base ELSE op[<<g[t \ {pick[t]}], pick[t]>>]]
  <2>1. g = q
    BY <1>6
  <2> QED
    BY <2>1 DEF Table
<1> QED
  BY <1>7

-----------------------------------------------------------------------------
(* Interview practice: the invariant *)

\* What the position of a request says about its row, its question and the answers.
PrepOK(r) ==
  /\ prep[r].at \in {"idle", "evaluate", "find"} => prep[r].row = 0
  /\ prep[r].at \in {"idle", "evaluate"} => \A n \in DOMAIN answers : answers[n].by # r
  /\ prep[r].at \in PrepSteps => prep[r].question \in Question /\ session.status # "none"
  /\ prep[r].at \in PrepSteps \ {"evaluate"} => prep[r].score \in Scores
  /\ prep[r].row \in {0} \cup DOMAIN answers
  /\ prep[r].at = "save" => prep[r].count <= Len(answers)

\* A request that was alone from its first read knows the session and the answers.
AlonePrepOK(r) ==
  r \notin crossed /\ prep[r].at \in PrepSteps =>
    /\ prep[r].loaded = session
    /\ prep[r].at = "store" =>
         IF prep[r].row = 0 THEN RowsOf(prep[r].question) = {}
         ELSE prep[r].was = answers[prep[r].row].score
    /\ prep[r].at = "save" => prep[r].count = Len(answers) /\ prep[r].mean = Mean(answers)

Preps == \A r \in Request : PrepOK(r) /\ AlonePrepOK(r)

\* Two requests under way have crossed.
Overlaps == \A r, q \in Request : r # q /\ prep[r].at \in PrepSteps /\ prep[q].at \in PrepSteps => r \in crossed

\* Before the session starts it has no answers.
UnstartedEmpty == session.status = "none" => answers = <<>>

PracticeInv ==
  /\ InterviewTypeOK
  /\ Preps /\ Overlaps /\ UnstartedEmpty
  /\ PracticeAddsUp

-----------------------------------------------------------------------------
(* Interview practice: answers and requests *)

Twins == \E m, n \in DOMAIN answers : m # n /\ answers[m].question = answers[n].question

\* As many answers as questions answer every question, or one question twice.
LEMMA EnoughAnswers ==
  ASSUME answers \in Seq(AnswerRow), Len(answers) >= Size
  PROVE  (\A q \in Question : RowsOf(q) # {}) \/ Twins
<1> SUFFICES ASSUME NEW q \in Question, RowsOf(q) = {}, ~Twins PROVE FALSE
  OBVIOUS
<1>1. Len(answers) \in Nat /\ DOMAIN answers = 1..Len(answers)
  OBVIOUS
<1> DEFINE f == [n \in 1..Len(answers) |-> answers[n].question]
<1>2. \A n \in 1..Len(answers) : answers[n].question \in Question \ {q}
  <2> TAKE n \in 1..Len(answers)
  <2>1. answers[n] \in AnswerRow
    BY <1>1
  <2>2. answers[n].question \in Question
    BY <2>1 DEF AnswerRow
  <2>3. answers[n].question # q
    BY <1>1 DEF RowsOf
  <2> QED
    BY <2>2, <2>3
<1>3. f \in [1..Len(answers) -> Question \ {q}]
  BY <1>2
<1> HIDE DEF f
<1>4. IsFiniteSet(1..Len(answers)) /\ Cardinality(1..Len(answers)) = Len(answers)
  <2>1. 1 \in Int /\ Len(answers) \in Int
    BY <1>1
  <2>2. IsFiniteSet(1..Len(answers))
    BY <2>1, FS_Interval
  <2>3. Cardinality(1..Len(answers)) = IF 1 > Len(answers) THEN 0 ELSE Len(answers) - 1 + 1
    BY <2>1, FS_Interval
  <2> QED
    BY <1>1, <2>2, <2>3
<1>5. /\ IsFiniteSet(Question \ {q}) /\ Cardinality(Question \ {q}) = Size - 1
      /\ Size \in Nat
  BY InterviewAssumption, FS_RemoveElement, FS_CardinalityType DEF Size
<1>6. \E m, n \in 1..Len(answers) : m # n /\ f[m] = f[n]
  <2>1. Cardinality(Question \ {q}) < Cardinality(1..Len(answers))
    BY <1>1, <1>4, <1>5
  <2> QED
    BY <1>3, <1>4, <1>5, <2>1, FS_PigeonHole
<1> QED
  BY <1>1, <1>6 DEF Twins, f

\* The answers are a sequence of rows.
LEMMA AnswersTyped ==
  ASSUME InterviewTypeOK
  PROVE  /\ Len(answers) \in Nat /\ DOMAIN answers = 1..Len(answers)
         /\ \A n \in DOMAIN answers : /\ n \in Nat \ {0} /\ answers[n] \in AnswerRow
                                      /\ answers[n].by \in Request /\ answers[n].score \in Scores
<1>1. answers \in Seq(AnswerRow)
  BY DEF InterviewTypeOK
<1>2. Len(answers) \in Nat /\ DOMAIN answers = 1..Len(answers)
  BY <1>1
<1>3. \A n \in DOMAIN answers : n \in Nat \ {0} /\ answers[n] \in AnswerRow
  BY <1>1, <1>2
<1> QED
  BY <1>2, <1>3 DEF AnswerRow

\* What the fold of the scores tabulates.
TotalTable(g, rows) ==
  g = [t \in SUBSET DOMAIN rows |->
         IF t = {} THEN 0
         ELSE rows[CHOOSE x \in t : TRUE].score + g[t \ {CHOOSE x \in t : TRUE}]]

\* A sum of scores is a number.
LEMMA TotalIsNumber ==
  ASSUME NEW rows \in Seq(AnswerRow)
  PROVE  Total(rows) \in Nat
<1> DEFINE S == 1..Len(rows)
           op == [p \in Nat \X S |-> rows[p[2]].score + p[1]]
           pick == [t \in SUBSET S |-> CHOOSE x \in t : TRUE]
           g == CHOOSE g : TotalTable(g, rows)
           n == Cardinality(S)
<1>1. DOMAIN rows = S /\ IsFiniteSet(S) /\ Len(rows) \in Nat /\ \A k \in S : rows[k].score \in Nat
  <2>1. DOMAIN rows = S /\ Len(rows) \in Nat /\ \A k \in S : rows[k] \in AnswerRow
    OBVIOUS
  <2>2. IsFiniteSet(S)
    BY <2>1, FS_Interval
  <2> QED
    BY <2>1, <2>2, InterviewAssumption DEF AnswerRow
<1>2. \A t \in SUBSET S : t # {} => pick[t] \in t
  OBVIOUS
<1>3. \E h : TotalTable(h, rows)
  <2>1. op \in [Nat \X S -> Nat]
    BY <1>1
  <2>2. PICK h \in [SUBSET S -> Nat] : Table(h, op, 0, pick, S)
    <3> HIDE DEF S, op, pick
    <3> QED
      BY <1>1, <1>2, <2>1, TableExists
  <2>3. ASSUME NEW t \in SUBSET S, t # {}
        PROVE  op[<<h[t \ {pick[t]}], pick[t]>>] =
                 rows[CHOOSE x \in t : TRUE].score + h[t \ {CHOOSE x \in t : TRUE}]
    <3>1. pick[t] \in S /\ pick[t] = CHOOSE x \in t : TRUE
      BY <1>2, <2>3
    <3>2. h[t \ {pick[t]}] \in Nat
      BY <2>2
    <3> HIDE DEF S, pick
    <3> QED
      BY <3>1, <3>2
  <2>4. TotalTable(h, rows)
    <3> DEFINE q == [t \in SUBSET S |->
                       IF t = {} THEN 0
                       ELSE rows[CHOOSE x \in t : TRUE].score + h[t \ {CHOOSE x \in t : TRUE}]]
    <3>1. h = [t \in SUBSET S |-> IF t = {} THEN 0 ELSE op[<<h[t \ {pick[t]}], pick[t]>>]]
      BY <2>2 DEF Table
    <3> HIDE DEF op, pick
    <3>2. h = q
      BY <3>1, <2>3
    <3> HIDE DEF S
    <3> QED
      BY <1>1, <3>2 DEF TotalTable
  <2> QED
    BY <2>4
<1>4. TotalTable(g, rows)
  BY <1>3, Zenon
<1>5. Total(rows) = g[DOMAIN rows]
  BY DEF Total, FoldFunction, FoldFunctionOnSet, MapThenFoldSet, TotalTable
<1> HIDE DEF g, op, pick
<1>6. n \in Nat /\ \A t \in SUBSET S : IsFiniteSet(t) /\ Cardinality(t) \in 0..n
  <2> HIDE DEF S
  <2> QED
    BY <1>1, FS_CardinalityType, FS_Subset
<1> DEFINE G == {k \in 0..n : \A t \in SUBSET S : Cardinality(t) = k => g[t] \in Nat}
<1>7. \A k \in 0..n : k \in G
  <2>1. 0 \in G
    <3>1. ASSUME NEW t \in SUBSET S, Cardinality(t) = 0 PROVE g[t] \in Nat
      <4>1. t = {}
        BY <1>6, <3>1, FS_EmptySet
      <4> QED
        BY <1>1, <1>4, <4>1 DEF TotalTable
    <3> QED
      BY <1>6, <3>1
  <2>2. ASSUME NEW k \in 0..n, k < n, k \in G PROVE k + 1 \in G
    <3>1. ASSUME NEW t \in SUBSET S, Cardinality(t) = k + 1 PROVE g[t] \in Nat
      <4>1. t # {}
        <5> SUFFICES ASSUME t = {} PROVE FALSE
          OBVIOUS
        <5>1. Cardinality(t) = 0 /\ k \in Nat /\ k + 1 # 0
          BY FS_EmptySet
        <5> QED
          BY <3>1, <5>1
      <4> DEFINE x == CHOOSE x \in t : TRUE
      <4>2. x \in t
        BY <4>1
      <4>3. g[t] = rows[x].score + g[t \ {x}]
        BY <1>1, <1>4, <4>1 DEF TotalTable
      <4> HIDE DEF x
      <4>4. Cardinality(t \ {x}) = k /\ t \ {x} \in SUBSET S
        BY <1>6, <3>1, <4>2, FS_RemoveElement
      <4>5. g[t \ {x}] \in Nat /\ rows[x].score \in Nat
        BY <1>1, <2>2, <4>2, <4>4
      <4> QED
        BY <4>3, <4>5
    <3> QED
      BY <1>6, <2>2, <3>1
  <2> HIDE DEF G
  <2> QED
    BY <1>6, <2>1, <2>2, CountUp
<1>8. g[S] \in Nat
  BY <1>6, <1>7
<1> QED
  BY <1>1, <1>5, <1>8

\* And so is a mean.
LEMMA MeanIsNumber ==
  ASSUME NEW rows \in Seq(AnswerRow)
  PROVE  Mean(rows) \in Nat
<1>1. Total(rows) \in Nat /\ Len(rows) \in Nat
  BY TotalIsNumber
<1>2. CASE rows = << >>
  BY <1>2 DEF Mean
<1>3. CASE rows # << >>
  <2>1. Len(rows) # 0
    BY <1>3
  <2>2. \A a \in Nat, b \in Nat \ {0} : a \div b \in Nat
    OBVIOUS
  <2>3. Len(rows) \div 2 \in Nat
    BY <1>1
  <2>4. 100 * Total(rows) + (Len(rows) \div 2) \in Nat
    BY <1>1, <2>3
  <2> QED
    BY <1>1, <1>3, <2>1, <2>2, <2>4 DEF Mean
<1> QED
  BY <1>2, <1>3

\* A session has at least one question.
LEMMA SizePositive == Size \in Nat /\ Size > 0
  BY InterviewAssumption, FS_EmptySet, FS_CardinalityType DEF Size

\* Requests other than r are as they were.
OtherPreps(r) == \A q \in Request : q # r => prep'[q] = prep[q]

\* Changing the position of a request changes nothing else of it.
LEMMA PrepMoves ==
  ASSUME InterviewTypeOK, NEW r \in Request, NEW p \in {"idle", "ok", "failed"} \cup PrepSteps,
         PrepTo(r, p)
  PROVE  /\ prep' \in [Request -> PrepRow] /\ OtherPreps(r)
         /\ prep'[r].at = p /\ prep'[r].question = prep[r].question /\ prep'[r].score = prep[r].score
         /\ prep'[r].row = prep[r].row /\ prep'[r].was = prep[r].was
         /\ prep'[r].loaded = prep[r].loaded /\ prep'[r].count = prep[r].count
         /\ prep'[r].mean = prep[r].mean
<1>1. prep[r] \in PrepRow
  BY DEF InterviewTypeOK
<1>2. [prep[r] EXCEPT !.at = p] \in PrepRow
  BY <1>1 DEF PrepRow
<1>3. prep' = [prep EXCEPT ![r] = [prep[r] EXCEPT !.at = p]]
  BY DEF PrepTo
<1>4. prep' \in [Request -> PrepRow] /\ OtherPreps(r) /\ prep'[r] = [prep[r] EXCEPT !.at = p]
  BY <1>2, <1>3 DEF InterviewTypeOK, OtherPreps
<1> QED
  BY <1>1, <1>4 DEF PrepRow

\* What a request under way has not changed stays right for the others.
LEMMA OverlapsKeep ==
  ASSUME Overlaps, crossed \subseteq crossed', NEW r \in Request, OtherPreps(r),
         prep'[r].at \in PrepSteps => prep[r].at \in PrepSteps
  PROVE  Overlaps'
  BY DEF Overlaps, OtherPreps

\* A step that changes neither the session nor the answers keeps all that is
\* said of them and of the other requests.
PrepQuiet(r) ==
  /\ UNCHANGED <<session, answers, settled>>
  /\ crossed \subseteq crossed'
  /\ OtherPreps(r)
  /\ \A n \in DOMAIN answers : answers[n].by = r => prep'[r].score = prep[r].score

\* Such a step keeps what is known of the session and of every request.
LEMMA PrepQuietKeeps ==
  ASSUME PracticeInv, NEW r \in Request, PrepQuiet(r), PrepOK(r)', AlonePrepOK(r)'
  PROVE  Preps' /\ UnstartedEmpty' /\ PracticeAddsUp'
<1>1. UNCHANGED <<session, answers, settled>> /\ crossed \subseteq crossed' /\ OtherPreps(r)
  BY DEF PrepQuiet
<1>2. Preps'
  <2> SUFFICES ASSUME NEW q \in Request, q # r PROVE PrepOK(q)' /\ AlonePrepOK(q)'
    BY DEF Preps
  <2>1. prep'[q] = prep[q] /\ PrepOK(q) /\ AlonePrepOK(q)
    BY <1>1 DEF OtherPreps, PracticeInv, Preps
  <2>2. PrepOK(q)'
    BY <1>1, <2>1 DEF PrepOK
  <2>3. AlonePrepOK(q)'
    BY <1>1, <2>1 DEF AlonePrepOK, RowsOf
  <2> QED
    BY <2>2, <2>3
<1>3. UnstartedEmpty' /\ SettledAddsUp'
  BY <1>1 DEF PracticeInv, PracticeAddsUp, UnstartedEmpty, SettledAddsUp
<1>4. TwinsCrossed' /\ CompletedIsAnswered'
  BY <1>1 DEF PracticeInv, PracticeAddsUp, TwinsCrossed, CompletedIsAnswered, RowsOf
<1>5. ScoreFitsText'
  <2> SUFFICES ASSUME NEW n \in DOMAIN answers
               PROVE  answers[n].score = prep'[answers[n].by].score \/ answers[n].by \in crossed'
    BY <1>1 DEF ScoreFitsText
  <2>1. answers[n].by \in Request
    BY AnswersTyped DEF PracticeInv
  <2>2. prep'[answers[n].by].score = prep[answers[n].by].score
    BY <2>1 DEF PrepQuiet, OtherPreps
  <2> QED
    BY <1>1, <2>2 DEF PracticeInv, PracticeAddsUp, ScoreFitsText
<1> QED
  BY <1>2, <1>3, <1>4, <1>5 DEF PracticeAddsUp

-----------------------------------------------------------------------------
(* Interview practice: the first state *)

\* The first state satisfies the invariant.
LEMMA InitPracticeInv == InterviewInit => PracticeInv
<1> SUFFICES ASSUME InterviewInit PROVE PracticeInv
  OBVIOUS
<1>1. InterviewTypeOK
  BY DEF InterviewInit, InterviewTypeOK, Fresh, Progress, PrepRow
<1>2. Preps /\ Overlaps /\ UnstartedEmpty
  BY DEF InterviewInit, Preps, PrepOK, AlonePrepOK, Overlaps, UnstartedEmpty, PrepSteps
<1>3. Mean(answers) = 0 /\ Len(answers) = 0
  BY DEF InterviewInit, Mean
<1>4. PracticeAddsUp
  BY <1>3, SizePositive DEF InterviewInit, Fresh, PracticeAddsUp, SettledAddsUp, TwinsCrossed,
                            CompletedIsAnswered, ScoreFitsText
<1> QED
  BY <1>1, <1>2, <1>4 DEF PracticeInv

-----------------------------------------------------------------------------
(* Interview practice: the steps *)

\* The session starts: nobody is under way and there are no answers.
LEMMA StartSessionKeeps ==
  ASSUME PracticeInv, NEW r \in Request, StartSession(r)
  PROVE  PracticeInv'
<1> USE DEF StartSession, PrepAt
<1>0. InterviewTypeOK
  BY DEF PracticeInv
<1>1. /\ prep' \in [Request -> PrepRow] /\ OtherPreps(r) /\ prep'[r].at = "ok"
      /\ prep'[r].row = prep[r].row /\ prep'[r].score = prep[r].score
  BY <1>0, PrepMoves
<1>2. answers = <<>> /\ answers' = <<>> /\ \A q \in Request : prep[q].at \notin PrepSteps
  BY DEF PracticeInv, UnstartedEmpty, Preps, PrepOK
<1>9. DOMAIN answers = {} /\ DOMAIN answers' = {}
  BY <1>2
<1>3. InterviewTypeOK'
  <2>1. session' \in Progress
    BY DEF Fresh, Progress
  <2>2. prep' \in [Request -> PrepRow]
    BY <1>1 DEF PrepRow, Progress
  <2> QED
    BY <1>0, <2>1, <2>2 DEF InterviewTypeOK
<1>4. \A q \in Request : prep'[q].at \notin PrepSteps
  BY <1>1, <1>2 DEF OtherPreps, PrepSteps
<1>5. Overlaps' /\ UnstartedEmpty'
  BY <1>2, <1>4 DEF Overlaps, UnstartedEmpty
<1>6. Preps'
  <2> SUFFICES ASSUME NEW q \in Request PROVE PrepOK(q)' /\ AlonePrepOK(q)'
    BY DEF Preps
  <2>1. AlonePrepOK(q)'
    BY <1>4 DEF AlonePrepOK
  <2>2. PrepOK(q)
    BY DEF PracticeInv, Preps
  <2>3. CASE q = r
    <3>1. prep'[r].row = 0 /\ prep'[r].at \notin PrepSteps
      BY <1>1, <1>4, <1>9, <2>2, <2>3 DEF PrepOK
    <3> QED
      BY <1>9, <2>1, <2>3, <3>1 DEF PrepOK, PrepSteps
  <2>4. CASE q # r
    <3>1. prep'[q].row = 0 /\ prep'[q].at \notin PrepSteps
      BY <1>1, <1>4, <1>9, <2>2, <2>4 DEF PrepOK, OtherPreps
    <3> QED
      BY <1>9, <2>1, <3>1 DEF PrepOK, PrepSteps
  <2> QED
    BY <2>1, <2>3, <2>4
<1>7. Mean(answers') = 0 /\ Len(answers') = 0
  BY <1>2 DEF Mean
<1>8. PracticeAddsUp'
  BY <1>2, <1>7, SizePositive DEF Fresh, PracticeAddsUp, SettledAddsUp, TwinsCrossed,
                                  CompletedIsAnswered, ScoreFitsText
<1> QED
  BY <1>3, <1>5, <1>6, <1>8 DEF PracticeInv

\* A request reads the session.
LEMMA LoadSessionKeeps ==
  ASSUME PracticeInv, NEW r \in Request, NEW question \in Question, LoadSession(r, question)
  PROVE  PracticeInv'
<1> USE DEF LoadSession, PrepAt
<1>0. InterviewTypeOK
  BY DEF PracticeInv
<1>1. /\ prep' \in [Request -> PrepRow] /\ OtherPreps(r)
      /\ prep'[r].at = "evaluate" /\ prep'[r].question = question /\ prep'[r].loaded = session
      /\ prep'[r].score = prep[r].score /\ prep'[r].row = prep[r].row
  <2> DEFINE row == [prep[r] EXCEPT !.at = "evaluate", !.question = question, !.loaded = session]
  <2>1. prep[r] \in PrepRow /\ session \in Progress
    BY <1>0 DEF InterviewTypeOK
  <2>2. row \in PrepRow
    BY <2>1 DEF PrepRow, PrepSteps
  <2>3. prep' = [prep EXCEPT ![r] = row]
    OBVIOUS
  <2>4. prep' \in [Request -> PrepRow] /\ OtherPreps(r) /\ prep'[r] = row
    BY <1>0, <2>2, <2>3 DEF InterviewTypeOK, OtherPreps
  <2> QED
    BY <2>1, <2>4 DEF PrepRow
<1>2. /\ crossed \subseteq crossed' /\ crossed' \subseteq Request
      /\ \A q \in Request : prep[q].at \in PrepSteps => q \in crossed' /\ r \in crossed'
  <2>1. UnderWay \subseteq Request /\ crossed \subseteq Request
    BY <1>0 DEF UnderWay, InterviewTypeOK
  <2>2. CASE UnderWay = {}
    BY <2>1, <2>2 DEF UnderWay
  <2>3. CASE UnderWay # {}
    BY <2>1, <2>3 DEF UnderWay
  <2> QED
    BY <2>2, <2>3
<1>3. InterviewTypeOK'
  BY <1>0, <1>1, <1>2 DEF InterviewTypeOK
<1>4. Overlaps'
  BY <1>1, <1>2 DEF PracticeInv, Overlaps, OtherPreps
<1>5. PrepOK(r)' /\ AlonePrepOK(r)'
  BY <1>1 DEF PracticeInv, Preps, PrepOK, AlonePrepOK, PrepSteps
<1>6. PrepQuiet(r)
  BY <1>1, <1>2 DEF PrepQuiet
<1> QED
  BY <1>3, <1>4, <1>5, <1>6, PrepQuietKeeps DEF PracticeInv

\* The answer is evaluated.
LEMMA EvaluateKeeps ==
  ASSUME PracticeInv, NEW r \in Request, NEW score \in Scores, Evaluate(r, score)
  PROVE  PracticeInv'
<1> USE DEF Evaluate, PrepAt
<1>0. InterviewTypeOK
  BY DEF PracticeInv
<1>1. /\ prep' \in [Request -> PrepRow] /\ OtherPreps(r)
      /\ prep'[r].at = "find" /\ prep'[r].score = score
      /\ prep'[r].question = prep[r].question /\ prep'[r].loaded = prep[r].loaded
      /\ prep'[r].row = prep[r].row
  <2> DEFINE row == [prep[r] EXCEPT !.at = "find", !.score = score]
  <2>1. prep[r] \in PrepRow
    BY <1>0 DEF InterviewTypeOK
  <2>2. row \in PrepRow
    BY <2>1 DEF PrepRow, PrepSteps
  <2>3. prep' = [prep EXCEPT ![r] = row]
    OBVIOUS
  <2>4. prep' \in [Request -> PrepRow] /\ OtherPreps(r) /\ prep'[r] = row
    BY <1>0, <2>2, <2>3 DEF InterviewTypeOK, OtherPreps
  <2> QED
    BY <2>1, <2>4 DEF PrepRow
<1>2. prep[r].at = "evaluate" /\ PrepOK(r) /\ AlonePrepOK(r) /\ UNCHANGED <<session, answers, crossed, settled>>
  BY DEF PracticeInv, Preps
<1>3. InterviewTypeOK'
  BY <1>0, <1>1 DEF InterviewTypeOK
<1>4. Overlaps'
  BY <1>1, <1>2, OverlapsKeep DEF PracticeInv, PrepSteps
<1>5. PrepOK(r)' /\ AlonePrepOK(r)'
  BY <1>1, <1>2 DEF PrepOK, AlonePrepOK, PrepSteps
<1>6. PrepQuiet(r)
  BY <1>1, <1>2 DEF PrepQuiet, PrepOK
<1> QED
  BY <1>3, <1>4, <1>5, <1>6, PrepQuietKeeps DEF PracticeInv

\* An earlier answer is looked for.
LEMMA FindAnswerKeeps ==
  ASSUME PracticeInv, NEW r \in Request, FindAnswer(r)
  PROVE  PracticeInv'
<1> USE DEF FindAnswer, PrepAt
<1>0. InterviewTypeOK
  BY DEF PracticeInv
<1>1. prep[r].at = "find" /\ prep[r].row = 0 /\ PrepOK(r) /\ AlonePrepOK(r) /\ UNCHANGED <<session, answers, crossed, settled>>
  BY DEF PracticeInv, Preps, PrepOK
<1>2. /\ prep' \in [Request -> PrepRow] /\ OtherPreps(r)
      /\ prep'[r].at = "store" /\ prep'[r].score = prep[r].score
      /\ prep'[r].question = prep[r].question /\ prep'[r].loaded = prep[r].loaded
      /\ \/ prep'[r].row = 0 /\ RowsOf(prep[r].question) = {}
         \/ prep'[r].row \in DOMAIN answers /\ prep'[r].was = answers[prep'[r].row].score
  <2>1. CASE RowsOf(prep[r].question) = {}
    <3>1. PrepTo(r, "store")
      BY <2>1
    <3> QED
      BY <1>0, <1>1, <2>1, <3>1, PrepMoves DEF PrepSteps
  <2>2. CASE RowsOf(prep[r].question) # {}
    <3>1. PICK n \in RowsOf(prep[r].question) :
            prep' = [prep EXCEPT ![r].at = "store", ![r].row = n, ![r].was = answers[n].score]
      BY <2>2
    <3> DEFINE row == [prep[r] EXCEPT !.at = "store", !.row = n, !.was = answers[n].score]
    <3>2. n \in DOMAIN answers /\ n \in Nat \ {0} /\ answers[n].score \in Scores
      <4>1. n \in DOMAIN answers
        BY <3>1 DEF RowsOf
      <4> QED
        BY <1>0, <4>1, AnswersTyped
    <3>3. prep[r] \in PrepRow
      BY <1>0 DEF InterviewTypeOK
    <3>4. row \in PrepRow
      BY <3>2, <3>3 DEF PrepRow, PrepSteps
    <3>5. prep' = [prep EXCEPT ![r] = row]
      BY <3>1
    <3>6. prep' \in [Request -> PrepRow] /\ OtherPreps(r) /\ prep'[r] = row
      BY <1>0, <3>4, <3>5 DEF InterviewTypeOK, OtherPreps
    <3>7. /\ prep'[r].at = "store" /\ prep'[r].score = prep[r].score
          /\ prep'[r].question = prep[r].question /\ prep'[r].loaded = prep[r].loaded
          /\ prep'[r].row = n /\ prep'[r].was = answers[n].score
      BY <3>3, <3>6 DEF PrepRow
    <3> QED
      BY <3>2, <3>6, <3>7
  <2> QED
    BY <2>1, <2>2
<1>3. InterviewTypeOK'
  BY <1>0, <1>1, <1>2 DEF InterviewTypeOK
<1>4. Overlaps'
  BY <1>1, <1>2, OverlapsKeep DEF PracticeInv, PrepSteps
<1>5. PrepOK(r)'
  BY <1>1, <1>2 DEF PrepOK, PrepSteps
<1>6. AlonePrepOK(r)'
  <2>1. 0 \notin DOMAIN answers
    BY <1>0, AnswersTyped
  <2> QED
    BY <1>1, <1>2, <2>1 DEF AlonePrepOK, PrepSteps, RowsOf
<1>7. PrepQuiet(r)
  BY <1>1, <1>2 DEF PrepQuiet
<1> QED
  BY <1>3, <1>4, <1>5, <1>6, <1>7, PrepQuietKeeps DEF PracticeInv

\* The answer is stored.
LEMMA StoreAnswerKeeps ==
  ASSUME PracticeInv, NEW r \in Request, StoreAnswer(r)
  PROVE  PracticeInv'
<1> USE DEF StoreAnswer, PrepAt
<1>0. InterviewTypeOK
  BY DEF PracticeInv
<1>1. /\ prep' \in [Request -> PrepRow] /\ OtherPreps(r)
      /\ prep'[r].at = "count" /\ prep'[r].question = prep[r].question
      /\ prep'[r].score = prep[r].score /\ prep'[r].row = prep[r].row
      /\ prep'[r].loaded = prep[r].loaded
  BY <1>0, PrepMoves DEF PrepSteps
<1>2. /\ prep[r].at = "store" /\ PrepOK(r) /\ AlonePrepOK(r)
      /\ prep[r].question \in Question /\ prep[r].score \in Scores
      /\ session.status # "none" /\ prep[r].row \in {0} \cup DOMAIN answers
      /\ settled' = FALSE /\ UNCHANGED <<session, crossed>>
  BY DEF PracticeInv, Preps, PrepOK, PrepSteps
<1>3. /\ Len(answers) \in Nat /\ DOMAIN answers = 1..Len(answers)
      /\ \A n \in DOMAIN answers : answers[n] \in AnswerRow
  BY <1>0, AnswersTyped
<1>4. /\ answers' \in Seq(AnswerRow) /\ Len(answers') \in Nat /\ Len(answers) <= Len(answers')
      /\ DOMAIN answers' = 1..Len(answers')
      /\ \A n \in DOMAIN answers : /\ n \in DOMAIN answers'
                                   /\ answers'[n].question = answers[n].question
                                   /\ answers'[n].made = answers[n].made
      /\ \A n \in DOMAIN answers' : \/ n \in DOMAIN answers /\ answers'[n] = answers[n]
                                    \/ /\ answers'[n].by = r
                                       /\ r \notin crossed => answers'[n].score = prep[r].score
      /\ \A n \in DOMAIN answers' : n \notin DOMAIN answers =>
           /\ n = Len(answers) + 1 /\ prep[r].row = 0
           /\ answers'[n].question = prep[r].question /\ answers'[n].made = r
  <2>1. CASE prep[r].row = 0
    <3> DEFINE row == [question |-> prep[r].question, by |-> r, made |-> r, score |-> prep[r].score]
    <3>1. row \in AnswerRow
      BY <1>2 DEF AnswerRow
    <3>2. row.question = prep[r].question /\ row.by = r /\ row.made = r /\ row.score = prep[r].score
      OBVIOUS
    <3>3. answers' = Append(answers, row) /\ answers \in Seq(AnswerRow)
      BY <1>0, <2>1 DEF InterviewTypeOK
    <3> HIDE DEF row
    <3>4. /\ answers' \in Seq(AnswerRow) /\ Len(answers') = Len(answers) + 1
          /\ answers'[Len(answers) + 1] = row
          /\ \A n \in 1..Len(answers) : answers'[n] = answers[n]
      BY <3>1, <3>3
    <3>5. DOMAIN answers' = 1..(Len(answers) + 1)
      BY <3>4
    <3> QED
      BY <1>3, <2>1, <3>2, <3>4, <3>5
  <2>2. CASE prep[r].row # 0
    <3> DEFINE k == prep[r].row
    <3>1. k \in DOMAIN answers /\ answers[k] \in AnswerRow
      BY <1>2, <1>3, <2>2
    <3>2. answers' = [answers EXCEPT ![k] = Revised(r, answers[k])]
      BY <2>2
    <3>3. /\ Revised(r, answers[k]) \in AnswerRow
          /\ Revised(r, answers[k]).question = answers[k].question
          /\ Revised(r, answers[k]).made = answers[k].made
          /\ Revised(r, answers[k]).by = r
          /\ r \notin crossed => Revised(r, answers[k]).score = prep[r].score
      <4>1. CASE prep[r].score = prep[r].was
        <5>1. r \notin crossed => answers[k].score = prep[r].score
          BY <1>2, <2>2, <4>1 DEF AlonePrepOK, PrepSteps
        <5>2. Revised(r, answers[k]) = [answers[k] EXCEPT !.by = r]
          BY <3>1, <4>1 DEF Revised, AnswerRow
        <5> QED
          BY <3>1, <5>1, <5>2 DEF AnswerRow
      <4>2. CASE prep[r].score # prep[r].was
        <5>1. Revised(r, answers[k]) = [answers[k] EXCEPT !.by = r, !.score = prep[r].score]
          BY <4>2 DEF Revised
        <5> QED
          BY <1>2, <3>1, <5>1 DEF AnswerRow
      <4> QED
        BY <4>1, <4>2
    <3> HIDE DEF k
    <3>4. /\ answers' \in Seq(AnswerRow) /\ Len(answers') = Len(answers)
          /\ DOMAIN answers' = DOMAIN answers
          /\ answers'[k] = Revised(r, answers[k])
          /\ \A n \in DOMAIN answers : n # k => answers'[n] = answers[n]
      <4>1. answers \in Seq(AnswerRow) /\ k \in 1..Len(answers) /\ Revised(r, answers[k]) \in AnswerRow
        BY <1>0, <1>3, <3>1, <3>3 DEF InterviewTypeOK
      <4>2. answers' \in Seq(AnswerRow) /\ Len(answers') = Len(answers)
        <5> DEFINE e == Revised(r, answers[k])
        <5>1. e \in AnswerRow
          BY <4>1
        <5> HIDE DEF e
        <5>2. [answers EXCEPT ![k] = e] \in Seq(AnswerRow) /\ Len([answers EXCEPT ![k] = e]) = Len(answers)
          BY <4>1, <5>1, ExceptSeq
        <5> QED
          BY <3>2, <5>2 DEF e
      <4> QED
        BY <1>3, <3>2, <4>1, <4>2
    <3>5. \A n \in DOMAIN answers : answers'[n].question = answers[n].question /\ answers'[n].made = answers[n].made
      BY <3>1, <3>3, <3>4
    <3>6. \A n \in DOMAIN answers' : \/ n \in DOMAIN answers /\ answers'[n] = answers[n]
                                    \/ /\ answers'[n].by = r
                                       /\ r \notin crossed => answers'[n].score = prep[r].score
      <4> TAKE n \in DOMAIN answers'
      <4>1. CASE n = k
        BY <3>3, <3>4, <4>1
      <4>2. CASE n # k
        BY <3>4, <4>2
      <4> QED
        BY <4>1, <4>2
    <3>7. DOMAIN answers' = 1..Len(answers') /\ Len(answers') \in Nat /\ Len(answers) <= Len(answers')
      <4>1. Len(answers') = Len(answers) /\ DOMAIN answers' = DOMAIN answers
        BY <3>4
      <4>2. Len(answers) <= Len(answers)
        BY <1>3
      <4> QED
        BY <1>3, <4>1, <4>2
    <3>8. \A n \in DOMAIN answers' : n \in DOMAIN answers
      BY <3>4
    <3> QED
      BY <3>4, <3>5, <3>6, <3>7, <3>8
  <2> QED
    BY <2>1, <2>2
<1>5. InterviewTypeOK'
  BY <1>0, <1>1, <1>4 DEF InterviewTypeOK
<1>6. Overlaps'
  BY <1>1, <1>2, OverlapsKeep DEF PracticeInv, PrepSteps
<1>7. UnstartedEmpty'
  BY <1>2 DEF UnstartedEmpty
<1>8. Preps'
  <2> SUFFICES ASSUME NEW q \in Request PROVE PrepOK(q)' /\ AlonePrepOK(q)'
    BY DEF Preps
  <2>1. CASE q = r
    BY <1>1, <1>2, <1>4, <2>1 DEF PrepOK, AlonePrepOK, PrepSteps
  <2>2. CASE q # r
    <3>1. prep'[q] = prep[q] /\ PrepOK(q) /\ prep[q].count \in Nat
      BY <1>0, <1>1, <2>2 DEF OtherPreps, PracticeInv, Preps, InterviewTypeOK, PrepRow
    <3>2. \A n \in DOMAIN answers' : answers'[n].by = q => n \in DOMAIN answers /\ answers[n].by = q
      BY <1>4, <2>2
    <3>3. PrepOK(q)'
      BY <1>2, <1>3, <1>4, <3>1, <3>2 DEF PrepOK
    <3>4. prep[q].at \in PrepSteps => q \in crossed
      BY <1>2, <2>2 DEF PracticeInv, Overlaps, PrepSteps
    <3> QED
      BY <1>2, <3>1, <3>3, <3>4 DEF AlonePrepOK
  <2> QED
    BY <2>1, <2>2
<1>9. SettledAddsUp'
  BY <1>2 DEF SettledAddsUp
<1>10. TwinsCrossed'
  <2> SUFFICES ASSUME NEW m \in DOMAIN answers', NEW n \in DOMAIN answers', m < n,
                      answers'[m].question = answers'[n].question
               PROVE  answers'[n].made \in crossed
    BY <1>2 DEF TwinsCrossed
  <2>1. CASE n \in DOMAIN answers
    <3>1. m \in DOMAIN answers
      BY <1>3, <1>4, <2>1, SMTT(20)
    <3> QED
      BY <1>4, <2>1, <3>1 DEF PracticeInv, PracticeAddsUp, TwinsCrossed
  <2>2. CASE n \notin DOMAIN answers
    <3>1. /\ prep[r].row = 0 /\ answers'[n].question = prep[r].question /\ answers'[n].made = r
          /\ m \in DOMAIN answers
      BY <1>3, <1>4, <2>2, SMTT(20)
    <3>2. m \in RowsOf(prep[r].question)
      BY <1>4, <3>1 DEF RowsOf
    <3> QED
      BY <1>2, <3>1, <3>2 DEF AlonePrepOK, PrepSteps
  <2> QED
    BY <2>1, <2>2
<1>11. CompletedIsAnswered'
  <2>1. \A q \in Question : RowsOf(q) # {} => RowsOf(q)' # {}
    BY <1>4 DEF RowsOf
  <2>2. Twins => Twins'
    BY <1>4 DEF Twins
  <2> QED
    BY <1>2, <2>1, <2>2 DEF PracticeInv, PracticeAddsUp, CompletedIsAnswered, Twins
<1>12. ScoreFitsText'
  <2> SUFFICES ASSUME NEW n \in DOMAIN answers'
               PROVE  answers'[n].score = prep'[answers'[n].by].score \/ answers'[n].by \in crossed
    BY <1>2 DEF ScoreFitsText
  <2>1. CASE n \in DOMAIN answers /\ answers'[n] = answers[n]
    <3>1. answers[n].by \in Request
      BY <1>3, <2>1 DEF AnswerRow
    <3>2. prep'[answers[n].by].score = prep[answers[n].by].score
      BY <1>1, <3>1 DEF OtherPreps
    <3> QED
      BY <2>1, <3>2 DEF PracticeInv, PracticeAddsUp, ScoreFitsText
  <2>2. CASE answers'[n].by = r /\ (r \notin crossed => answers'[n].score = prep[r].score)
    BY <1>1, <2>2
  <2> QED
    BY <1>4, <2>1, <2>2
<1> QED
  BY <1>5, <1>6, <1>7, <1>8, <1>9, <1>10, <1>11, <1>12 DEF PracticeInv, PracticeAddsUp

\* The answers are counted.
LEMMA CountAnswersKeeps ==
  ASSUME PracticeInv, NEW r \in Request, CountAnswers(r)
  PROVE  PracticeInv'
<1> USE DEF CountAnswers, PrepAt
<1>0. InterviewTypeOK
  BY DEF PracticeInv
<1>mean. Mean(answers) \in Nat
  BY <1>0, MeanIsNumber DEF InterviewTypeOK
<1>1. /\ prep' \in [Request -> PrepRow] /\ OtherPreps(r)
      /\ prep'[r].at = "save" /\ prep'[r].count = Len(answers) /\ prep'[r].mean = Mean(answers)
      /\ prep'[r].question = prep[r].question /\ prep'[r].loaded = prep[r].loaded
      /\ prep'[r].row = prep[r].row /\ prep'[r].score = prep[r].score
  <2> DEFINE row == [prep[r] EXCEPT !.at = "save", !.count = Len(answers), !.mean = Mean(answers)]
  <2>1. prep \in [Request -> PrepRow] /\ prep[r] \in PrepRow /\ Len(answers) \in Nat
    BY <1>0 DEF InterviewTypeOK, PrepRow, Progress
  <2>2. row \in PrepRow
    BY <1>mean, <2>1 DEF PrepRow, PrepSteps
  <2>3. prep' = [prep EXCEPT ![r] = row]
    OBVIOUS
  <2>4. prep' \in [Request -> PrepRow] /\ OtherPreps(r) /\ prep'[r] = row
    BY <2>1, <2>2, <2>3 DEF OtherPreps
  <2> QED
    BY <2>1, <2>4 DEF PrepRow
<1>2. prep[r].at = "count" /\ PrepOK(r) /\ AlonePrepOK(r) /\ UNCHANGED <<session, answers, crossed, settled>>
  BY DEF PracticeInv, Preps
<1>3. InterviewTypeOK'
  <2>1. session' \in Progress
    BY <1>0, <1>2 DEF InterviewTypeOK, Progress
  <2> QED
    BY <1>0, <1>1, <1>2, <2>1 DEF InterviewTypeOK
<1>4. Overlaps'
  BY <1>1, <1>2, OverlapsKeep DEF PracticeInv, PrepSteps
<1>5. PrepOK(r)' /\ AlonePrepOK(r)'
  <2>1. Len(answers) \in Nat
    BY <1>0 DEF InterviewTypeOK
  <2> QED
    BY <1>1, <1>2, <2>1 DEF PrepOK, AlonePrepOK, PrepSteps
<1>6. PrepQuiet(r)
  BY <1>1, <1>2 DEF PrepQuiet
<1> QED
  BY <1>3, <1>4, <1>5, <1>6, PrepQuietKeeps DEF PracticeInv

\* The progress is saved.
LEMMA SaveSessionKeeps ==
  ASSUME PracticeInv, NEW r \in Request, SaveSession(r)
  PROVE  PracticeInv'
<1> USE DEF SaveSession, PrepAt
<1>0. InterviewTypeOK
  BY DEF PracticeInv
<1>1. /\ prep' \in [Request -> PrepRow] /\ OtherPreps(r) /\ prep'[r].at = "ok"
      /\ prep'[r].score = prep[r].score /\ prep'[r].row = prep[r].row
  BY <1>0, PrepMoves
<1>2. /\ prep[r].at = "save" /\ PrepOK(r) /\ AlonePrepOK(r) /\ session.status # "none"
      /\ prep[r].count \in Nat /\ Len(answers) \in Nat /\ prep[r].count <= Len(answers)
      /\ session' = Written(r) /\ settled' = (r \notin crossed) /\ UNCHANGED <<answers, crossed>>
  BY <1>0 DEF PracticeInv, Preps, PrepOK, PrepSteps, InterviewTypeOK, PrepRow
<1>3. /\ session'.status = (IF Complete(r) /\ prep[r].loaded.status # "completed" THEN "completed" ELSE session.status)
      /\ session'.answered = (IF prep[r].count = prep[r].loaded.answered THEN session.answered ELSE prep[r].count)
      /\ session'.average = (IF prep[r].mean = prep[r].loaded.average THEN session.average ELSE prep[r].mean)
      /\ session'.status # "none"
  BY <1>2 DEF Written
<1>4. InterviewTypeOK'
  <2>1. session' \in Progress
    <3>1. session \in Progress /\ prep[r].count \in Nat /\ prep[r].mean \in Nat
      BY <1>0 DEF InterviewTypeOK, PrepRow
    <3>2. session.status \in {"none", "active", "completed"} /\ session.answered \in Nat /\ session.average \in Nat
      BY <3>1 DEF Progress
    <3> QED
      BY <1>2, <3>1, <3>2 DEF Written, Progress
  <2>2. settled' \in BOOLEAN
    BY <1>2
  <2> QED
    BY <1>0, <1>1, <1>2, <2>1, <2>2 DEF InterviewTypeOK
<1>5. Overlaps'
  BY <1>1, <1>2, OverlapsKeep DEF PracticeInv, PrepSteps
<1>6. UnstartedEmpty'
  BY <1>3 DEF UnstartedEmpty
<1>7. Preps'
  <2> SUFFICES ASSUME NEW q \in Request PROVE PrepOK(q)' /\ AlonePrepOK(q)'
    BY DEF Preps
  <2>1. CASE q = r
    BY <1>1, <1>2, <2>1 DEF PrepOK, AlonePrepOK, PrepSteps
  <2>2. CASE q # r
    <3>1. prep'[q] = prep[q] /\ PrepOK(q)
      BY <1>1, <2>2 DEF OtherPreps, PracticeInv, Preps
    <3>2. prep[q].at \in PrepSteps => q \in crossed
      BY <1>2, <2>2 DEF PracticeInv, Overlaps, PrepSteps
    <3>3. PrepOK(q)'
      BY <1>2, <1>3, <3>1 DEF PrepOK
    <3> QED
      BY <1>2, <3>1, <3>2, <3>3 DEF AlonePrepOK
  <2> QED
    BY <2>1, <2>2
<1>8. SettledAddsUp'
  <2> SUFFICES ASSUME r \notin crossed
               PROVE  /\ session'.answered = Len(answers) /\ session'.average = Mean(answers)
                      /\ session'.status = "active" => Len(answers) < Size
    BY <1>2 DEF SettledAddsUp
  <2>1. prep[r].loaded = session /\ prep[r].count = Len(answers) /\ prep[r].mean = Mean(answers)
    BY <1>2 DEF AlonePrepOK, PrepSteps
  <2>2. session'.answered = Len(answers) /\ session'.average = Mean(answers)
    BY <1>3, <2>1
  <2>3. session'.status = "active" => ~ Complete(r)
    BY <1>3, <2>1
  <2> QED
    BY <1>2, <2>1, <2>2, <2>3, SizePositive DEF Complete
<1>9. CompletedIsAnswered'
  <2>1. CASE session.status = "completed"
    BY <1>2, <2>1 DEF PracticeInv, PracticeAddsUp, CompletedIsAnswered, RowsOf
  <2>2. CASE session.status # "completed" /\ session'.status = "completed"
    <3>1. Len(answers) >= Size
      BY <1>2, <1>3, <2>2, SizePositive DEF Complete
    <3>2. (\A q \in Question : RowsOf(q) # {}) \/ Twins
      BY <1>0, <3>1, EnoughAnswers DEF InterviewTypeOK
    <3> QED
      BY <1>2, <3>2 DEF CompletedIsAnswered, RowsOf, Twins
  <2> QED
    BY <2>1, <2>2 DEF CompletedIsAnswered
<1>10. TwinsCrossed'
  BY <1>2 DEF PracticeInv, PracticeAddsUp, TwinsCrossed
<1>11. ScoreFitsText'
  <2> SUFFICES ASSUME NEW n \in DOMAIN answers
               PROVE  answers[n].score = prep'[answers[n].by].score \/ answers[n].by \in crossed
    BY <1>2 DEF ScoreFitsText
  <2>1. answers[n].by \in Request
    BY <1>0, AnswersTyped
  <2>2. prep'[answers[n].by].score = prep[answers[n].by].score
    BY <1>1, <2>1 DEF OtherPreps
  <2> QED
    BY <2>2 DEF PracticeInv, PracticeAddsUp, ScoreFitsText
<1> QED
  BY <1>4, <1>5, <1>6, <1>7, <1>8, <1>9, <1>10, <1>11 DEF PracticeInv, PracticeAddsUp

\* A request fails.
LEMMA PrepFailsKeeps ==
  ASSUME PracticeInv, NEW r \in Request, PrepFails(r)
  PROVE  PracticeInv'
<1> USE DEF PrepFails
<1>0. InterviewTypeOK
  BY DEF PracticeInv
<1>1. /\ prep' \in [Request -> PrepRow] /\ OtherPreps(r) /\ prep'[r].at = "failed"
      /\ prep'[r].score = prep[r].score /\ prep'[r].row = prep[r].row
  BY <1>0, PrepMoves
<1>2. PrepOK(r) /\ UNCHANGED <<session, answers, crossed, settled>>
  BY DEF PracticeInv, Preps
<1>3. InterviewTypeOK'
  BY <1>0, <1>1, <1>2 DEF InterviewTypeOK
<1>4. Overlaps'
  BY <1>1, <1>2, OverlapsKeep DEF PracticeInv, PrepSteps
<1>5. PrepOK(r)' /\ AlonePrepOK(r)'
  BY <1>1, <1>2 DEF PrepOK, AlonePrepOK, PrepSteps
<1>6. PrepQuiet(r)
  BY <1>1, <1>2 DEF PrepQuiet
<1> QED
  BY <1>3, <1>4, <1>5, <1>6, PrepQuietKeeps DEF PracticeInv

-----------------------------------------------------------------------------
(* Interview practice: the theorem *)

\* Every step keeps the invariant.
LEMMA NextPracticeInv == PracticeInv /\ [InterviewNext]_interviewVars => PracticeInv'
<1> SUFFICES ASSUME PracticeInv, [InterviewNext]_interviewVars PROVE PracticeInv'
  OBVIOUS
<1>1. ASSUME NEW r \in Request, InterviewStep(r) PROVE PracticeInv'
  BY <1>1, StartSessionKeeps, LoadSessionKeeps, EvaluateKeeps, FindAnswerKeeps, StoreAnswerKeeps,
     CountAnswersKeeps, SaveSessionKeeps, PrepFailsKeeps DEF InterviewStep
<1>2. CASE UNCHANGED interviewVars
  <2>1. UNCHANGED <<session, answers, prep, crossed, settled>>
    BY <1>2 DEF interviewVars
  <2>2. InterviewTypeOK' /\ Overlaps' /\ UnstartedEmpty'
    BY <2>1 DEF PracticeInv, InterviewTypeOK, Overlaps, UnstartedEmpty
  <2>3. Preps'
    BY <2>1 DEF PracticeInv, Preps, PrepOK, AlonePrepOK, RowsOf
  <2>4. PracticeAddsUp'
    BY <2>1 DEF PracticeInv, PracticeAddsUp, SettledAddsUp, TwinsCrossed, CompletedIsAnswered, ScoreFitsText, RowsOf
  <2> QED
    BY <2>2, <2>3, <2>4 DEF PracticeInv
<1> QED
  BY <1>1, <1>2 DEF InterviewNext

\* The invariant holds in every behaviour.
LEMMA PracticeInvHolds == InterviewSpec => []PracticeInv
<1>1. InterviewInit /\ faults = 0 => PracticeInv
  BY InitPracticeInv
<1>2. PracticeInv /\ [InterviewNext]_<<interviewVars, faults>> => PracticeInv'
  BY NextPracticeInv
<1> QED
  BY <1>1, <1>2, PTL DEF InterviewSpec

\* Whatever answers overlap and fail, the progress of a session, its answers and
\* their scores differ only where requests crossed or one failed.
THEOREM PracticeStaysRight == InterviewSpec => []PracticeAddsUp
<1>1. PracticeInv => PracticeAddsUp
  BY DEF PracticeInv
<1> QED
  BY <1>1, PracticeInvHolds, PTL

-----------------------------------------------------------------------------
(* The recommendation feed: the history *)

EventOf(J) == [job : J, type : EventTypes]
HistoryOf(J) == [saved : SUBSET J, applied : SUBSET J, dismissed : SUBSET J]

History(s) == FoldLeft(After, NoHistory, s)

\* What the fold of the events tabulates.
HistoryTable(g, s) ==
  g = [t \in SUBSET DOMAIN s |-> IF t = {} THEN NoHistory ELSE After(g[t \ {Max(t)}], s[Max(t)])]

\* An event of a job keeps a history one of jobs.
LEMMA AfterTyped ==
  ASSUME NEW J, NEW h \in HistoryOf(J), NEW e \in EventOf(J)
  PROVE  After(h, e) \in HistoryOf(J)
BY DEF After, Set, HistoryOf, EventOf

\* The table is there.
LEMMA HistoryTableExists ==
  ASSUME NEW J, NEW s \in Seq(EventOf(J))
  PROVE  \E g \in [SUBSET DOMAIN s -> HistoryOf(J)] : HistoryTable(g, s)
<1> DEFINE S == 1..Len(s)
           D == HistoryOf(J)
           op == [p \in D \X S |-> After(p[1], s[p[2]])]
           pick == [t \in SUBSET S |-> Max(t)]
<1>1. DOMAIN s = S /\ IsFiniteSet(S) /\ Len(s) \in Nat
  BY FS_Interval
<1>2. op \in [D \X S -> D]
  <2>1. ASSUME NEW p \in D \X S PROVE After(p[1], s[p[2]]) \in D
    <3>1. p[1] \in HistoryOf(J) /\ s[p[2]] \in EventOf(J)
      BY <1>1
    <3> QED
      BY <3>1, AfterTyped
  <2> QED
    BY <2>1
<1>3. NoHistory \in D
  BY DEF NoHistory, HistoryOf
<1>4. \A t \in SUBSET S : t # {} => pick[t] \in t
  BY <1>1, MaxIs
<1>5. PICK g \in [SUBSET S -> D] : Table(g, op, NoHistory, pick, S)
  <2> HIDE DEF S, D, op, pick
  <2> QED
    BY <1>1, <1>2, <1>3, <1>4, TableExists
<1>6. ASSUME NEW t \in SUBSET S, t # {}
      PROVE  op[<<g[t \ {pick[t]}], pick[t]>>] = After(g[t \ {Max(t)}], s[Max(t)])
  <2>1. pick[t] = Max(t) /\ Max(t) \in S
    BY <1>4, <1>6
  <2>2. g[t \ {Max(t)}] \in D
    BY <1>5
  <2> HIDE DEF D
  <2> QED
    BY <2>1, <2>2
<1>7. HistoryTable(g, s)
  <2> DEFINE q == [t \in SUBSET S |-> IF t = {} THEN NoHistory
                                      ELSE After(g[t \ {Max(t)}], s[Max(t)])]
  <2>1. g = [t \in SUBSET S |-> IF t = {} THEN NoHistory
                                ELSE op[<<g[t \ {pick[t]}], pick[t]>>]]
    BY <1>5 DEF Table
  <2> HIDE DEF op, pick
  <2>2. g = q
    BY <2>1, <1>6
  <2> HIDE DEF S
  <2> QED
    BY <1>1, <2>2 DEF HistoryTable
<1> QED
  BY <1>1, <1>5, <1>7

\* The fold is the last entry of a table.
LEMMA HistoryUnfolds ==
  ASSUME NEW J, NEW s \in Seq(EventOf(J))
  PROVE  \E g : HistoryTable(g, s) /\ History(s) = g[1..Len(s)]
<1> DEFINE g == CHOOSE g : HistoryTable(g, s)
<1>1. History(s) = g[DOMAIN s]
  BY DEF History, FoldLeft, MapThenFoldSet, HistoryTable
<1>2. HistoryTable(g, s)
  BY HistoryTableExists, Zenon
<1>3. DOMAIN s = 1..Len(s)
  OBVIOUS
<1> QED
  BY <1>1, <1>2, <1>3, Zenon

\* The entry of the first events is one event ahead of the entry of fewer.
LEMMA HistorySteps ==
  ASSUME NEW n \in Nat, NEW s, DOMAIN s = 1..n, NEW g, HistoryTable(g, s)
  PROVE  /\ g[1..0] = NoHistory
         /\ \A k \in 0..n : k < n => g[1..(k + 1)] = After(g[1..k], s[k + 1])
<1>1. g[1..0] = NoHistory
  BY DEF HistoryTable
<1>2. ASSUME NEW k \in 0..n, k < n PROVE g[1..(k + 1)] = After(g[1..k], s[k + 1])
  <2>1. Max(1..(k + 1)) = k + 1 /\ (1..(k + 1)) \ {k + 1} = 1..k
    BY MaxOfInterval
  <2>2. 1..(k + 1) \in SUBSET DOMAIN s /\ 1..(k + 1) # {}
    BY <1>2
  <2> QED
    BY <2>1, <2>2 DEF HistoryTable
<1> QED
  BY <1>1, <1>2

\* An event is the last word on a history.
LEMMA HistoryGrows ==
  ASSUME NEW J, NEW s \in Seq(EventOf(J)), NEW e \in EventOf(J)
  PROVE  History(<<>>) = NoHistory /\ History(Append(s, e)) = After(History(s), e)
<1> DEFINE n == Len(s)
           z == Append(s, e)
<1>1. /\ n \in Nat /\ DOMAIN s = 1..n
      /\ z \in Seq(EventOf(J)) /\ Len(z) = n + 1 /\ DOMAIN z = 1..(n + 1) /\ z[n + 1] = e
      /\ \A k \in 1..n : z[k] = s[k]
  OBVIOUS
<1>2. PICK g : HistoryTable(g, s) /\ History(s) = g[1..n]
  BY HistoryUnfolds
<1>3. PICK h : HistoryTable(h, z) /\ History(z) = h[1..(n + 1)]
  BY <1>1, HistoryUnfolds
<1> HIDE DEF n, z
<1>4. /\ g[1..0] = NoHistory
      /\ \A k \in 0..n : k < n => g[1..(k + 1)] = After(g[1..k], s[k + 1])
  BY <1>1, <1>2, HistorySteps
<1>5. /\ h[1..0] = NoHistory
      /\ \A k \in 0..(n + 1) : k < n + 1 => h[1..(k + 1)] = After(h[1..k], z[k + 1])
  <2>1. n + 1 \in Nat
    BY <1>1
  <2> QED
    BY <1>1, <1>3, <2>1, HistorySteps
<1> DEFINE G == {k \in 0..n : g[1..k] = h[1..k]}
<1>6. n \in G
  <2>1. 0 \in G
    BY <1>1, <1>4, <1>5
  <2>2. ASSUME NEW k \in 0..n, k < n, k \in G PROVE k + 1 \in G
    <3>1. k + 1 \in 1..n /\ k \in 0..(n + 1) /\ k < n + 1
      BY <1>1, <2>2
    <3> QED
      BY <1>1, <1>4, <1>5, <2>2, <3>1
  <2> HIDE DEF G
  <2> QED
    BY <1>1, <2>1, <2>2, CountUp
<1>7. History(z) = After(History(s), e)
  <2>1. h[1..(n + 1)] = After(h[1..n], z[n + 1])
    BY <1>1, <1>5
  <2> QED
    BY <1>1, <1>2, <1>3, <1>6, <2>1
<1>8. History(<<>>) = NoHistory
  <2>1. << >> \in Seq(EventOf(J)) /\ Len(<< >>) = 0 /\ DOMAIN << >> = 1..0
    OBVIOUS
  <2>2. PICK f : HistoryTable(f, << >>) /\ History(<< >>) = f[1..0]
    BY <2>1, HistoryUnfolds
  <2> QED
    BY <2>1, <2>2, HistorySteps
<1> QED
  BY <1>7, <1>8 DEF z

-----------------------------------------------------------------------------
(* The recommendation feed: the rows that are taken *)

\* The rows that are taken from a sequence.
Taken(rows, s) == FoldLeft(LAMBDA taken, k : Take(rows, taken, k), {}, s)

\* What the fold of the rows tabulates.
TakeTable(g, rows, s) ==
  g = [t \in SUBSET DOMAIN s |-> IF t = {} THEN {} ELSE Take(rows, g[t \ {Max(t)}], s[Max(t)])]

\* The table is there.
LEMMA TakeTableExists ==
  ASSUME NEW rows, NEW P, NEW s \in Seq(P)
  PROVE  \E g \in [SUBSET DOMAIN s -> SUBSET P] : TakeTable(g, rows, s)
<1> DEFINE S == 1..Len(s)
           D == SUBSET P
           op == [p \in D \X S |-> Take(rows, p[1], s[p[2]])]
           pick == [t \in SUBSET S |-> Max(t)]
<1>1. DOMAIN s = S /\ IsFiniteSet(S) /\ Len(s) \in Nat
  BY FS_Interval
<1>2. op \in [D \X S -> D]
  BY <1>1 DEF Take
<1>3. {} \in D
  OBVIOUS
<1>4. \A t \in SUBSET S : t # {} => pick[t] \in t
  BY <1>1, MaxIs
<1>5. PICK g \in [SUBSET S -> D] : Table(g, op, {}, pick, S)
  <2> HIDE DEF S, D, op, pick
  <2> QED
    BY <1>1, <1>2, <1>3, <1>4, TableExists
<1>6. ASSUME NEW t \in SUBSET S, t # {}
      PROVE  op[<<g[t \ {pick[t]}], pick[t]>>] = Take(rows, g[t \ {Max(t)}], s[Max(t)])
  <2>1. pick[t] = Max(t) /\ Max(t) \in S
    BY <1>4, <1>6
  <2>2. g[t \ {Max(t)}] \in D
    BY <1>5
  <2> HIDE DEF D
  <2> QED
    BY <2>1, <2>2
<1>7. TakeTable(g, rows, s)
  <2> DEFINE q == [t \in SUBSET S |-> IF t = {} THEN {}
                                      ELSE Take(rows, g[t \ {Max(t)}], s[Max(t)])]
  <2>1. g = [t \in SUBSET S |-> IF t = {} THEN {} ELSE op[<<g[t \ {pick[t]}], pick[t]>>]]
    BY <1>5 DEF Table
  <2> HIDE DEF op, pick
  <2>2. g = q
    BY <2>1, <1>6
  <2> HIDE DEF S
  <2> QED
    BY <1>1, <2>2 DEF TakeTable
<1> QED
  BY <1>1, <1>5, <1>7

\* c[k] are the rows that are taken of the first k.
TakeSteps(c, rows, s, n) ==
  c[0] = {} /\ \A k \in 0..n : k < n => c[k + 1] = Take(rows, c[k], s[k + 1])

\* The rows that are taken are taken one after another.
LEMMA TakeUnfolds ==
  ASSUME NEW rows, NEW P, NEW s \in Seq(P), NEW n \in Nat, DOMAIN s = 1..n
  PROVE  \E c : Taken(rows, s) = c[n] /\ TakeSteps(c, rows, s, n)
<1> DEFINE g == CHOOSE g : TakeTable(g, rows, s)
           c == [k \in 0..n |-> g[1..k]]
<1>1. Taken(rows, s) = g[DOMAIN s]
  BY DEF Taken, FoldLeft, MapThenFoldSet, TakeTable
<1>2. TakeTable(g, rows, s)
  BY TakeTableExists, Zenon
<1> HIDE DEF g
<1>3. g[1..0] = {}
  BY <1>2 DEF TakeTable
<1>4. ASSUME NEW k \in 0..n, k < n PROVE c[k + 1] = Take(rows, c[k], s[k + 1])
  <2>1. Max(1..(k + 1)) = k + 1 /\ (1..(k + 1)) \ {k + 1} = 1..k
    BY MaxOfInterval
  <2>2. 1..(k + 1) \in SUBSET DOMAIN s /\ 1..(k + 1) # {} /\ k + 1 \in 0..n
    BY <1>4
  <2>3. g[1..(k + 1)] = Take(rows, g[1..k], s[k + 1])
    BY <1>2, <2>1, <2>2 DEF TakeTable
  <2> QED
    BY <2>2, <2>3
<1>5. c[0] = {} /\ c[n] = g[DOMAIN s]
  BY <1>3
<1> HIDE DEF c
<1>6. TakeSteps(c, rows, s, n)
  BY <1>4, <1>5 DEF TakeSteps
<1> QED
  BY <1>1, <1>5, <1>6

-----------------------------------------------------------------------------
(* The recommendation feed: sorting *)

\* A relation by which any two elements come in one order, and three in a row.
Ordering(S, before) ==
  /\ \A i \in S : <<i, i>> \notin before
  /\ \A i, k \in S : i # k => <<i, k>> \in before \/ <<k, i>> \in before
  /\ \A i, j, k \in S : <<i, j>> \in before /\ <<j, k>> \in before => <<i, k>> \in before

Place(S, before, k) == 1 + Cardinality({i \in S : <<i, k>> \in before})

\* The places of an ordering are the numbers from 1, one for each element.
LEMMA PlacesFill ==
  ASSUME NEW S, IsFiniteSet(S), NEW before, Ordering(S, before)
  PROVE  /\ \A k \in S : Place(S, before, k) \in 1..Cardinality(S)
         /\ \A i, k \in S : <<i, k>> \in before => Place(S, before, i) < Place(S, before, k)
         /\ \A i, k \in S : Place(S, before, i) = Place(S, before, k) => i = k
         /\ \A n \in 1..Cardinality(S) : \E k \in S : Place(S, before, k) = n
<1> DEFINE B(k) == {i \in S : <<i, k>> \in before}
           n == Cardinality(S)
           p == [k \in S |-> Place(S, before, k)]
<1>1. n \in Nat /\ \A T \in SUBSET S : /\ IsFiniteSet(T) /\ Cardinality(T) \in Nat
                                        /\ Cardinality(T) <= n /\ (Cardinality(T) = n => T = S)
  BY FS_CardinalityType, FS_Subset
<1>2. ASSUME NEW k \in S PROVE Place(S, before, k) \in 1..n
  <2>1. B(k) \in SUBSET S /\ B(k) # S
    BY DEF Ordering
  <2>2. Cardinality(B(k)) \in Nat /\ Cardinality(B(k)) <= n /\ Cardinality(B(k)) # n
    BY <1>1, <2>1
  <2> QED
    BY <1>1, <2>2 DEF Place
<1>3. ASSUME NEW i \in S, NEW k \in S, <<i, k>> \in before
      PROVE  Place(S, before, i) < Place(S, before, k)
  <2>1. B(i) \in SUBSET B(k) /\ B(i) # B(k) /\ B(k) \in SUBSET S /\ B(i) \in SUBSET S
    BY <1>3 DEF Ordering
  <2> HIDE DEF B
  <2>2. /\ Cardinality(B(i)) <= Cardinality(B(k)) /\ Cardinality(B(k)) # Cardinality(B(i))
        /\ Cardinality(B(i)) \in Nat /\ Cardinality(B(k)) \in Nat
    BY <1>1, <2>1, FS_Subset
  <2> QED
    BY <2>2 DEF Place, B
<1>4. ASSUME NEW i \in S, NEW k \in S, Place(S, before, i) = Place(S, before, k) PROVE i = k
  <2> SUFFICES ASSUME i # k PROVE FALSE
    OBVIOUS
  <2>1. <<i, k>> \in before \/ <<k, i>> \in before
    BY DEF Ordering
  <2>2. Place(S, before, i) \in 1..n /\ Place(S, before, k) \in 1..n
    BY <1>2
  <2> HIDE DEF n
  <2> QED
    BY <1>1, <1>3, <1>4, <2>1, <2>2
<1>5. p \in Surjection(S, 1..n)
  <2>1. p \in Injection(S, 1..n)
    BY <1>2, <1>4 DEF Injection, IsInjective
  <2>2. IsFiniteSet(1..n) /\ Cardinality(1..n) = n
    BY <1>1, FS_Interval
  <2> HIDE DEF p
  <2> QED
    BY <2>1, <2>2, FS_Injection
<1>6. ASSUME NEW m \in 1..n PROVE \E k \in S : Place(S, before, k) = m
  BY <1>5 DEF Surjection
<1> QED
  BY <1>2, <1>3, <1>4, <1>6

\* A function from the numbers up to n to themselves that grows is the identity.
LEMMA Growing ==
  ASSUME NEW n \in Nat, NEW f \in [1..n -> 1..n], \A i, k \in 1..n : i < k => f[i] < f[k]
  PROVE  \A m \in 1..n : f[m] = m
<1> DEFINE Low == {k \in 0..n : k = 0 \/ f[k] >= k}
           High == {k \in 0..n : k = n \/ f[n - k] <= n - k}
<1>1. \A m \in 1..n : f[m] \in 1..n
  OBVIOUS
<1>2. \A k \in 0..n : k \in Low
  <2>1. 0 \in Low
    OBVIOUS
  <2>2. ASSUME NEW k \in 0..n, k < n, k \in Low PROVE k + 1 \in Low
    <3>1. k + 1 \in 1..n /\ f[k + 1] \in 1..n
      BY <1>1, <2>2
    <3>2. CASE k = 0
      BY <3>1, <3>2
    <3>3. CASE k # 0
      <4>1. k \in 1..n /\ f[k] >= k /\ f[k] < f[k + 1] /\ f[k] \in 1..n
        BY <1>1, <2>2, <3>1, <3>3
      <4> QED
        BY <3>1, <4>1
    <3> QED
      BY <3>2, <3>3
  <2> HIDE DEF Low
  <2> QED
    BY <2>1, <2>2, CountUp
<1>3. \A k \in 0..n : k \in High
  <2>1. 0 \in High
    BY <1>1
  <2>2. ASSUME NEW k \in 0..n, k < n, k \in High PROVE k + 1 \in High
    <3>1. CASE k + 1 = n
      BY <2>2, <3>1
    <3>2. CASE k + 1 # n
      <4> DEFINE a == n - k
                 b == n - (k + 1)
      <4>1. a \in 1..n /\ b \in 1..n /\ b < a /\ a = b + 1 /\ f[a] <= a
        BY <2>2, <3>2
      <4>2. f[b] < f[a] /\ f[b] \in 1..n /\ f[a] \in 1..n
        BY <1>1, <4>1
      <4>3. f[b] <= b
        BY <4>1, <4>2
      <4> QED
        BY <2>2, <4>3
    <3> QED
      BY <3>1, <3>2
  <2> HIDE DEF High
  <2> QED
    BY <2>1, <2>2, CountUp
<1>4. ASSUME NEW m \in 1..n PROVE f[m] = m
  <2>1. m \in Low /\ n - m \in High /\ n - (n - m) = m
    BY <1>2, <1>3
  <2> QED
    BY <1>1, <2>1
<1> QED
  BY <1>4

\* A sorted set has its elements at their places.
LEMMA SortedPlaces ==
  ASSUME NEW S, IsFiniteSet(S), NEW before, Ordering(S, before)
  PROVE  /\ Sorted(S, before) \in [1..Cardinality(S) -> S]
         /\ \A k \in S : Place(S, before, k) \in 1..Cardinality(S)
         /\ \A k \in S : Sorted(S, before)[Place(S, before, k)] = k
<1> DEFINE n == Cardinality(S)
           place == [k \in S |-> Place(S, before, k)]
           z == [m \in 1..n |-> CHOOSE k \in S : place[k] = m]
           Good(s) == \A i, k \in DOMAIN s : i < k => <<s[i], s[k]>> \in before
<1>0. n \in Nat
  BY FS_CardinalityType
<1>1. /\ place \in [S -> 1..n]
      /\ \A i, k \in S : <<i, k>> \in before => place[i] < place[k]
      /\ \A i, k \in S : place[i] = place[k] => i = k
      /\ \A m \in 1..n : \E k \in S : place[k] = m
  BY PlacesFill
<1> HIDE DEF place, n
<1>2. z \in [1..n -> S] /\ \A m \in 1..n : place[z[m]] = m
  BY <1>1
<1>3. z \in SetToSeqs(S)
  BY <1>2 DEF SetToSeqs, n
<1>4. Good(z)
  <2>1. ASSUME NEW i \in 1..n, NEW k \in 1..n, i < k PROVE <<z[i], z[k]>> \in before
    <3>1. z[i] \in S /\ z[k] \in S /\ z[i] # z[k] /\ place[z[i]] = i /\ place[z[k]] = k
      BY <1>2, <2>1
    <3>2. ~(place[z[k]] < place[z[i]])
      BY <1>0, <2>1, <3>1
    <3> HIDE DEF z
    <3> QED
      BY <1>1, <3>1, <3>2 DEF Ordering
  <2> HIDE DEF z
  <2> QED
    BY <1>2, <2>1
<1> HIDE DEF z
<1> DEFINE s == Sorted(S, before)
<1>5. s \in SetToSeqs(S) /\ Good(s)
  BY <1>3, <1>4 DEF Sorted
<1> HIDE DEF s
<1>6. s \in [1..n -> S] /\ \A i, k \in 1..n : i # k => s[i] # s[k]
  BY <1>5 DEF SetToSeqs, n
<1>7. ASSUME NEW m \in 1..n PROVE place[s[m]] = m
  <2> DEFINE f == [k \in 1..n |-> place[s[k]]]
  <2>1. \A i, k \in 1..n : i < k => f[i] < f[k]
    BY <1>1, <1>5, <1>6
  <2>2. f \in [1..n -> 1..n]
    BY <1>1, <1>6
  <2>3. n \in Nat
    BY <1>0
  <2> HIDE DEF f
  <2>4. f[m] = m
    BY <2>1, <2>2, <2>3, Growing
  <2> QED
    BY <2>4 DEF f
<1>8. ASSUME NEW k \in S PROVE s[place[k]] = k
  <2>1. place[k] \in 1..n
    BY <1>1
  <2>2. place[s[place[k]]] = place[k] /\ s[place[k]] \in S
    BY <1>6, <1>7, <2>1
  <2> QED
    BY <1>1, <2>2
<1> QED
  BY <1>1, <1>6, <1>8 DEF s, n, place

\* And comes in the order of the relation, each element once.
LEMMA SortedOrder ==
  ASSUME NEW S, IsFiniteSet(S), NEW before, Ordering(S, before), NEW n, n = Cardinality(S)
  PROVE  /\ n \in Nat /\ Sorted(S, before) \in [1..n -> S]
         /\ \A k \in S : \E a \in 1..n : Sorted(S, before)[a] = k
         /\ \A a, b \in 1..n : a < b => <<Sorted(S, before)[a], Sorted(S, before)[b]>> \in before
         /\ \A a, b \in 1..n : a < b => Sorted(S, before)[a] # Sorted(S, before)[b]
         /\ \A a, b \in 1..n : a < b => <<Sorted(S, before)[b], Sorted(S, before)[a]>> \notin before
<1> DEFINE s == Sorted(S, before)
           place == [k \in S |-> Place(S, before, k)]
<1>1. n \in Nat
  BY FS_CardinalityType
<1>2. /\ s \in [1..n -> S]
      /\ \A k \in S : place[k] \in 1..n
      /\ \A k \in S : s[place[k]] = k
  BY SortedPlaces
<1>3. /\ \A i, k \in S : <<i, k>> \in before => place[i] < place[k]
      /\ \A i, k \in S : place[i] = place[k] => i = k
      /\ \A m \in 1..n : \E k \in S : place[k] = m
  BY PlacesFill
<1> HIDE DEF s, place
<1>4. ASSUME NEW m \in 1..n PROVE s[m] \in S /\ place[s[m]] = m
  BY <1>2, <1>3
<1>5. ASSUME NEW a \in 1..n, NEW b \in 1..n, a < b
      PROVE  s[a] # s[b] /\ <<s[a], s[b]>> \in before /\ <<s[b], s[a]>> \notin before
  <2>1. s[a] \in S /\ s[b] \in S /\ place[s[a]] = a /\ place[s[b]] = b
    BY <1>4
  <2>2. s[a] # s[b]
    BY <1>5, <2>1
  <2>3. <<s[b], s[a]>> \notin before
    BY <1>3, <1>5, <2>1
  <2> QED
    BY <2>1, <2>2, <2>3 DEF Ordering
<1> QED
  BY <1>1, <1>2, <1>5 DEF s

-----------------------------------------------------------------------------
(* The recommendation feed: one of those that are alike *)

Preference(rows, S) ==
  {p \in S \X S :
    \/ SkillCount(rows[p[1]]) > SkillCount(rows[p[2]])
    \/ SkillCount(rows[p[1]]) = SkillCount(rows[p[2]]) /\ p[1] < p[2]}

\* By skills and position, any two rows come in one order.
LEMMA PreferenceOrders ==
  ASSUME NEW S \in SUBSET Nat, NEW rows, \A k \in S : SkillCount(rows[k]) \in Nat
  PROVE  Ordering(S, Preference(rows, S))
BY DEF Ordering, Preference

\* A taken row is taken for good, and one is taken unless one like it is.
LEMMA OneIsTaken ==
  ASSUME NEW S, IsFiniteSet(S), NEW rows, NEW before, Ordering(S, before)
  PROVE  LET chosen == Taken(rows, Sorted(S, before))
         IN  /\ chosen \in SUBSET S
             /\ \A k \in S : k \in chosen =>
                  \A i \in chosen : <<i, k>> \in before => ~Alike(rows[i], rows[k])
             /\ \A k \in S : k \notin chosen =>
                  \E i \in chosen : <<i, k>> \in before /\ Alike(rows[i], rows[k])
<1> DEFINE s == Sorted(S, before)
           n == Cardinality(S)
           chosen == Taken(rows, s)
<1>1. /\ n \in Nat /\ s \in [1..n -> S]
      /\ \A k \in S : \E a \in 1..n : s[a] = k
      /\ \A a, b \in 1..n : a < b => <<s[a], s[b]>> \in before
      /\ \A a, b \in 1..n : a < b => s[a] # s[b]
      /\ \A a, b \in 1..n : a < b => <<s[b], s[a]>> \notin before
  BY SortedOrder
<1> HIDE DEF s, n
<1>2. n \in Nat /\ s \in Seq(S) /\ DOMAIN s = 1..n
  BY <1>1
<1>3. PICK c : chosen = c[n] /\ TakeSteps(c, rows, s, n)
  BY <1>2, TakeUnfolds
<1> HIDE DEF chosen
<1> DEFINE Within(m) == c[m] \in SUBSET {s[j] : j \in 1..m}
           Kept(m) == \A j \in 1..m : s[j] \in c[m] =>
                        \A i \in c[m] : <<i, s[j]>> \in before => ~Alike(rows[i], rows[s[j]])
           Passed(m) == \A j \in 1..m : s[j] \notin c[m] =>
                          \E i \in c[m] : <<i, s[j]>> \in before /\ Alike(rows[i], rows[s[j]])
           G == {m \in 0..n : Within(m) /\ Kept(m) /\ Passed(m)}
<1>4. 0 \in G
  BY <1>1, <1>3 DEF TakeSteps
<1>5. ASSUME NEW m \in 0..n, m < n, m \in G PROVE m + 1 \in G
  <2> DEFINE k == s[m + 1]
  <2>1. /\ m + 1 \in 1..n /\ m + 1 \in 0..n
        /\ \A j \in 1..(m + 1) : j \in 1..n /\ (j = m + 1 \/ (j \in 1..m /\ j < m + 1))
        /\ \A j \in 1..m : j \in 1..n /\ j \in 1..(m + 1) /\ j < m + 1
    BY <1>1, <1>5
  <2>2. c[m + 1] = Take(rows, c[m], k)
    BY <1>3, <1>5 DEF TakeSteps
  <2>3. ASSUME NEW j \in 1..m
        PROVE  s[j] # k /\ <<s[j], k>> \in before /\ <<k, s[j]>> \notin before
    BY <1>1, <2>1
  <2>4. Within(m) /\ Kept(m) /\ Passed(m)
    BY <1>5
  <2>5. <<k, k>> \notin before
    BY <1>1, <2>1 DEF Ordering
  <2> HIDE DEF k
  <2>6. k \notin c[m] /\ \A i \in c[m] : <<i, k>> \in before
    BY <2>3, <2>4
  <2>7. s[m + 1] = k
    BY DEF k
  <2>8. CASE \E i \in c[m] : Alike(rows[i], rows[k])
    <3>1. c[m + 1] = c[m]
      BY <2>2, <2>8 DEF Take
    <3>2. Within(m + 1)
      BY <2>1, <2>4, <3>1
    <3>3. Kept(m + 1)
      BY <2>1, <2>4, <2>6, <2>7, <3>1
    <3>4. Passed(m + 1)
      BY <2>1, <2>4, <2>6, <2>7, <2>8, <3>1
    <3> QED
      BY <2>1, <3>2, <3>3, <3>4
  <2>9. CASE ~ \E i \in c[m] : Alike(rows[i], rows[k])
    <3>1. c[m + 1] = c[m] \union {k}
      BY <2>2, <2>9 DEF Take
    <3>2. Within(m + 1)
      BY <2>1, <2>4, <2>7, <3>1
    <3>3. Kept(m + 1)
      <4>1. ASSUME NEW j \in 1..(m + 1), s[j] \in c[m + 1], NEW i \in c[m + 1],
                   <<i, s[j]>> \in before
            PROVE  ~Alike(rows[i], rows[s[j]])
        <5>1. CASE j = m + 1
          BY <2>5, <2>7, <2>9, <3>1, <4>1, <5>1
        <5>2. CASE j # m + 1
          <6>1. j \in 1..m
            BY <2>1, <5>2
          <6>2. s[j] \in c[m] /\ i \in c[m]
            BY <2>3, <3>1, <4>1, <6>1
          <6> QED
            BY <2>4, <4>1, <6>1, <6>2
        <5> QED
          BY <5>1, <5>2
      <4> QED
        BY <4>1
    <3>4. Passed(m + 1)
      BY <2>1, <2>4, <2>7, <3>1
    <3> QED
      BY <2>1, <3>2, <3>3, <3>4
  <2> QED
    BY <2>8, <2>9
<1>6. Within(n) /\ Kept(n) /\ Passed(n)
  <2>1. n \in 0..n
    BY <1>1
  <2>2. n \in G
    <3> HIDE DEF G
    <3> QED
      BY <1>1, <1>4, <1>5, <2>1, CountUp
  <2> QED
    BY <2>2
<1>7. chosen \in SUBSET S
  BY <1>1, <1>3, <1>6
<1>8. ASSUME NEW k \in S, k \in chosen, NEW i \in chosen, <<i, k>> \in before
      PROVE  ~Alike(rows[i], rows[k])
  BY <1>1, <1>3, <1>6, <1>8
<1>9. ASSUME NEW k \in S, k \notin chosen
      PROVE  \E i \in chosen : <<i, k>> \in before /\ Alike(rows[i], rows[k])
  BY <1>1, <1>3, <1>6, <1>9
<1> QED
  BY <1>7, <1>8, <1>9 DEF chosen, s

-----------------------------------------------------------------------------
(* The recommendation feed: what the history says of the events *)

LastIn(s, job, type, ends) ==
  \E k \in DOMAIN s :
    /\ s[k] = [job |-> job, type |-> type]
    /\ \A i \in k..Len(s) : s[i].job = job => s[i].type \notin ends

\* An event of another job, or of a type that does not matter, changes nothing.
LEMMA LastIsKept ==
  ASSUME NEW J, NEW s \in Seq(EventOf(J)), NEW e \in EventOf(J), NEW job, NEW type, NEW ends,
         e.job # job \/ (e.type # type /\ e.type \notin ends)
  PROVE  /\ LastIn(s, job, type, ends) => LastIn(Append(s, e), job, type, ends)
         /\ LastIn(Append(s, e), job, type, ends) => LastIn(s, job, type, ends)
<1> DEFINE n == Len(s)
           z == Append(s, e)
<1>1. /\ n \in Nat /\ DOMAIN s = 1..n /\ Len(s) = n
      /\ Len(z) = n + 1 /\ DOMAIN z = 1..(n + 1) /\ z[n + 1] = e
      /\ \A k \in 1..n : z[k] = s[k]
  OBVIOUS
<1> HIDE DEF n, z
<1>2. e # [job |-> job, type |-> type]
  OBVIOUS
<1>3. ASSUME LastIn(s, job, type, ends) PROVE LastIn(z, job, type, ends)
  <2>1. PICK k \in 1..n : /\ s[k] = [job |-> job, type |-> type]
                          /\ \A i \in k..n : s[i].job = job => s[i].type \notin ends
    BY <1>1, <1>3 DEF LastIn
  <2>2. k \in 1..(n + 1) /\ z[k] = [job |-> job, type |-> type]
    BY <1>1, <2>1
  <2>3. ASSUME NEW i \in k..(n + 1), z[i].job = job PROVE z[i].type \notin ends
    <3>1. CASE i = n + 1
      BY <1>1, <2>3, <3>1
    <3>2. CASE i # n + 1
      <4>1. i \in k..n /\ i \in 1..n
        BY <1>1, <2>1, <3>2
      <4> QED
        BY <1>1, <2>1, <2>3, <4>1
    <3> QED
      BY <3>1, <3>2
  <2> QED
    BY <1>1, <2>2, <2>3 DEF LastIn
<1>4. ASSUME LastIn(z, job, type, ends) PROVE LastIn(s, job, type, ends)
  <2>1. PICK k \in 1..(n + 1) : /\ z[k] = [job |-> job, type |-> type]
                                /\ \A i \in k..(n + 1) : z[i].job = job => z[i].type \notin ends
    BY <1>1, <1>4 DEF LastIn
  <2>2. k \in 1..n /\ s[k] = [job |-> job, type |-> type]
    BY <1>1, <1>2, <2>1
  <2>3. ASSUME NEW i \in k..n, s[i].job = job PROVE s[i].type \notin ends
    <3>1. i \in k..(n + 1) /\ z[i] = s[i]
      BY <1>1, <2>2
    <3> QED
      BY <2>1, <2>3, <3>1
  <2> QED
    BY <1>1, <2>2, <2>3 DEF LastIn
<1> QED
  BY <1>3, <1>4 DEF z

\* An event begins what it stands for and ends what it ends.
LEMMA LastIsSet ==
  ASSUME NEW J, NEW s \in Seq(EventOf(J)), NEW e \in EventOf(J), NEW type, NEW ends
  PROVE  /\ e.type = type /\ type \notin ends => LastIn(Append(s, e), e.job, type, ends)
         /\ e.type \in ends => ~LastIn(Append(s, e), e.job, type, ends)
         /\ ~LastIn(<< >>, e.job, type, ends)
<1> DEFINE n == Len(s)
           z == Append(s, e)
<1>1. n \in Nat /\ Len(z) = n + 1 /\ DOMAIN z = 1..(n + 1) /\ z[n + 1] = e
  OBVIOUS
<1> HIDE DEF n, z
<1>2. ASSUME e.type = type, type \notin ends PROVE LastIn(z, e.job, type, ends)
  <2>1. e = [job |-> e.job, type |-> type] /\ n + 1 \in 1..(n + 1)
    BY <1>1, <1>2 DEF EventOf
  <2>2. \A i \in (n + 1)..(n + 1) : i = n + 1
    BY <1>1
  <2> QED
    BY <1>1, <1>2, <2>1, <2>2 DEF LastIn
<1>3. ASSUME e.type \in ends, LastIn(z, e.job, type, ends) PROVE FALSE
  <2>1. PICK k \in 1..(n + 1) : \A i \in k..(n + 1) : z[i].job = e.job => z[i].type \notin ends
    BY <1>1, <1>3 DEF LastIn
  <2>2. n + 1 \in k..(n + 1)
    BY <1>1
  <2> QED
    BY <1>1, <1>3, <2>1, <2>2
<1>4. ~LastIn(<< >>, e.job, type, ends)
  BY DEF LastIn
<1> QED
  BY <1>2, <1>3, <1>4 DEF z

\* What an event makes of the types: a dismissal is not recorded after an application.
HistorySays(s, h, J) ==
  \A job \in J :
    /\ job \in h.applied => [job |-> job, type |-> "apply"] \in ToSet(s)
    /\ [job |-> job, type |-> "apply"] \in ToSet(s) => job \in h.applied
    /\ job \in h.saved => LastIn(s, job, "save", {"unsave", "dismiss"})
    /\ LastIn(s, job, "save", {"unsave", "dismiss"}) => job \in h.saved
    /\ job \in h.dismissed => job \notin h.applied /\ LastIn(s, job, "dismiss", {"save", "undismiss"})
    /\ job \notin h.applied /\ LastIn(s, job, "dismiss", {"save", "undismiss"}) => job \in h.dismissed

\* A recorded event leaves the history true.
LEMMA HistoryStaysTrue ==
  ASSUME NEW J, NEW s \in Seq(EventOf(J)), NEW e \in EventOf(J), NEW h \in HistoryOf(J),
         HistorySays(s, h, J), e.type = "dismiss" => e.job \notin h.applied
  PROVE  HistorySays(Append(s, e), After(h, e), J)
<1> DEFINE z == Append(s, e)
           w == After(h, e)
<1>1. ToSet(z) = ToSet(s) \union {e}
  <2>1. /\ Len(s) \in Nat /\ DOMAIN s = 1..Len(s) /\ DOMAIN z = 1..(Len(s) + 1)
        /\ z[Len(s) + 1] = e /\ \A k \in 1..Len(s) : z[k] = s[k]
    OBVIOUS
  <2> HIDE DEF z
  <2> QED
    BY <2>1 DEF ToSet
<1>2. e.job \in J /\ e.type \in EventTypes /\ e = [job |-> e.job, type |-> e.type]
  BY DEF EventOf
<1>3. /\ w.saved = Set(h.saved, e.job, e.type = "save", e.type \in {"unsave", "dismiss"})
      /\ w.applied = Set(h.applied, e.job, e.type = "apply", FALSE)
      /\ w.dismissed = Set(h.dismissed, e.job, e.type = "dismiss",
                           e.type \in {"apply", "save", "undismiss"})
  BY DEF After, Set
<1> HIDE DEF z, w
<1>4. ASSUME NEW job \in J, job # e.job
      PROVE  /\ job \in w.applied <=> job \in h.applied
             /\ job \in w.saved <=> job \in h.saved
             /\ job \in w.dismissed <=> job \in h.dismissed
             /\ [job |-> job, type |-> "apply"] \in ToSet(z)
                  <=> [job |-> job, type |-> "apply"] \in ToSet(s)
  BY <1>1, <1>2, <1>3, <1>4 DEF Set
<1>5. ASSUME NEW job \in J, NEW type, NEW ends, job # e.job
      PROVE  /\ LastIn(s, job, type, ends) => LastIn(z, job, type, ends)
             /\ LastIn(z, job, type, ends) => LastIn(s, job, type, ends)
  BY <1>5, LastIsKept DEF z
<1>6. ASSUME NEW type, NEW ends, e.type # type, e.type \notin ends
      PROVE  /\ LastIn(s, e.job, type, ends) => LastIn(z, e.job, type, ends)
             /\ LastIn(z, e.job, type, ends) => LastIn(s, e.job, type, ends)
  BY <1>6, LastIsKept DEF z
<1>7. ASSUME NEW type, NEW ends
      PROVE  /\ e.type = type /\ type \notin ends => LastIn(z, e.job, type, ends)
             /\ e.type \in ends => ~LastIn(z, e.job, type, ends)
  BY LastIsSet DEF z
<1> DEFINE S(q) == LastIn(q, e.job, "save", {"unsave", "dismiss"})
           D(q) == LastIn(q, e.job, "dismiss", {"save", "undismiss"})
           Applies(q) == [job |-> e.job, type |-> "apply"] \in ToSet(q)
<1>8. /\ e.job \in h.applied <=> Applies(s)
      /\ e.job \in h.saved <=> S(s)
      /\ e.job \in h.dismissed <=> e.job \notin h.applied /\ D(s)
  BY <1>2, Zenon DEF HistorySays
<1>9. /\ e.job \in w.applied <=> Applies(z)
      /\ e.job \in w.saved <=> S(z)
      /\ e.job \in w.dismissed <=> e.job \notin w.applied /\ D(z)
  <2>1. e.job \in w.applied <=> Applies(z)
    BY <1>1, <1>2, <1>3, <1>8 DEF Set
  <2>2. e.job \in w.saved <=> S(z)
    <3>1. CASE e.type = "save"
      <4>1. S(z)
        BY <1>7, <3>1
      <4> QED
        BY <1>3, <3>1, <4>1 DEF Set
    <3>2. CASE e.type \in {"unsave", "dismiss"}
      <4>1. ~S(z)
        BY <1>7, <3>2
      <4> QED
        BY <1>3, <3>2, <4>1 DEF Set
    <3>3. CASE e.type \notin {"save", "unsave", "dismiss"}
      <4>1. S(z) <=> S(s)
        BY <1>6, <3>3
      <4> QED
        BY <1>3, <1>8, <3>3, <4>1 DEF Set
    <3> QED
      BY <3>1, <3>2, <3>3
  <2>3. e.job \in w.dismissed <=> e.job \notin w.applied /\ D(z)
    <3>1. CASE e.type = "dismiss"
      <4>1. D(z)
        BY <1>7, <3>1
      <4> QED
        BY <1>3, <3>1, <4>1 DEF Set
    <3>2. CASE e.type \in {"save", "undismiss"}
      <4>1. ~D(z)
        BY <1>7, <3>2
      <4> QED
        BY <1>3, <3>2, <4>1 DEF Set
    <3>3. CASE e.type = "unsave"
      <4>1. D(z) <=> D(s)
        BY <1>6, <3>3
      <4> QED
        BY <1>3, <1>8, <3>3, <4>1 DEF Set
    <3>4. CASE e.type = "apply"
      BY <1>3, <3>4 DEF Set
    <3> QED
      BY <1>2, <3>1, <3>2, <3>3, <3>4 DEF EventTypes
  <2> QED
    BY <2>1, <2>2, <2>3
<1>10. HistorySays(z, w, J)
  <2>1. ASSUME NEW job \in J, job # e.job
        PROVE  /\ job \in w.applied <=> [job |-> job, type |-> "apply"] \in ToSet(z)
               /\ job \in w.saved <=> LastIn(z, job, "save", {"unsave", "dismiss"})
               /\ job \in w.dismissed <=>
                    job \notin w.applied /\ LastIn(z, job, "dismiss", {"save", "undismiss"})
    <3>1. /\ job \in h.applied <=> [job |-> job, type |-> "apply"] \in ToSet(s)
          /\ job \in h.saved <=> LastIn(s, job, "save", {"unsave", "dismiss"})
          /\ job \in h.dismissed <=>
               job \notin h.applied /\ LastIn(s, job, "dismiss", {"save", "undismiss"})
      BY Zenon DEF HistorySays
    <3>2. /\ LastIn(z, job, "save", {"unsave", "dismiss"})
               <=> LastIn(s, job, "save", {"unsave", "dismiss"})
          /\ LastIn(z, job, "dismiss", {"save", "undismiss"})
               <=> LastIn(s, job, "dismiss", {"save", "undismiss"})
      BY <1>5, <2>1
    <3> QED
      BY <1>4, <2>1, <3>1, <3>2
  <2> QED
    BY <1>9, <2>1, Zenon DEF HistorySays
<1> QED
  BY <1>10 DEF z, w

-----------------------------------------------------------------------------
(* The recommendation feed: pages *)

\* The first and last rank of a page.
LEMMA PageEdges ==
  ASSUME NEW page \in Nat \ {0}
  PROVE  /\ (page - 1) * PageSize \in Nat /\ page * PageSize \in Nat
         /\ page * PageSize = (page - 1) * PageSize + PageSize
         /\ PageSize \in Nat \ {0}
<1>1. PageSize \in Nat \ {0}
  BY FeedAssumption
<1>2. page \in Nat /\ page >= 1 /\ page - 1 \in Nat
  OBVIOUS
<1>3. \A a, b \in Nat : a * b \in Nat
  OBVIOUS
<1>4. \A a, b \in Nat : (a + 1) * b = a * b + b
  OBVIOUS
<1>5. (page - 1) + 1 = page
  BY <1>2
<1> QED
  BY <1>1, <1>2, <1>3, <1>4, <1>5

OnPage(S, before, page) ==
  {k \in S : Place(S, before, k) > (page - 1) * PageSize /\ Place(S, before, k) <= page * PageSize}

\* What a page has of the items of a sorted set.
PageFits(feed, S, before, items, page, I) ==
  /\ feed.total = Cardinality(S) /\ feed.total \in Nat /\ feed.jobs \in Seq(I)
  /\ feed.more \in BOOLEAN
  /\ feed.more <=> \E k \in S : Place(S, before, k) > page * PageSize
  /\ Len(feed.jobs) = Cardinality(OnPage(S, before, page))
  /\ \A k \in OnPage(S, before, page) :
       feed.jobs[Place(S, before, k) - (page - 1) * PageSize] = items[Place(S, before, k)]

\* A page of the items of a sorted set holds those whose place is on it.
LEMMA PageHolds ==
  ASSUME NEW S, IsFiniteSet(S), NEW before, Ordering(S, before), NEW I,
         NEW items \in [1..Cardinality(S) -> I], NEW page \in Nat \ {0},
         NEW feed, feed = PageOf(items, page)
  PROVE  PageFits(feed, S, before, items, page, I)
<1> DEFINE N == Cardinality(S)
           place == [k \in S |-> Place(S, before, k)]
           P == page * PageSize
           Q == (page - 1) * PageSize
           M == Min({P, N})
           on == {k \in S : place[k] > Q /\ place[k] <= P}
<1>1. N \in Nat
  BY FS_CardinalityType
<1>2. P \in Nat /\ Q \in Nat /\ Q < P
  <2>1. P \in Nat /\ Q \in Nat /\ P = Q + PageSize /\ PageSize \in Nat /\ PageSize # 0
    BY PageEdges
  <2> HIDE DEF P, Q
  <2> QED
    BY <2>1
<1>3. /\ place \in [S -> 1..N]
      /\ \A i, k \in S : place[i] = place[k] => i = k
      /\ \A m \in 1..N : \E k \in S : place[k] = m
  BY PlacesFill
<1>4. on = OnPage(S, before, page)
  BY DEF OnPage
<1> HIDE DEF place, N, P, Q
<1>5. M \in Nat /\ M <= N /\ M <= P /\ (M = N \/ M = P)
  <2>1. \E x \in {P, N} : \A y \in {P, N} : x <= y
    BY <1>1, <1>2
  <2>2. M \in {P, N} /\ \A y \in {P, N} : M <= y
    BY <2>1 DEF Min
  <2> HIDE DEF M
  <2> QED
    BY <1>1, <1>2, <2>2
<1>6. items \in Seq(I) /\ Len(items) = N /\ DOMAIN items = 1..N
  BY <1>1 DEF N
<1>7. feed.total = N /\ feed.jobs = SubSeq(items, Q + 1, M) /\ feed.more = (P < N)
  BY <1>6 DEF PageOf, P, Q
<1> HIDE DEF M
<1>8. /\ feed.jobs \in Seq(I)
      /\ Len(feed.jobs) = IF Q + 1 <= M THEN M - Q ELSE 0
      /\ \A i \in 1..(M - Q) : feed.jobs[i] = items[Q + i]
  <2>1. Q + 1 \in 1..(N + 1) \/ M < Q + 1
    BY <1>1, <1>2, <1>5
  <2>2. CASE Q + 1 <= M
    <3>1. Q + 1 \in 1..(Len(items) + 1) /\ M \in Q..Len(items)
      BY <1>1, <1>2, <1>5, <1>6, <2>2
    <3>2. /\ SubSeq(items, Q + 1, M) \in Seq(I)
          /\ Len(SubSeq(items, Q + 1, M)) = M - (Q + 1) + 1
          /\ \A i \in 1..(M - (Q + 1) + 1) : SubSeq(items, Q + 1, M)[i] = items[Q + 1 + i - 1]
      <4>1. Q + 1 \in Int /\ M \in Int /\ \A i \in (Q + 1)..M : items[i] \in I
        <5>1. \A i \in (Q + 1)..M : i \in 1..N
          BY <1>1, <1>2, <1>5
        <5>2. \A i \in 1..N : items[i] \in I
          BY DEF N
        <5> QED
          BY <1>2, <1>5, <5>1, <5>2
      <4> QED
        BY <2>2, <4>1, SubSeqProperties
    <3>3. M - (Q + 1) + 1 = M - Q /\ \A i \in 1..(M - Q) : Q + 1 + i - 1 = Q + i
      BY <1>2, <1>5
    <3> QED
      BY <1>7, <2>2, <3>2, <3>3
  <2>3. CASE ~(Q + 1 <= M)
    <3>1. SubSeq(items, Q + 1, M) = << >>
      <4>1. Q + 1 \in Int /\ M \in Int /\ M < Q + 1
        BY <1>2, <1>5, <2>3
      <4> QED
        BY <4>1, SubSeqEmpty
    <3>2. \A i \in 1..(M - Q) : FALSE
      BY <1>2, <1>5, <2>3
    <3>3. feed.jobs = << >>
      BY <1>7, <3>1
    <3> QED
      BY <2>3, <3>2, <3>3
  <2> QED
    BY <2>2, <2>3
<1>9. feed.more <=> \E k \in S : place[k] > P
  <2>1. CASE P < N
    <3>1. N \in 1..N
      BY <1>1, <1>2, <2>1
    <3>2. PICK k \in S : place[k] = N
      BY <1>3, <3>1
    <3> QED
      BY <1>7, <2>1, <3>2
  <2>2. CASE ~(P < N)
    <3>1. ASSUME NEW k \in S PROVE ~(place[k] > P)
      BY <1>1, <1>2, <1>3, <2>2
    <3> QED
      BY <1>7, <2>2, <3>1
  <2> QED
    BY <2>1, <2>2
<1>10. \A k \in S : k \in on <=> place[k] \in (Q + 1)..M
  BY <1>1, <1>2, <1>3, <1>5
<1>11. Len(feed.jobs) = Cardinality(on)
  <2> DEFINE X == (Q + 1)..M
             f == [m \in X |-> CHOOSE k \in S : place[k] = m]
  <2>1. IsFiniteSet(X) /\ Cardinality(X) = IF Q + 1 <= M THEN M - Q ELSE 0
    <3>1. Q + 1 \in Int /\ M \in Int
      BY <1>2, <1>5
    <3>2. IsFiniteSet(X) /\ Cardinality(X) = IF Q + 1 > M THEN 0 ELSE M - (Q + 1) + 1
      BY <3>1, FS_Interval
    <3> QED
      BY <1>2, <1>5, <3>2
  <2>2. \A m \in X : m \in 1..N
    BY <1>1, <1>2, <1>5
  <2>3. \A m \in X : f[m] \in S /\ place[f[m]] = m
    BY <1>3, <2>2
  <2> HIDE DEF f, X
  <2>4. f \in Bijection(X, on)
    <3>1. \A m \in X : f[m] \in on
      BY <1>10, <2>3 DEF X
    <3>2. \A k \in on : place[k] \in X /\ f[place[k]] = k
      <4>1. ASSUME NEW k \in on PROVE place[k] \in X /\ f[place[k]] = k
        <5>1. k \in S /\ place[k] \in X
          BY <1>10 DEF X
        <5>2. f[place[k]] \in S /\ place[f[place[k]]] = place[k]
          BY <2>3, <5>1
        <5> QED
          BY <1>3, <5>1, <5>2
      <4> QED
        BY <4>1
    <3>3. f \in [X -> on]
      BY <3>1 DEF f
    <3>4. \A a, b \in X : f[a] = f[b] => a = b
      BY <2>3
    <3> QED
      BY <3>2, <3>3, <3>4 DEF Bijection, Injection, Surjection, IsInjective
  <2>5. Cardinality(on) = Cardinality(X)
    <3>1. ExistsBijection(X, on)
      BY <2>4 DEF ExistsBijection
    <3> QED
      BY <2>1, <3>1, FS_Bijection
  <2> QED
    BY <1>8, <2>1, <2>5
<1>12. ASSUME NEW k \in on PROVE feed.jobs[place[k] - Q] = items[place[k]]
  <2>1. place[k] \in Nat /\ place[k] >= Q + 1 /\ place[k] <= M
    BY <1>1, <1>2, <1>3, <1>5, <1>10
  <2>2. place[k] - Q \in 1..(M - Q) /\ Q + (place[k] - Q) = place[k]
    BY <1>2, <1>5, <2>1
  <2> QED
    BY <1>8, <2>2
<1>13. \A k \in S : place[k] = Place(S, before, k)
  BY DEF place
<1> HIDE DEF on
<1>14. \A k \in on : k \in S
  BY DEF on
<1>15. feed.more \in BOOLEAN
  BY <1>7
<1> QED
  BY <1>1, <1>4, <1>7, <1>8, <1>9, <1>11, <1>12, <1>13, <1>14, <1>15 DEF PageFits, N, P, Q

-----------------------------------------------------------------------------
(* The recommendation feed: the invariant *)

\* The ids a row may have.
AnyId == {IdOf[a] : a \in Ad}

RowOf == [id : AnyId, ad : Ad, profile : Ad \union {NotExtracted}]

CatalogOK ==
  /\ catalog \in Seq(RowOf)
  /\ \A i, k \in DOMAIN catalog : catalog[i].id = catalog[k].id => i = k

\* The history says of every job what the events say.
HistoryOK == HistorySays(events, Behavior, AnyId)

\* A stored feed is the feed of its key, and has a number of jobs.
EntriesTyped == \A entry \in cache : entry.key.page \in Nat /\ entry.feed.total \in Nat

FeedInv ==
  /\ CatalogOK
  /\ events \in Seq(EventOf(Ids))
  /\ version \in 1..Versions
  /\ HistoryOK
  /\ EntriesTyped
  /\ answer.feed.jobs \in Seq([id : Ids, saved : BOOLEAN])
  /\ imported \in 0..MaxImports
  /\ requested \in 0..MaxRequests

\* A row has an id of the catalogue, which is one it may have.
LEMMA IdsKnown ==
  ASSUME CatalogOK
  PROVE  /\ DOMAIN catalog = 1..Len(catalog) /\ Len(catalog) \in Nat
         /\ \A k \in DOMAIN catalog : catalog[k] \in RowOf /\ catalog[k].id \in Ids
         /\ Ids \in SUBSET AnyId
<1>1. DOMAIN catalog = 1..Len(catalog) /\ Len(catalog) \in Nat
  BY DEF CatalogOK
<1>2. \A k \in DOMAIN catalog : catalog[k] \in RowOf
  BY DEF CatalogOK
<1>3. Ids = {catalog[k].id : k \in DOMAIN catalog}
  BY DEF Ids, Rows, ToSet
<1>4. \A k \in DOMAIN catalog : catalog[k].id \in AnyId
  BY <1>2 DEF RowOf
<1> QED
  BY <1>1, <1>2, <1>3, <1>4

\* The history is one of jobs.
LEMMA BehaviorTyped ==
  ASSUME NEW J, NEW s \in Seq(EventOf(J))
  PROVE  History(s) \in HistoryOf(J)
<1> DEFINE n == Len(s)
<1>1. n \in Nat /\ DOMAIN s = 1..n
  OBVIOUS
<1>2. PICK g : HistoryTable(g, s) /\ History(s) = g[1..n]
  BY HistoryUnfolds
<1>3. PICK h \in [SUBSET DOMAIN s -> HistoryOf(J)] : HistoryTable(h, s)
  BY HistoryTableExists
<1> HIDE DEF n
<1>4. /\ g[1..0] = NoHistory
      /\ \A k \in 0..n : k < n => g[1..(k + 1)] = After(g[1..k], s[k + 1])
  BY <1>1, <1>2, HistorySteps
<1> DEFINE G == {k \in 0..n : g[1..k] \in HistoryOf(J)}
<1>5. n \in G
  <2>1. 0 \in G
    BY <1>1, <1>4 DEF NoHistory, HistoryOf
  <2>2. ASSUME NEW k \in 0..n, k < n, k \in G PROVE k + 1 \in G
    <3>1. k + 1 \in 1..n /\ k + 1 \in 0..n
      BY <1>1, <2>2
    <3>2. s[k + 1] \in EventOf(J)
      BY <1>1, <3>1
    <3>3. After(g[1..k], s[k + 1]) \in HistoryOf(J)
      BY <2>2, <3>2, AfterTyped
    <3> QED
      BY <1>4, <2>2, <3>1, <3>3
  <2> HIDE DEF G
  <2> QED
    BY <1>1, <2>1, <2>2, CountUp
<1> QED
  BY <1>2, <1>5

\* z is s without its k-th element, and x.
MovedUp(z, s, k, x, X, n) ==
  /\ z \in Seq(X) /\ Len(z) = n /\ z[n] = x
  /\ \A i \in 1..n : i < k => z[i] = s[i]
  /\ \A i \in 1..n : i >= k /\ i < n => z[i] = s[i + 1]

\* The elements after one that is removed move up.
LEMMA RemovedRow ==
  ASSUME NEW X, NEW s \in Seq(X), NEW n, n = Len(s), NEW k \in 1..n, NEW x \in X,
         NEW z, z = Append(RemoveAt(s, k), x)
  PROVE  MovedUp(z, s, k, x, X, n)
<1> DEFINE u == SubSeq(s, 1, k - 1)
           v == SubSeq(s, k + 1, n)
           w == u \o v
<1>1. n \in Nat /\ DOMAIN s = 1..n /\ \A i \in 1..n : s[i] \in X
  OBVIOUS
<1>2. u \in Seq(X) /\ Len(u) = k - 1 /\ \A i \in 1..(k - 1) : u[i] = s[i]
  <2>1. 1 \in Int /\ k - 1 \in Int /\ \A i \in 1..(k - 1) : s[i] \in X
    BY <1>1
  <2>2. /\ u \in Seq(X) /\ Len(u) = IF 1 <= k - 1 THEN (k - 1) - 1 + 1 ELSE 0
        /\ \A i \in 1..((k - 1) - 1 + 1) : u[i] = s[1 + i - 1]
    BY <2>1, SubSeqProperties
  <2> HIDE DEF u
  <2> QED
    BY <1>1, <2>2
<1>3. v \in Seq(X) /\ Len(v) = n - k /\ \A i \in 1..(n - k) : v[i] = s[k + i]
  <2>1. k + 1 \in Int /\ n \in Int /\ \A i \in (k + 1)..n : s[i] \in X
    BY <1>1
  <2>2. /\ v \in Seq(X) /\ Len(v) = IF k + 1 <= n THEN n - (k + 1) + 1 ELSE 0
        /\ \A i \in 1..(n - (k + 1) + 1) : v[i] = s[k + 1 + i - 1]
    BY <2>1, SubSeqProperties
  <2> HIDE DEF v
  <2>3. \A i \in 1..(n - k) : k + 1 + i - 1 = k + i
    BY <1>1
  <2> QED
    BY <1>1, <2>2, <2>3
<1>4. w = RemoveAt(s, k)
  BY DEF RemoveAt
<1> HIDE DEF u, v
<1>5. /\ w \in Seq(X) /\ Len(w) = n - 1
      /\ \A i \in 1..(n - 1) : w[i] = IF i < k THEN s[i] ELSE s[i + 1]
  <2>1. w \in Seq(X) /\ Len(w) = Len(u) + Len(v)
    <3>1. u \in Seq(X) /\ v \in Seq(X)
      BY <1>2, <1>3
    <3> QED
      BY <3>1
  <2>2. \A i \in 1..(n - 1) : w[i] = IF i <= Len(u) THEN u[i] ELSE v[i - Len(u)]
    BY <1>1, <1>2, <1>3
  <2>3. ASSUME NEW i \in 1..(n - 1) PROVE w[i] = IF i < k THEN s[i] ELSE s[i + 1]
    <3>1. CASE i < k
      BY <1>1, <1>2, <2>2, <3>1
    <3>2. CASE ~(i < k)
      <4>1. i - (k - 1) \in 1..(n - k) /\ k + (i - (k - 1)) = i + 1
        BY <1>1, <3>2
      <4> QED
        BY <1>1, <1>2, <1>3, <2>2, <3>2, <4>1
    <3> QED
      BY <3>1, <3>2
  <2> QED
    BY <1>1, <1>2, <1>3, <2>1, <2>3
<1> HIDE DEF w
<1>6. z \in Seq(X) /\ Len(z) = n /\ z[n] = x /\ \A i \in 1..(n - 1) : z[i] = w[i]
  <2>1. z = Append(w, x)
    BY <1>4
  <2> QED
    BY <1>1, <1>5, <2>1
<1>7. /\ \A i \in 1..n : i < k => z[i] = s[i]
      /\ \A i \in 1..n : i >= k /\ i < n => z[i] = s[i + 1]
  <2>1. \A i \in 1..n : (i < k => i \in 1..(n - 1)) /\ (i < n => i \in 1..(n - 1))
    BY <1>1
  <2> QED
    BY <1>5, <1>6, <2>1
<1> QED
  BY <1>6, <1>7 DEF MovedUp

\* Before the first event nothing is said.
LEMMA NothingSaid ==
  ASSUME NEW J
  PROVE  HistorySays(<< >>, History(<< >>), J)
<1>1. << >> \in Seq(EventOf({})) /\ History(<< >>) \in HistoryOf({})
  <2>1. << >> \in Seq(EventOf({}))
    OBVIOUS
  <2> QED
    BY <2>1, BehaviorTyped
<1>2. ASSUME NEW job \in J
      PROVE  /\ job \notin History(<< >>).applied /\ job \notin History(<< >>).saved
             /\ job \notin History(<< >>).dismissed
  BY <1>1 DEF HistoryOf
<1>3. ToSet(<< >>) = {}
  BY DEF ToSet
<1>4. \A job \in J : /\ ~LastIn(<< >>, job, "save", {"unsave", "dismiss"})
                     /\ ~LastIn(<< >>, job, "dismiss", {"save", "undismiss"})
  BY DEF LastIn
<1> QED
  BY <1>2, <1>3, <1>4, Zenon DEF HistorySays

\* The rows of earlier imports, no events and no feeds.
LEMMA InitFeedInv == FeedInit => FeedInv
<1> SUFFICES ASSUME FeedInit PROVE FeedInv
  OBVIOUS
<1>1. /\ FirstImport \in Seq(Ad) /\ DOMAIN FirstImport = 1..Len(FirstImport)
      /\ Len(FirstImport) \in Nat /\ \A k \in DOMAIN FirstImport : FirstImport[k] \in Ad
  BY FeedAssumption
<1>2. /\ catalog = [k \in 1..Len(FirstImport) |->
                     [id |-> IdOf[FirstImport[k]], ad |-> FirstImport[k], profile |-> FirstImport[k]]]
      /\ events = << >> /\ version = 1 /\ cache = {} /\ answer.feed.jobs = << >>
      /\ imported = 0 /\ requested = 0
  BY <1>1 DEF FeedInit
<1>3. CatalogOK
  <2>1. \A k \in 1..Len(FirstImport) :
          [id |-> IdOf[FirstImport[k]], ad |-> FirstImport[k], profile |-> FirstImport[k]] \in RowOf
    BY <1>1 DEF RowOf, AnyId
  <2>2. catalog \in [1..Len(FirstImport) -> RowOf]
    BY <1>2, <2>1
  <2>3. catalog \in Seq(RowOf) /\ DOMAIN catalog = 1..Len(FirstImport)
    BY <1>1, <2>2
  <2>4. \A i, k \in DOMAIN FirstImport : IdOf[FirstImport[i]] = IdOf[FirstImport[k]] => i = k
    BY FeedAssumption
  <2>5. ASSUME NEW i \in DOMAIN catalog, NEW k \in DOMAIN catalog, catalog[i].id = catalog[k].id
        PROVE  i = k
    BY <1>1, <1>2, <2>3, <2>4, <2>5
  <2> QED
    BY <2>3, <2>5 DEF CatalogOK
<1>4. HistoryOK
  <2>1. Behavior = History(<< >>)
    BY <1>2 DEF Behavior, History
  <2> QED
    BY <1>2, <2>1, NothingSaid DEF HistoryOK
<1>5. Versions \in Nat \ {0} /\ MaxImports \in Nat /\ MaxRequests \in Nat
  BY FeedAssumption
<1>6. version \in 1..Versions /\ imported \in 0..MaxImports /\ requested \in 0..MaxRequests
  BY <1>2, <1>5
<1>7. events \in Seq(EventOf(Ids)) /\ answer.feed.jobs \in Seq([id : Ids, saved : BOOLEAN])
  BY <1>2
<1> QED
  BY <1>2, <1>3, <1>4, <1>6, <1>7 DEF FeedInv, EntriesTyped

-----------------------------------------------------------------------------
(* The recommendation feed: what is computed is current *)

\* The definitions of the property and of the lemmas about sequences agree.
LEMMA HistoryReads ==
  ASSUME FeedInv, NEW job \in AnyId
  PROVE  /\ job \in Behavior.applied <=> AppliedTo(job)
         /\ job \in Behavior.saved <=> SavedNow(job)
         /\ job \in Behavior.dismissed <=> DismissedNow(job)
<1>1. /\ job \in Behavior.applied <=> [job |-> job, type |-> "apply"] \in ToSet(events)
      /\ job \in Behavior.saved <=> LastIn(events, job, "save", {"unsave", "dismiss"})
      /\ job \in Behavior.dismissed <=>
           job \notin Behavior.applied /\ LastIn(events, job, "dismiss", {"save", "undismiss"})
  BY Zenon DEF FeedInv, HistoryOK, HistorySays
<1> QED
  BY <1>1, Zenon DEF AppliedTo, SavedNow, DismissedNow, LastOf, LastIn

\* Skills and scores are numbers, also those of a row without a profile.
LEMMA RowNumbers ==
  ASSUME NEW row \in RowOf, NEW v \in 1..Versions
  PROVE  SkillCount(row) \in Nat /\ MatchScore(row, v) \in Nat
<1>1. /\ \A a \in Ad : SkillsIn[a] \in Nat
      /\ \A u \in 1..Versions, a \in Ad : ScoreOf[u][a] \in Nat
  BY FeedAssumption
<1>2. row.profile \in Ad \union {NotExtracted}
  BY DEF RowOf
<1> QED
  BY <1>1, <1>2 DEF SkillCount, MatchScore

\* The jobs that are left are the rows the candidate may see.
LEMMA FilteredAreVisible ==
  ASSUME FeedInv
  PROVE  FilterCandidateJobs(catalog, Behavior) = VisibleRows
<1>1. \A k \in DOMAIN catalog : catalog[k].id \in AnyId
  BY IdsKnown DEF FeedInv
<1> QED
  BY <1>1, HistoryReads DEF FilterCandidateJobs, VisibleRows

\* Of those the preferred ones are taken.
LEMMA OneOfEachIsTaken ==
  ASSUME FeedInv, NEW chosen, chosen = DeduplicateJobs(catalog, VisibleRows)
  PROVE  chosen \in SUBSET VisibleRows /\ OneOfEach(chosen)
<1> DEFINE S == VisibleRows
           before == Preference(catalog, S)
<1>1. S \in SUBSET Nat /\ IsFiniteSet(S) /\ \A k \in S : SkillCount(catalog[k]) \in Nat
  <2>1. /\ DOMAIN catalog = 1..Len(catalog) /\ Len(catalog) \in Nat
        /\ \A k \in DOMAIN catalog : catalog[k] \in RowOf
    BY IdsKnown DEF FeedInv
  <2>2. S \in SUBSET (1..Len(catalog)) /\ IsFiniteSet(1..Len(catalog))
    BY <2>1, FS_Interval DEF VisibleRows
  <2>3. \A k \in S : SkillCount(catalog[k]) \in Nat
    BY <2>1, <2>2, RowNumbers DEF FeedInv
  <2> HIDE DEF S
  <2>4. IsFiniteSet(S)
    BY <2>2, FS_Subset
  <2> QED
    BY <2>1, <2>2, <2>3, <2>4
<1>2. Ordering(S, before)
  BY <1>1, PreferenceOrders
<1>3. chosen = Taken(catalog, Sorted(S, before))
  BY DEF DeduplicateJobs, Taken, Prioritized, Preference
<1> HIDE DEF S
<1>4. /\ chosen \in SUBSET S
      /\ \A k \in S : k \in chosen =>
           \A i \in chosen : <<i, k>> \in before => ~Alike(catalog[i], catalog[k])
      /\ \A k \in S : k \notin chosen =>
           \E i \in chosen : <<i, k>> \in before /\ Alike(catalog[i], catalog[k])
  BY <1>1, <1>2, <1>3, OneIsTaken
<1>5. \A i, k \in S : <<i, k>> \in before <=> Preferred(i, k)
  BY DEF Preference, Preferred
<1> HIDE DEF before
<1>6. ASSUME NEW k \in S, k \in chosen, NEW i \in chosen, Alike(catalog[i], catalog[k]), Preferred(i, k)
      PROVE  FALSE
  BY <1>4, <1>5, <1>6
<1>7. ASSUME NEW k \in S, k \notin chosen
      PROVE  \E i \in chosen : Alike(catalog[i], catalog[k]) /\ Preferred(i, k)
  BY <1>4, <1>5, <1>7
<1> QED
  BY <1>4, <1>6, <1>7 DEF OneOfEach, S

Ranking(S) == {p \in S \X S : Outranks(p[1], p[2])}

\* What is computed is what a page is to show.
LEMMA LiveFeedPresents ==
  ASSUME FeedInv, NEW page \in Nat \ {0}
  PROVE  /\ Presents(page, LiveFeed(page))
         /\ LiveFeed(page).total \in Nat
         /\ LiveFeed(page).jobs \in Seq([id : Ids, saved : BOOLEAN])
<1> DEFINE chosen == DeduplicateJobs(catalog, VisibleRows)
           shown == {k \in chosen : MatchScore(catalog[k], version) > 0}
           before == Ranking(shown)
           order == Sorted(shown, before)
           Item(k) == [id |-> catalog[k].id, saved |-> catalog[k].id \in Behavior.saved]
           items == [m \in DOMAIN order |-> Item(order[m])]
<1>1. chosen \in SUBSET VisibleRows /\ OneOfEach(chosen)
  BY OneOfEachIsTaken
<1>2. /\ DOMAIN catalog = 1..Len(catalog) /\ Len(catalog) \in Nat
      /\ \A k \in DOMAIN catalog : catalog[k] \in RowOf /\ catalog[k].id \in Ids /\ catalog[k].id \in AnyId
  BY IdsKnown DEF FeedInv
<1> HIDE DEF chosen
<1>3. shown \in SUBSET (1..Len(catalog)) /\ IsFiniteSet(shown) /\ shown \in SUBSET chosen
  <2>1. shown \in SUBSET (1..Len(catalog)) /\ shown \in SUBSET chosen
    BY <1>1, <1>2 DEF VisibleRows
  <2>2. IsFiniteSet(1..Len(catalog))
    BY <1>2, FS_Interval
  <2> HIDE DEF shown
  <2> QED
    BY <2>1, <2>2, FS_Subset
<1>4. \A k \in 1..Len(catalog) : /\ Points(k) \in Nat /\ MatchScore(catalog[k], version) \in Nat
                                 /\ Points(k) = Score(catalog[k], Behavior, version)
  <2>1. version \in 1..Versions
    BY DEF FeedInv
  <2>2. ASSUME NEW k \in 1..Len(catalog)
        PROVE  /\ MatchScore(catalog[k], version) \in Nat
               /\ Points(k) = Score(catalog[k], Behavior, version)
    <3>1. MatchScore(catalog[k], version) \in Nat
      BY <1>2, <2>1, RowNumbers
    <3>2. catalog[k].id \in Behavior.saved <=> SavedNow(catalog[k].id)
      BY <1>2, HistoryReads
    <3> QED
      BY <3>1, <3>2 DEF Points, Score
  <2> QED
    BY <2>2 DEF Points
<1>5. Ordering(shown, before)
  <2> HIDE DEF shown
  <2> QED
    BY <1>3, <1>4 DEF Ordering, Ranking, Outranks
<1>6. Ranked(catalog, shown, Behavior, version) = items
  <2> DEFINE score(k) == Score(catalog[k], Behavior, version)
             match(k) == MatchScore(catalog[k], version)
             R == {p \in shown \X shown :
                     \/ score(p[1]) > score(p[2])
                     \/ score(p[1]) = score(p[2]) /\ match(p[1]) > match(p[2])
                     \/ score(p[1]) = score(p[2]) /\ match(p[1]) = match(p[2]) /\ p[1] < p[2]}
  <2>1. R = before
    <3> HIDE DEF shown
    <3> QED
      BY <1>3, <1>4 DEF Ranking, Outranks
  <2>2. Ranked(catalog, shown, Behavior, version) =
          [m \in DOMAIN Sorted(shown, R) |-> Item(Sorted(shown, R)[m])]
    BY DEF Ranked
  <2> HIDE DEF R, before
  <2> QED
    BY <2>1, <2>2
<1>7. LiveFeed(page) = PageOf(items, page)
  BY <1>6, FilteredAreVisible DEF LiveFeed, FeedFor, Eligible, chosen
<1> DEFINE N == Cardinality(shown)
<1>8. /\ order \in [1..N -> shown]
      /\ \A k \in shown : Place(shown, before, k) \in 1..N
      /\ \A k \in shown : order[Place(shown, before, k)] = k
  <2> HIDE DEF shown, before
  <2> QED
    BY <1>3, <1>5, SortedPlaces
<1> HIDE DEF order
<1>9. items \in [1..N -> [id : Ids, saved : BOOLEAN]]
  <2>1. \A k \in shown : Item(k) \in [id : Ids, saved : BOOLEAN]
    BY <1>2, <1>3
  <2>2. DOMAIN order = 1..N /\ \A m \in 1..N : order[m] \in shown
    BY <1>8
  <2> HIDE DEF Item, shown
  <2> QED
    BY <2>1, <2>2
<1>10. \A k \in shown : items[Place(shown, before, k)] =
                          [id |-> catalog[k].id, saved |-> SavedNow(catalog[k].id)]
  <2>1. ASSUME NEW k \in shown
        PROVE  Item(k) = [id |-> catalog[k].id, saved |-> SavedNow(catalog[k].id)]
    <3>1. (catalog[k].id \in Behavior.saved) = SavedNow(catalog[k].id)
      <4>1. catalog[k].id \in Behavior.saved <=> SavedNow(catalog[k].id)
        BY <1>2, <1>3, HistoryReads
      <4>2. SavedNow(catalog[k].id) \in BOOLEAN
        BY DEF SavedNow, LastOf
      <4> QED
        BY <4>1, <4>2
    <3> QED
      BY <3>1
  <2>2. \A k \in shown : items[Place(shown, before, k)] = Item(k)
    <3> HIDE DEF Item, shown, before
    <3> QED
      BY <1>8
  <2> HIDE DEF items, Item, shown
  <2> QED
    BY <2>1, <2>2
<1> HIDE DEF items
<1>0. PICK feed : feed = PageOf(items, page)
  OBVIOUS
<1>11. PageFits(feed, shown, before, items, page, [id : Ids, saved : BOOLEAN])
  <2> HIDE DEF shown, before
  <2>1. IsFiniteSet(shown) /\ Ordering(shown, before) /\ items \in [1..Cardinality(shown) -> [id : Ids, saved : BOOLEAN]]
    BY <1>3, <1>5, <1>9
  <2> HIDE DEF N
  <2> QED
    BY <1>0, <2>1, PageHolds
<1> DEFINE rank(k) == 1 + Cardinality({i \in shown : Outranks(i, k)})
           onPage == {k \in shown : rank(k) > (page - 1) * PageSize /\ rank(k) <= page * PageSize}
<1>12. \A k \in shown : rank(k) = Place(shown, before, k)
  <2>1. \A k \in shown : {i \in shown : Outranks(i, k)} = {i \in shown : <<i, k>> \in before}
    <3> HIDE DEF shown
    <3> QED
      BY DEF Ranking
  <2> HIDE DEF shown, before
  <2> QED
    BY <2>1 DEF Place
<1> HIDE DEF shown, before, rank
<1>13. onPage = OnPage(shown, before, page)
  BY <1>12 DEF OnPage
<1>14. /\ feed.total = N
       /\ feed.more = \E k \in shown : rank(k) > page * PageSize
       /\ Len(feed.jobs) = Cardinality(onPage)
       /\ \A k \in onPage : feed.jobs[rank(k) - (page - 1) * PageSize] =
                              [id |-> catalog[k].id, saved |-> SavedNow(catalog[k].id)]
  <2>1. ASSUME NEW k \in onPage
        PROVE  feed.jobs[rank(k) - (page - 1) * PageSize] =
                 [id |-> catalog[k].id, saved |-> SavedNow(catalog[k].id)]
    BY <1>10, <1>11, <1>12, <1>13 DEF PageFits
  <2>2. feed.more = \E k \in shown : rank(k) > page * PageSize
    <3>1. feed.more <=> \E k \in shown : rank(k) > page * PageSize
      BY <1>11, <1>12 DEF PageFits
    <3>2. feed.more \in BOOLEAN
      BY <1>11 DEF PageFits
    <3> QED
      BY <3>1, <3>2
  <2> QED
    BY <1>11, <1>13, <2>1, <2>2 DEF PageFits
<1> QED
  BY <1>0, <1>1, <1>7, <1>11, <1>14 DEF Presents, PageFits, shown, rank

-----------------------------------------------------------------------------
(* The recommendation feed: the cache *)

\* The feed of an entry is computed from the fields of its key.
EntryOK(entry) ==
  entry.feed =
    FeedFor(entry.key.catalog, entry.key.behavior, entry.key.version, entry.key.page)

CacheOK == \A entry \in cache : EntryOK(entry)

\* The fields of the key of a request are what a feed would be computed from.
LEMMA KeySays ==
  ASSUME NEW page, NEW entry, EntryOK(entry), entry.key = BuildKey(page)
  PROVE  entry.feed = LiveFeed(page)
BY DEF EntryOK, BuildKey, LiveFeed

\* What is stored for a request is the feed of its key.
LEMMA StoredOK ==
  ASSUME NEW page
  PROVE  EntryOK([key |-> BuildKey(page), feed |-> LiveFeed(page)])
BY DEF EntryOK, BuildKey, LiveFeed

\* Redis starts empty.
LEMMA InitCacheOK == FeedInit => CacheOK
BY DEF FeedInit, CacheOK

\* A request stores a feed under its own key or drops the entry of that key.
LEMMA RequestKeepsCache ==
  ASSUME CacheOK, NEW page, GetRecommendationFeed(page)
  PROVE  CacheOK'
<1>1. \A entry \in cache' :
        entry \in cache \/ entry = [key |-> BuildKey(page), feed |-> LiveFeed(page)]
  BY DEF GetRecommendationFeed
<1>2. \A entry \in cache' : EntryOK(entry)
  BY <1>1, StoredOK DEF CacheOK
<1> QED
  BY <1>2 DEF CacheOK, EntryOK

\* Every step keeps the entries true.
LEMMA NextCacheOK == CacheOK /\ [FeedNext]_feedVars => CacheOK'
<1> SUFFICES ASSUME CacheOK, [FeedNext]_feedVars PROVE CacheOK'
  OBVIOUS
<1>1. CASE UNCHANGED cache
  BY <1>1 DEF CacheOK, EntryOK
<1>2. ASSUME NEW page \in Pages, GetRecommendationFeed(page) PROVE CacheOK'
  BY <1>2, RequestKeepsCache
<1>3. CASE ExpireEntry
  BY <1>3 DEF ExpireEntry, CacheOK, EntryOK
<1> QED
  BY <1>1, <1>2, <1>3
  DEF FeedNext, feedVars, Upsert, RecordInteraction, SaveCandidate

\* A request answers an entry of its key, or the feed itself.
LEMMA RequestAnswersLive ==
  ASSUME CacheOK, NEW page, GetRecommendationFeed(page)
  PROVE  answer'.page = page /\ answer'.feed = LiveFeed(page)
<1> DEFINE hits == {entry \in cache : entry.key = BuildKey(page)}
<1>1. CASE \E hit \in hits : answer' = [page |-> page, feed |-> hit.feed]
  <2>1. PICK hit \in hits : answer' = [page |-> page, feed |-> hit.feed]
    BY <1>1
  <2>2. hit.feed = LiveFeed(page)
    BY KeySays DEF CacheOK
  <2> QED
    BY <2>1, <2>2
<1>2. CASE answer' = [page |-> page, feed |-> LiveFeed(page)]
  BY <1>2
<1> QED
  BY <1>1, <1>2 DEF GetRecommendationFeed

\* Only a request counts as one, so only a request is asked to answer.
LEMMA NextAnswersLive ==
  CacheOK /\ [FeedNext]_feedVars
    => [requested' # requested => answer'.feed = LiveFeed(answer'.page)]_feedVars
<1> SUFFICES ASSUME CacheOK, [FeedNext]_feedVars, requested' # requested
             PROVE  answer'.feed = LiveFeed(answer'.page)
  OBVIOUS
<1>1. PICK page \in Pages : GetRecommendationFeed(page)
  BY DEF FeedNext, feedVars, Upsert, RecordInteraction, SaveCandidate, ExpireEntry
<1> QED
  BY <1>1, RequestAnswersLive

\* Whatever is stored, expires or is out of reach, and whatever the candidate, the
\* import and the CV do between two requests, a feed that is answered is the one
\* that would be computed then (get_recommendation_feed, build_key).
THEOREM CacheNeverShows == FeedSpec => CacheIsTransparent
BY InitCacheOK, NextCacheOK, NextAnswersLive, PTL DEF FeedSpec, CacheIsTransparent

-----------------------------------------------------------------------------
(* The recommendation feed: the steps *)

\* When ids are only added, what is typed by them stays so.
LEMMA IdsGrow ==
  ASSUME NEW I, NEW K, I \in SUBSET K
  PROVE  /\ Seq(EventOf(I)) \in SUBSET Seq(EventOf(K))
         /\ Seq([id : I, saved : BOOLEAN]) \in SUBSET Seq([id : K, saved : BOOLEAN])
<1>1. EventOf(I) \in SUBSET EventOf(K)
  BY DEF EventOf
<1>2. \A e \in [id : I, saved : BOOLEAN] : e \in [id : K, saved : BOOLEAN]
  OBVIOUS
<1>3. \A X, Y : X \in SUBSET Y => Seq(X) \in SUBSET Seq(Y)
  OBVIOUS
<1> QED
  BY <1>1, <1>2, <1>3

\* A row that is taken over keeps its id, wherever it is listed then.
LEMMA TakeOverKeeps ==
  ASSUME FeedInv, NEW a \in Ad, TakeOver(a)
  PROVE  CatalogOK' /\ Ids \in SUBSET Ids'
<1> DEFINE n == Len(catalog)
<1>1. /\ n \in Nat /\ DOMAIN catalog = 1..n /\ catalog \in Seq(RowOf)
      /\ \A i \in 1..n : catalog[i] \in RowOf
      /\ \A i, k \in 1..n : catalog[i].id = catalog[k].id => i = k
      /\ Ids = {catalog[i].id : i \in 1..n}
  BY IdsKnown DEF FeedInv, CatalogOK, Ids, Rows, ToSet
<1>2. PICK k \in 1..n, row \in RowOf :
        /\ row.id = catalog[k].id
        /\ catalog' \in {[catalog EXCEPT ![k] = row], Append(RemoveAt(catalog, k), row)}
  <2>1. PICK k \in DOMAIN catalog, profile \in {a, NotExtracted} :
          LET row == [catalog[k] EXCEPT !.ad = a, !.profile = IF profile = a THEN a ELSE @]
          IN catalog' \in {[catalog EXCEPT ![k] = row], Append(RemoveAt(catalog, k), row)}
    BY DEF TakeOver
  <2> DEFINE row == [catalog[k] EXCEPT !.ad = a, !.profile = IF profile = a THEN a ELSE @]
  <2>2. row \in RowOf /\ row.id = catalog[k].id
    BY <1>1 DEF RowOf
  <2> HIDE DEF row
  <2>3. catalog' \in {[catalog EXCEPT ![k] = row], Append(RemoveAt(catalog, k), row)}
    BY <2>1 DEF row
  <2> QED
    BY <1>1, <2>2, <2>3
<1> HIDE DEF n
<1>3. CASE catalog' = [catalog EXCEPT ![k] = row]
  <2>1. /\ catalog' \in Seq(RowOf) /\ DOMAIN catalog' = 1..n
        /\ \A i \in 1..n : catalog'[i] = IF i = k THEN row ELSE catalog[i]
    BY <1>1, <1>2, <1>3
  <2>2. \A i \in 1..n : catalog'[i].id = catalog[i].id
    BY <1>2, <2>1
  <2>3. Ids' = {catalog'[i].id : i \in 1..n}
    BY <2>1 DEF Ids, Rows, ToSet
  <2> QED
    BY <1>1, <2>1, <2>2, <2>3 DEF CatalogOK
<1>4. CASE catalog' = Append(RemoveAt(catalog, k), row)
  <2> DEFINE from(i) == IF i = n THEN k ELSE IF i < k THEN i ELSE i + 1
  <2>1. /\ catalog' \in Seq(RowOf) /\ Len(catalog') = n /\ catalog'[n] = row
        /\ \A i \in 1..n : i < k => catalog'[i] = catalog[i]
        /\ \A i \in 1..n : i >= k /\ i < n => catalog'[i] = catalog[i + 1]
    <3>1. n = Len(catalog) /\ catalog \in Seq(RowOf) /\ k \in 1..n /\ row \in RowOf
      BY <1>1, <1>2 DEF n
    <3>2. MovedUp(catalog', catalog, k, row, RowOf, n)
      BY <1>4, <3>1, RemovedRow
    <3> QED
      BY <3>2 DEF MovedUp
  <2>2. DOMAIN catalog' = 1..n
    BY <2>1
  <2>3. ASSUME NEW i \in 1..n PROVE from(i) \in 1..n /\ catalog'[i].id = catalog[from(i)].id
    <3>1. CASE i = n
      BY <1>2, <2>1, <3>1
    <3>2. CASE i # n
      <4>1. i < n /\ i + 1 \in 1..n
        BY <1>1, <3>2
      <4> QED
        BY <1>1, <1>2, <2>1, <3>2, <4>1
    <3> QED
      BY <3>1, <3>2
  <2>4. ASSUME NEW i \in 1..n, NEW j \in 1..n, from(i) = from(j) PROVE i = j
    BY <1>1, <2>4
  <2>5. ASSUME NEW j \in 1..n PROVE \E i \in 1..n : from(i) = j
    <3>1. CASE j = k
      <4>1. n \in 1..n
        BY <1>1
      <4> QED
        BY <3>1, <4>1
    <3>2. CASE j < k
      <4>1. from(j) = j
        BY <1>1, <3>2
      <4> QED
        BY <4>1
    <3>3. CASE j > k
      <4>1. j - 1 \in 1..n /\ from(j - 1) = j
        BY <1>1, <3>3
      <4> QED
        BY <4>1
    <3> QED
      BY <1>1, <3>1, <3>2, <3>3
  <2> HIDE DEF from
  <2>6. Ids' = {catalog'[i].id : i \in 1..n}
    BY <2>2 DEF Ids, Rows, ToSet
  <2>7. Ids \in SUBSET Ids'
    <3>1. ASSUME NEW j \in 1..n PROVE catalog[j].id \in Ids'
      <4>1. PICK i \in 1..n : from(i) = j
        BY <2>5
      <4> QED
        BY <2>3, <2>6, <4>1
    <3> QED
      BY <1>1, <3>1
  <2>8. ASSUME NEW i \in 1..n, NEW j \in 1..n, catalog'[i].id = catalog'[j].id PROVE i = j
    <3>1. from(i) = from(j)
      BY <1>1, <2>3, <2>8
    <3> QED
      BY <2>4, <3>1
  <2> QED
    BY <2>1, <2>2, <2>7, <2>8 DEF CatalogOK
<1> QED
  BY <1>2, <1>3, <1>4

\* A row that is added has an id of its own.
LEMMA InsertRowKeeps ==
  ASSUME FeedInv, NEW a \in Ad, InsertRow(a)
  PROVE  CatalogOK' /\ Ids \in SUBSET Ids'
<1> DEFINE n == Len(catalog)
<1>1. /\ n \in Nat /\ DOMAIN catalog = 1..n /\ catalog \in Seq(RowOf)
      /\ \A i \in 1..n : catalog[i] \in RowOf
      /\ \A i, k \in 1..n : catalog[i].id = catalog[k].id => i = k
      /\ Ids = {catalog[i].id : i \in 1..n}
  BY IdsKnown DEF FeedInv, CatalogOK, Ids, Rows, ToSet
<1>2. PICK row \in RowOf : catalog' = Append(catalog, row) /\ row.id \notin Ids
  <2>1. PICK profile \in {a, NotExtracted} :
          catalog' = Append(catalog, [id |-> IdOf[a], ad |-> a, profile |-> profile])
    BY DEF InsertRow
  <2>2. [id |-> IdOf[a], ad |-> a, profile |-> profile] \in RowOf
    BY DEF RowOf, AnyId
  <2> QED
    BY <2>1, <2>2 DEF InsertRow
<1>3. /\ catalog' \in Seq(RowOf) /\ DOMAIN catalog' = 1..(n + 1) /\ catalog'[n + 1] = row
      /\ \A i \in 1..n : catalog'[i] = catalog[i]
  BY <1>1, <1>2
<1> HIDE DEF n
<1>4. \A i \in 1..(n + 1) : i \in 1..n \/ i = n + 1
  BY <1>1
<1>5. ASSUME NEW i \in 1..(n + 1), NEW k \in 1..(n + 1), catalog'[i].id = catalog'[k].id
      PROVE  i = k
  <2>1. \A j \in 1..n : catalog'[j].id # row.id
    BY <1>1, <1>2, <1>3
  <2> QED
    BY <1>1, <1>3, <1>4, <1>5, <2>1
<1>6. Ids' = {catalog'[i].id : i \in 1..(n + 1)}
  BY <1>3 DEF Ids, Rows, ToSet
<1>7. \A i \in 1..n : i \in 1..(n + 1)
  BY <1>1
<1> QED
  BY <1>1, <1>3, <1>5, <1>6, <1>7 DEF CatalogOK

\* An import leaves everything but the catalogue as it is.
LEMMA UpsertKeepsFeed ==
  ASSUME FeedInv, NEW a \in Ad, Upsert(a)
  PROVE  FeedInv'
<1>1. CatalogOK' /\ Ids \in SUBSET Ids'
  BY TakeOverKeeps, InsertRowKeeps DEF Upsert
<1>2. UNCHANGED <<events, version, cache, answer, requested>>
  BY DEF Upsert
<1>3. events' \in Seq(EventOf(Ids')) /\ answer'.feed.jobs \in Seq([id : Ids', saved : BOOLEAN])
  <2>1. events \in Seq(EventOf(Ids)) /\ answer.feed.jobs \in Seq([id : Ids, saved : BOOLEAN])
    BY DEF FeedInv
  <2>2. /\ Seq(EventOf(Ids)) \in SUBSET Seq(EventOf(Ids'))
        /\ Seq([id : Ids, saved : BOOLEAN]) \in SUBSET Seq([id : Ids', saved : BOOLEAN])
    BY <1>1, IdsGrow
  <2>3. events \in Seq(EventOf(Ids')) /\ answer.feed.jobs \in Seq([id : Ids', saved : BOOLEAN])
    BY <2>1, <2>2, Zenon
  <2> QED
    BY <1>2, <2>3
<1>4. HistoryOK' /\ EntriesTyped'
  BY <1>2 DEF FeedInv, HistoryOK, EntriesTyped, Behavior
<1>5. imported' \in 0..MaxImports
  <2>1. imported \in 0..MaxImports /\ imported < MaxImports /\ imported' = imported + 1
        /\ MaxImports \in Nat
    BY FeedAssumption DEF Upsert, FeedInv
  <2> QED
    BY <2>1
<1> QED
  BY <1>1, <1>2, <1>3, <1>4, <1>5 DEF FeedInv

\* A recorded event is the last word on its job.
LEMMA RecordKeepsFeed ==
  ASSUME FeedInv, NEW job \in Ids, NEW type \in EventTypes, RecordInteraction(job, type)
  PROVE  FeedInv'
<1> DEFINE e == [job |-> job, type |-> type]
<1>1. /\ events' = Append(events, e) /\ ~Repeated(Behavior, job, type)
      /\ UNCHANGED <<catalog, version, cache, answer, imported, requested>>
  BY DEF RecordInteraction
<1>2. Ids' = Ids /\ CatalogOK' /\ Ids \in SUBSET AnyId
  BY <1>1, IdsKnown DEF FeedInv, CatalogOK, Ids, Rows
<1>3. events \in Seq(EventOf(Ids)) /\ e \in EventOf(Ids)
  BY DEF FeedInv, EventOf
<1>4. events \in Seq(EventOf(AnyId)) /\ e \in EventOf(AnyId)
  BY <1>2, <1>3, IdsGrow DEF EventOf
<1> HIDE DEF e
<1>5. Behavior \in HistoryOf(AnyId) /\ Behavior' = After(Behavior, e)
  <2>1. Behavior = History(events) /\ Behavior' = History(events')
    BY DEF Behavior, History
  <2>2. History(Append(events, e)) = After(History(events), e)
    BY <1>4, HistoryGrows
  <2>3. History(events) \in HistoryOf(AnyId)
    BY <1>4, BehaviorTyped
  <2> QED
    BY <1>1, <2>1, <2>2, <2>3
<1>6. e.type = "dismiss" => e.job \notin Behavior.applied
  BY <1>1 DEF Repeated, e
<1>7. HistorySays(Append(events, e), After(Behavior, e), AnyId)
  BY <1>4, <1>5, <1>6, HistoryStaysTrue DEF FeedInv, HistoryOK
<1>8. HistoryOK'
  BY <1>1, <1>5, <1>7 DEF HistoryOK
<1>9. events' \in Seq(EventOf(Ids'))
  BY <1>1, <1>2, <1>3
<1> QED
  BY <1>1, <1>2, <1>8, <1>9 DEF FeedInv, EntriesTyped

\* A page of a request is a number from one.
LEMMA PagesAreNumbers ==
  ASSUME FeedInv, NEW page \in Pages
  PROVE  page \in Nat \ {0}
<1>1. Cardinality(Ids) \in Nat
  <2>1. DOMAIN catalog = 1..Len(catalog) /\ Len(catalog) \in Nat
    BY IdsKnown DEF FeedInv
  <2>2. IsFiniteSet(1..Len(catalog))
    BY <2>1, FS_Interval
  <2> DEFINE f == [k \in 1..Len(catalog) |-> catalog[k].id]
  <2>3. f \in Surjection(1..Len(catalog), Ids)
    BY <2>1 DEF Surjection, Ids, Rows, ToSet
  <2> HIDE DEF f
  <2>4. IsFiniteSet(Ids)
    BY <2>2, <2>3, FS_Surjection
  <2> QED
    BY <2>4, FS_CardinalityType
<1> QED
  BY <1>1 DEF Pages

\* A request answers and stores what is computed then.
LEMMA RequestKeepsFeed ==
  ASSUME FeedInv, CacheOK, NEW page \in Pages, GetRecommendationFeed(page)
  PROVE  FeedInv'
<1>1. /\ UNCHANGED <<catalog, events, version, imported>>
      /\ requested < MaxRequests /\ requested' = requested + 1
  BY DEF GetRecommendationFeed
<1>2. page \in Nat \ {0}
  BY PagesAreNumbers
<1>3. /\ LiveFeed(page).total \in Nat
      /\ LiveFeed(page).jobs \in Seq([id : Ids, saved : BOOLEAN])
  BY <1>2, LiveFeedPresents
<1>4. answer'.feed = LiveFeed(page)
  BY RequestAnswersLive
<1>5. Ids' = Ids /\ CatalogOK' /\ HistoryOK'
  BY <1>1 DEF FeedInv, CatalogOK, Ids, Rows, HistoryOK, Behavior
<1>6. EntriesTyped'
  <2> DEFINE new == [key |-> BuildKey(page), feed |-> LiveFeed(page)]
  <2>1. \A entry \in cache' : entry \in cache \/ entry = new
    BY DEF GetRecommendationFeed
  <2>2. new.key.page \in Nat /\ new.feed.total \in Nat
    BY <1>2, <1>3 DEF BuildKey
  <2> HIDE DEF new
  <2> QED
    BY <2>1, <2>2 DEF EntriesTyped, FeedInv
<1>7. requested' \in 0..MaxRequests
  <2>1. requested \in 0..MaxRequests /\ MaxRequests \in Nat
    BY FeedAssumption DEF FeedInv
  <2> QED
    BY <1>1, <2>1
<1> QED
  BY <1>1, <1>3, <1>4, <1>5, <1>6, <1>7 DEF FeedInv

\* Every step keeps the invariant.
LEMMA NextFeedInv ==
  ASSUME FeedInv, CacheOK, [FeedNext]_feedVars
  PROVE  FeedInv'
<1>1. CASE UNCHANGED feedVars
  BY <1>1 DEF feedVars, FeedInv, CatalogOK, Ids, Rows, HistoryOK, Behavior, EntriesTyped
<1>2. ASSUME NEW a \in Ad, Upsert(a) PROVE FeedInv'
  BY <1>2, UpsertKeepsFeed
<1>3. ASSUME NEW job \in Ids, NEW type \in EventTypes, RecordInteraction(job, type) PROVE FeedInv'
  BY <1>3, RecordKeepsFeed
<1>4. CASE SaveCandidate
  <2>1. version' \in 1..Versions
    <3>1. version \in 1..Versions /\ version < Versions /\ version' = version + 1 /\ Versions \in Nat
      BY <1>4, FeedAssumption DEF SaveCandidate, FeedInv
    <3> QED
      BY <3>1
  <2>2. UNCHANGED <<catalog, events, cache, answer, imported, requested>>
    BY <1>4 DEF SaveCandidate
  <2> QED
    BY <2>1, <2>2 DEF FeedInv, CatalogOK, Ids, Rows, HistoryOK, Behavior, EntriesTyped
<1>5. ASSUME NEW page \in Pages, GetRecommendationFeed(page) PROVE FeedInv'
  BY <1>5, RequestKeepsFeed
<1>6. CASE ExpireEntry
  <2>1. cache' \in SUBSET cache /\ UNCHANGED <<catalog, events, version, answer, imported, requested>>
    BY <1>6 DEF ExpireEntry
  <2> QED
    BY <2>1 DEF FeedInv, CatalogOK, Ids, Rows, HistoryOK, Behavior, EntriesTyped
<1> QED
  BY <1>1, <1>2, <1>3, <1>4, <1>5, <1>6 DEF FeedNext

\* A feed that is answered is the one that would be computed, and that one presents
\* what the candidate may see.
LEMMA NextAnswersCurrent ==
  FeedInv /\ CacheOK /\ [FeedNext]_feedVars
    => [requested' # requested => Presents(answer'.page, answer'.feed)]_feedVars
<1> SUFFICES ASSUME FeedInv, CacheOK, [FeedNext]_feedVars, requested' # requested
             PROVE  Presents(answer'.page, answer'.feed)
  OBVIOUS
<1>1. PICK page \in Pages : GetRecommendationFeed(page)
  BY DEF FeedNext, feedVars, Upsert, RecordInteraction, SaveCandidate, ExpireEntry
<1>2. page \in Nat \ {0}
  BY PagesAreNumbers
<1>3. Presents(page, LiveFeed(page))
  BY <1>2, LiveFeedPresents
<1> QED
  BY <1>1, <1>3, RequestAnswersLive

\* The invariant holds in every state.
LEMMA FeedInductive == FeedSpec => [](FeedInv /\ CacheOK)
<1>1. FeedInv /\ CacheOK /\ [FeedNext]_feedVars => FeedInv'
  BY NextFeedInv
<1> QED
  BY <1>1, InitFeedInv, InitCacheOK, NextCacheOK, PTL DEF FeedSpec

\* The invariant says of the rows, the events, the entries and the answer what their
\* types say.
LEMMA FeedInvImplies == ASSUME FeedInv PROVE FeedTypeOK
<1>1. \A k \in DOMAIN catalog : /\ catalog[k].ad \in Ad
                                /\ catalog[k].profile \in Ad \union {NotExtracted}
  BY IdsKnown DEF FeedInv, RowOf
<1> QED
  BY <1>1 DEF FeedInv, CatalogOK, EntriesTyped, EventOf, FeedTypeOK

\* One id has one row, however advertisements share ids and addresses, and rows,
\* events, entries and answers keep their types (upsert, record_interaction).
THEOREM FeedTyped == FeedSpec => []FeedTypeOK
BY FeedInductive, FeedInvImplies, PTL

\* A feed that is answered holds no job the candidate applied to or dismissed, one of
\* those that are alike and none left out, highest score first, whatever was stored
\* before it was asked for (get_recommendation_feed, deduplicate_jobs).
THEOREM FeedAnswersAreCurrent == FeedSpec => FeedIsCurrent
BY FeedInductive, NextAnswersCurrent, PTL DEF FeedSpec, FeedIsCurrent

=============================================================================
